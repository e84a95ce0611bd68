---------------------------- MODULE ScreenArbiter ----------------------------
(***************************************************************************)
(* What the server promises about the screen, without messages, queues or  *)
(* connections.  Threads open applications; the one opened last among      *)
(* those still open is on top.  Only the app on top is granted the screen. *)
(* A grant is for one picture on each renderer and is given to a thread,   *)
(* which opens nothing as long as it holds one: what can appear over a new *)
(* app is at most one picture of each other thread, granted before.  When  *)
(* threads meet in a renderer, one of their pictures is shown or none.     *)
(***************************************************************************)
EXTENDS Integers

CONSTANTS Regs,       \* the applications, numbered in the order they open
          Ids,        \* what they are called by; 0 is nobody
          Threads,
          Nobody,     \* no thread
          Renderers

VARIABLES stack,      \* the open applications
          name,       \* what each is called
          opener,     \* the thread that opened each
          grant,      \* whose picture each thread may show
          left,       \* the renderers where it has not yet been
          shown       \* whose picture each renderer shows

vars == <<stack, name, opener, grant, left, shown>>

OnTop(r) == r \in stack /\ \A q \in stack : q <= r

Init ==
  /\ stack = {}
  /\ name = [r \in Regs |-> 0]
  /\ opener = [r \in Regs |-> Nobody]
  /\ grant = [t \in Threads |-> 0]
  /\ left = [t \in Threads |-> {}]
  /\ shown = [k \in Renderers |-> 0]

Open(t, r, id) ==
  /\ left[t] = {}
  /\ \A q \in stack : q < r
  /\ stack' = stack \cup {r}
  /\ name' = [name EXCEPT ![r] = id]
  /\ opener' = [opener EXCEPT ![r] = t]
  /\ UNCHANGED <<grant, left, shown>>

Close(S) ==
  /\ stack' = stack \ S
  /\ name' = [r \in Regs |-> IF r \in S THEN 0 ELSE name[r]]
  /\ opener' = [r \in Regs |-> IF r \in S THEN Nobody ELSE opener[r]]
  /\ UNCHANGED <<grant, left, shown>>

Grant(t, r) ==
  /\ left[t] = {}
  /\ OnTop(r)
  /\ grant' = [grant EXCEPT ![t] = name[r]]
  /\ left' = [left EXCEPT ![t] = Renderers]
  /\ UNCHANGED <<stack, name, opener, shown>>

\* Thread t has its turn in renderer k; with the last one the grant ends.
Show(t, k) ==
  LET others == {u \in Threads \ {t} : k \in left[u]} IN
  /\ k \in left[t]
  /\ \/ shown' = [shown EXCEPT ![k] = grant[t]]
     \/ \E u \in others : shown' = [shown EXCEPT ![k] = grant[u]]
     \/ others # {} /\ UNCHANGED shown
  /\ left' = [left EXCEPT ![t] = @ \ {k}]
  /\ grant' = [grant EXCEPT ![t] = IF left[t] = {k} THEN 0 ELSE @]
  /\ UNCHANGED <<stack, name, opener>>

Next ==
  \/ \E t \in Threads, r \in Regs, id \in Ids : Open(t, r, id)
  \/ \E S \in SUBSET Regs : Close(S)
  \/ \E t \in Threads, r \in Regs : Grant(t, r)
  \/ \E t \in Threads, k \in Renderers : Show(t, k)

Spec == Init /\ [][Next]_vars

=============================================================================
