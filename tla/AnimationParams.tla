--------------------------- MODULE AnimationParams ---------------------------
(***************************************************************************)
(* The parameters an application offers to the web client                  *)
(* (application/AnimationParams.cpp) and what the two threads of           *)
(* MatrixApplication do with them: the constructor registers them before   *)
(* start() (MatrixApplication.cpp:310-316), loop() reads and sets them on  *)
(* the main thread, and the io thread sends their schema and their values  *)
(* and applies the web client's updates.  A mutex makes each call a step.  *)
(*                                                                         *)
(* A parameter has a value of every type; that of its own type is set at   *)
(* registration, the rest is not initialised, save the string.  Labels,    *)
(* ranges and options are left out: nothing holds a value to them.         *)
(***************************************************************************)
EXTENDS MatrixApplication

CONSTANTS
  Keys,         \* names of parameters
  ParamTypes,   \* those of "float", "int", "bool", "enum" in this instance
  MaxValue      \* bound: values of each type; 0 is the type's default

ASSUME ParamsAssumption ==
  /\ ParamTypes \subseteq {"float", "int", "bool", "enum"}
  /\ MaxValue \in Nat

Values == 0..MaxValue

\* What a message's AppParamUpdate says: all fields but one hold the default.
Updates == [key : Keys, field : ParamTypes, value : Values]

VARIABLES
  params,       \* AnimationParams::params_ of each application
  schema,       \* history: the types in the schema last sent, by parameter
  wanted        \* history: what the last call that names a parameter's type set

paramVars == <<params, schema, wanted>>

Absent == [type |-> "none", val |-> [t \in ParamTypes |-> 0]]

ParamsInit ==
  /\ Init
  /\ params = [a \in Clients |-> [k \in Keys |-> Absent]]
  /\ schema = [a \in Clients |-> [k \in Keys |-> "none"]]
  /\ wanted = [a \in Clients |-> [k \in Keys |-> 0]]

Known(a) == {k \in Keys : params[a][k].type # "none"}

-----------------------------------------------------------------------------
\* registerFloat and the like: a record with one field set replaces the old.
register(a, k, type, def) ==
  \E val \in [ParamTypes -> Values] :
    /\ val[type] = def
    /\ \A t \in ParamTypes \ {type} : t = "enum" => val[t] = 0
    /\ params' = [params EXCEPT ![a][k] = [type |-> type, val |-> val]]
    /\ wanted' = [wanted EXCEPT ![a][k] = def]

\* getFloat and the like; the types are not compared.
get(a, k, type) == IF k \in Known(a) THEN params[a][k].val[type] ELSE 0

\* setFloat and the like; the types are not compared.
set(a, k, type, value) ==
  /\ params' = IF k \in Known(a)
               THEN [params EXCEPT ![a][k].val[type] = value] ELSE params
  /\ wanted' = IF type = params[a][k].type
               THEN [wanted EXCEPT ![a][k] = value] ELSE wanted

\* Fault variant of Updated: the message decides which field is written.
UpdatedByMessage(record, u) == [record EXCEPT !.val[u.field] = u.value]

\* The type of the record decides: of a message that carries another type's
\* field it takes the default.
Updated(record, u) ==
  [record EXCEPT !.val[record.type] = IF u.field = record.type THEN u.value ELSE 0]

applyUpdate(a, u) ==
  LET record == params[a][u.key] IN
  /\ u.key \in Known(a)
  /\ params' = [params EXCEPT ![a][u.key] = Updated(record, u)]
  /\ wanted' = [wanted EXCEPT ![a][u.key] =
                  IF u.field = record.type THEN u.value ELSE 0]

toSchema(a) == [k \in Keys |-> params[a][k].type]

toValues(a) ==
  [k \in Known(a) |-> params[a][k].val[params[a][k].type]]

-----------------------------------------------------------------------------
\* The constructor of the application, before start().
RegisterParam(a) ==
  /\ mainAt[a] = "off"
  /\ \E k \in Keys, type \in ParamTypes, def \in Values : register(a, k, type, def)
  /\ UNCHANGED <<vars, schema>>

\* loop() sets a parameter, by whatever type.
SetParam(a) ==
  /\ mainAt[a] = "draw"
  /\ \E k \in Keys, type \in ParamTypes, value \in Values : set(a, k, type, value)
  /\ UNCHANGED <<vars, schema>>

\* The io thread: what handleRequest does with the parameters.  A parameter
\* nobody registered is not updated; nothing is answered before it was asked.
HandleParams(a, m) ==
  \/ /\ m.type = "registerApp" /\ mainAt[a] # "off"
     /\ schema' = [schema EXCEPT ![a] = toSchema(a)]
     /\ UNCHANGED <<params, wanted>>
  \/ /\ m.type = "setAppParam"
     /\ \E u \in Updates : applyUpdate(a, u)
     /\ UNCHANGED schema
  \/ /\ m.type # "registerApp"
     /\ UNCHANGED paramVars

ParamsMessage(a) ==
  \E m \in Message : /\ m.type \in HandledTypes
                     /\ m.level = 0
                     /\ Len(posted[a]) < MaxPosted
                     /\ handleRequest(a, m)
                     /\ HandleParams(a, m)

ParamsNext ==
  \E a \in Clients :
    \/ /\ Start(a) \/ MainStep(a) \/ LoopThrows(a) \/ IoStep(a) \/ ConnectionFails(a)
       /\ UNCHANGED paramVars
    \/ ParamsMessage(a)
    \/ RegisterParam(a)
    \/ SetParam(a)

ParamsSpec ==
  /\ ParamsInit /\ [][ParamsNext]_<<vars, paramVars>>
  /\ \A a \in Clients : WF_vars(MainStep(a)) /\ WF_vars(IoStep(a))

-----------------------------------------------------------------------------
\* The two threads and the web client agree on every parameter: its type is
\* the one in the schema that was sent (start() registers after the
\* constructors have run, MatrixApplication.cpp:311-313), and what getAppParams
\* answers and loop() reads is what was last set through that type, by loop()
\* or by the web client; an update that carries another type's field sets the
\* default (AnimationParams.cpp:92-107, 120-139).
AnswersFollowSchema ==
  \A a \in Clients, k \in Keys :
    /\ schema[a][k] # "none" => schema[a][k] = params[a][k].type
    /\ k \in Known(a) => /\ toValues(a)[k] = wanted[a][k]
                               /\ get(a, k, params[a][k].type) = wanted[a][k]

=============================================================================
