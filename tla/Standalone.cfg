CONSTANTS
  ScreenHeight = 2
  MaxPictures = 5
SPECIFICATION FairSpec
PROPERTIES ImplementsFramePipe PictureIsShown
CHECK_DEADLOCK FALSE
