SPECIFICATION MCSpec
CONSTANTS
  Timers = {1, 2, 3}
  Main = Main
  MaxVersion = 3
  NONE = NONE
  chat = chat
  note = note
  again = again
  other = other
  note1 = note1
  note2 = note2
  Turns = {t1, t2}
  Chats = {chat}
  ChatOf <- OneChat
  MaxStops = 1
  MaxClears = 1
  Claims = {note, again, other}
  Voices = {note1, note2}
  VoiceOf <- Notes
  Commands = {stop}
  message = message
  Requests = {1, 2, 3, 4}
  Keys = {message}
  KeyOf <- OneMessage
  Awaited = {1}
  Forced = {2, 3}
  MaxRetries = 1
INVARIANTS BoundariesHold VoiceHasOneOwner DeliveryHolds
PROPERTIES StoreIsDurable ChangesReachDisk CallsReturn
CHECK_DEADLOCK FALSE
