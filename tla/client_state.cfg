SPECIFICATION FairSpec
CONSTANTS
  a = a
  b = b
  k = k
  ma = ma
  mb = mb
  NoChat = NoChat
  Chats = {a, b, k}
  Messages = {ma, mb}
  Mine = {ma}
  ChatOf <- MCChatOf
  Time <- MCTime
  Servers <- MCServers
  BadKeys = {k}
  Lengths = {40}
  Rounds = {1, 2}
  Stalls = TRUE
INVARIANTS
  TypeOK
  HiddenIsCounted
  ViewIsOfOpenChat
  RemovedStaysRemoved
  SavedCursorWasListed
  NothingUnsaved
  PayloadRejoins
  NoneEmptyUpToSeven
  PollsGoOn
PROPERTIES
  ChatsKeepPromise
  PollingResumes
