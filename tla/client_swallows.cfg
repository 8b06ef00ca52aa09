SPECIFICATION Spec
CONSTANTS
  a = a
  b = b
  k = k
  ma = ma
  mb = mb
  NoChat = NoChat
  Chats = {a, b}
  Messages = {ma, mb}
  Mine = {ma}
  ChatOf <- MCChatOf
  Time <- MCTime
  Servers <- MCServers
  BadKeys = {}
  Lengths = {40}
  Rounds = {1, 2}
  Stalls = FALSE
INVARIANT
  NothingSwallowed
