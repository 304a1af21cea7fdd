SPECIFICATION Spec
CONSTANTS
  Sources <- MemberEvents
  Author <- Authors
  Conversation <- Places
  Refused <- Misses
  Treats <- OneShare
  Recipient <- ToAlice
  Feedings <- OneFeeding
  Streams <- OneStream
  Regimes <- ThreeMessages
INVARIANTS
  TypeOK
  OneEventPerMessage
  RepliesFound
  OwnConversation
  NoticesInOrder
PROPERTIES
  EverySubmitted
CHECK_DEADLOCK FALSE
