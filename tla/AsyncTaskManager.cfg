SPECIFICATION Spec
CONSTANTS
  Tasks = {upload, convert, copy, pack}
  Cancellable = {upload, convert}
  Nesting = {pack}
  Main = Main
  NoWait = NoWait
INVARIANTS
  TypeOK
  NestedWaitCoversChildren
PROPERTIES
  ImplementsTaskGroup
  OwnerIsAnswered
  GivingUpCancelsAll
