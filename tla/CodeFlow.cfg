CONSTANTS
  Reg <- MCReg
  Type <- MCType
  Unknown = 0
  Merge <- mergeTypes
  OP_MOVE_EXCEPTION = "move-exception"
  Class <- MCClass
  Interface <- MCInterface
  Super <- MCSuper
  Implements <- MCImplements
  Address <- MCAddress
  RegTypeBits = 6
  Op <- MCOp
  Effect <- MCEffect
  Reject <- MCReject
  Signature <- MCSignature
  Programs <- MCPrograms
SPECIFICATION FairSpec
INVARIANT AcceptedIsTyped NoStrayFlag
PROPERTY Terminates
