SPECIFICATION Spec
CONSTANTS
  MaxAddresses = 2
  Versions = {12, 13}
  Groups = {"x25519", "mlkem", "hrr"}
INVARIANTS ReadyIsSound
PROPERTIES ConnectSettles
CHECK_DEADLOCK FALSE
