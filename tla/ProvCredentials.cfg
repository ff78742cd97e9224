SPECIFICATION Spec
CONSTANTS
  Forms <- MCForms
  Brokers = {}
  ButtonTasks = {t1}
  PointerReads = {"stored", "null", "garbage"}
  NvsErrors = TRUE
INVARIANTS TypeOK OperationHasCredentials
PROPERTIES ProvisioningIsAtomic
