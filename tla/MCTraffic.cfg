SPECIFICATION Spec
CONSTANTS
  Cloud = {"aws", "gcp", "azure"}
  MaxNodes = 3
  MaxRequests = 7
INVARIANTS
  AllRouted
  AsProportionalAsCanBe
CHECK_DEADLOCK FALSE
