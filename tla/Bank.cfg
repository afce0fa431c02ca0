CONSTANTS
  Accounts = {a1, a2, a3}
  Width = 5
SPECIFICATION BankSpec
INVARIANTS
  BankTypeOK
  MoneyIsConserved
CHECK_DEADLOCK FALSE
