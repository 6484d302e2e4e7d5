SPECIFICATION Spec
CONSTANTS
  BYTE = 2
  WORDS = 2
  Sectors = {6, 7, 8, 9}
  MaxCount = 3
  Tasks = {t1, t2}
  Masked = TRUE
  Prompt = TRUE
  Resident = TRUE
INVARIANT TypeOK ReadsReturnSectors WritesLand
PROPERTY CallsEnd
