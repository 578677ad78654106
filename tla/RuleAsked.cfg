CONSTANTS
  gtn = gtn
  ltn = ltn
  COPY = COPY
  il = il
  ySrc = ySrc
  MDSz = 240
  Asked = {il}
  Meta <- MCMeta
  Default <- MCDefault
  Fields <- MCFields
  Others <- MCOthers
SPECIFICATION Spec
INVARIANT Survives
INVARIANT ExtentCovers
