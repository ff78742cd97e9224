SPECIFICATION Spec
CONSTANTS
  Uploads = {u1, u2}
  Parts = 2
SYMMETRY Symmetry
INVARIANT TypeOK
PROPERTIES OwnImageBoots WholeUploadBoots
