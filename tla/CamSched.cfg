CONSTANT Cams = {"c1", "c2"}
SPECIFICATION FairSpec
INVARIANTS TypeOK OneOwner PunctualCaptureAlone
PROPERTY AdmittedCaptureStarts
