SPECIFICATION FairSpec
CONSTANTS
    pc1 = pc1
    pc2 = pc2
    Devices = {pc1, pc2}
    Legs <- TwoLegs
PROPERTY
    ValidDeviceServed
