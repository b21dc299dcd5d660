SPECIFICATION Spec
CONSTANTS
    r1 = r1  r2 = r2  v1 = v1  u1 = u1
    m1 = m1  m2 = m2
    forth = forth  back = back  q1 = q1
    Rotations <- MCRotations
    Revocations <- MCRevocations
    Uses <- MCUses
    Models <- MCModels
    Publications <- MCPublications
    Published <- MCPublished
    Earlier <- MCEarlier
    Routes <- MCRoutes
    None = None
SYMMETRY MCSymmetry
CHECK_DEADLOCK FALSE
INVARIANT CatalogIsAcyclic
