SPECIFICATION IntakeSpec
CONSTANTS
    a1 = a1  a2 = a2  a3 = a3  t1 = t1  t2 = t2  t3 = t3
    clean = clean  infected = infected  jobA = jobA  jobB = jobB  text = text
    Admissions <- MCAdmissions
    Contents <- MCContents
    Infected <- MCInfected
    Offered <- MCOffered
    NoVersion = NoVersion
    NoRecord = NoRecord
    Attempts <- MCAttempts
    JobId <- MCJobId
    Fence <- MCFence
    Normal <- MCNormal
    Unparsable = Unparsable
    NoJob = NoJob
CHECK_DEADLOCK FALSE
INVARIANT PublishedOnce
