\* Three strips, five channels and two pages: pinning makes the windows of a
\* page 3, 2 or 1 wide, so that there are two to four of them, with and without
\* a short final one, and there is a page to leave a pinned strip behind on.
CONSTANTS
    NumStrips = 3
    MaxChannel = 5
    MaxPage = 2
    Invalid = Invalid
    SequenceModulus = 2
SPECIFICATION Spec
INVARIANTS
    TypeOK
    UniqueAddresses
    AbortsOnlyWhen
    WindowsCoverPage
    LightsTellKeys
PROPERTY
    ImplementsAddressBook
\* A failed assertion ends the process.
CHECK_DEADLOCK FALSE
