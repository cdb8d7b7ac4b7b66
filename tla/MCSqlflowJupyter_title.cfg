CONSTANTS
    Cells = {c1, c2}
    Names = {n1, n2}
    PageTitle = t0
    Prefix = pfx
    Undefined = undef
    Busy = busymark
    MaxReadies = 2
SPECIFICATION Spec
INVARIANT TitleShowsPageTitle
CHECK_DEADLOCK FALSE
