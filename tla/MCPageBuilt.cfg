\* A record is added between the count and the select of a page.
SPECIFICATION Spec
CONSTANTS
    Ids = {1, 2}  MaxTime = 1  Actions = {a}  PageSizes = {2}  None = None
INVARIANT PageBuilt
