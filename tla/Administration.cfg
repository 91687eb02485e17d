SPECIFICATION Spec
CONSTANTS
    e1 = e1  e2 = e2  n1 = n1  n2 = n2  p1 = p1  p2 = p2
    t1 = t1  t2 = t2  l1 = l1  l2 = l2  h1 = h1  h2 = h2  d1 = d1  s1 = s1
    Null = Null
    Emails = {e1, e2}
    Names = {n1, n2}
    DEFAULT_ORGANIZATION_NAME = n1
    Handlers = {p1, p2}
    MaxOrganizations = 3
    Tabs = {t1, t2}
    Labels = {l1, l2}
    MaxConnects = 3
    Hosts = {h1, h2}
    Domains = {d1}
    Services = {s1}
    MaxLogs = 2
SYMMETRY Symmetry
INVARIANTS
    
    
    RowsFitSchema
PROPERTIES
    HostChecksAreKept
CHECK_DEADLOCK FALSE
