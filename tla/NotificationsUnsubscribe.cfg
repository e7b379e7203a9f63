SPECIFICATION Spec
CONSTANTS
    Addresses = {a1}
    Rows = {r1, r2}
    Instants = {i1}
    Reminders = {s1}
    Updates = {u1}
    Jobs = {j1, j2}
    None = None
    Subscriptions <- McSubscriptions
    MaxLinks = 2
    MaxFailures = 1
INVARIANT UnsubscribeLinkWorks
