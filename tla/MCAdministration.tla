------------------------- MODULE MCAdministration -------------------------
\* Each plan is a handful of requests that can meet, in every order and overlap.
EXTENDS Administration

MCConfig(mode) == [t \in Trunks |-> mode]

Ask(op) == [op |-> op, n |-> 1]
Again(op) == [op |-> op, n |-> 2]
Group(op, table, number) == [op |-> op, table |-> table, number |-> number]
Edit(mode) == [op |-> "edit", cfg |-> IF mode = "invalid" THEN null ELSE MCConfig(mode)]
Save(password) == [op |-> "save", password |-> password]
DND(on) == [op |-> "dnd", on |-> on]
Plan(mode, requests) == [cfg |-> MCConfig(mode), requests |-> requests]

num1 == CHOOSE n \in Numbers : TRUE
num2 == CHOOSE n \in Numbers : n # num1

MCPlans == {
    Plan("options", {Edit("off"), Edit("register"), Ask("reload"), Again("reload")}),
    Plan("register", {Edit("off"), Ask("reload"), Ask("download"), Ask("restore")}),
    Plan("off", {Group("create", "hunt", num1), Group("create", "hunt", num2),
                 Group("update", "hunt", num1), Group("delete", "hunt", num1),
                 Group("delete", "hunt", num2)}),
    Plan("off", {Group("create", "hunt", num1), [op |-> "route", number |-> num1],
                 Group("update", "hunt", num2), Group("delete", "hunt", num1)}),
    Plan("off", {Group("create", "paging", num1), Group("create", "paging", num2),
                 Group("update", "paging", num1), Group("delete", "paging", num1)}),
    Plan("off", {Group("create", "hunt", num1), Group("create", "hunt", num2),
                 Group("update", "hunt", num1), Ask("download"), Ask("restore")}),
    Plan("off", {Save(TRUE), DND("on"), Edit("invalid"), Ask("reload")}),
    Plan("off", {Save(FALSE), Ask("remove"), Ask("download"), Ask("restore")}),
    Plan("off", {DND("on"), Ask("download"), Ask("restore"), Again("restore")}),
    Plan("off", {Group("create", "hunt", num1), Group("delete", "hunt", num1),
                 Ask("download"), Ask("restore")}),
    Plan("off", {Ask("download"), Again("download"), Ask("restore")}),
    Plan("options", {Edit("invalid"), Ask("download"), Ask("restore")})}
=============================================================================
