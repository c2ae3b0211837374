--------------------------- MODULE MCTaskSession ---------------------------
EXTENDS TaskSession, TLC

E(kind) == [kind |-> kind, of |-> "none"]
Started(s) == [kind |-> "stream", of |-> s]

\* A stream written to whose task ends, twice, with an artifact in between; a
\* cancel behind two artifacts; and a cancelled task with a stream read from.
MCLogs == {<<Started("s1"), E("terminal"), E("artifact"), E("terminal")>>,
           <<E("artifact"), E("artifact"), E("cancel")>>,
           <<Started("r1"), E("cancel"), E("terminal"), E("cancel")>>,
           <<Started("r1"), E("terminal"), E("artifact")>>}
=============================================================================
