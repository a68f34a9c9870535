------------------------------ MODULE MCRelease ------------------------------
\* Small values for the constants of Release.
EXTENDS Release

Base == [part \in Parts |-> 0]

\* Each part that a commit may touch, on its own; any commit may be reverted.
MCContents == {Base} \cup {[Base EXCEPT ![part] = 1] : part \in Parts}

\* An author may bump the Minor, twice, or the Major, which starts it over.
MCVersions == {<<1, 1>>, <<1, 2>>, <<2, 0>>}

MCFirst == [t \in Tasks |-> [content |-> Base, version |-> <<1, 0>>]]

=============================================================================
