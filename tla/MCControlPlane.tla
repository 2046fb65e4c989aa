--------------------------- MODULE MCControlPlane ---------------------------
EXTENDS ControlPlane

Content(kind, shadow) == [kind |-> kind, shadow |-> shadow]
MCContents == {Content("good", TRUE), Content("good", FALSE), Content("moved", FALSE)}

Profile(id, canonical) == [id |-> id, canonical |-> canonical]
Binding(kind, subject, profile) == [kind |-> kind, subject |-> subject, profile |-> profile]
Document(profiles, default, bindings, shadow) ==
  [profiles |-> profiles, default |-> default, bindings |-> bindings, shadow |-> shadow]

One == Document(<<Profile("p", TRUE)>>, "none", <<>>, FALSE)
Two == Document(<<Profile("p", TRUE), Profile("q", TRUE)>>, "q",
                <<Binding("key", "s", "p"), Binding("client", "s", "q")>>, TRUE)
Dangling == Document(<<Profile("p", TRUE)>>, "p", <<Binding("workspace", "s", "q")>>, FALSE)
Ambiguous == Document(<<Profile("p", TRUE), Profile("q", TRUE)>>, "none", <<>>, FALSE)
Loose == Document(<<Profile("p", FALSE)>>, "p", <<>>, FALSE)
MCDocuments == {One, Two, Dangling, Ambiguous, Loose}
=============================================================================
