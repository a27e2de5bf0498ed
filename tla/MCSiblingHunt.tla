---------------------------- MODULE MCSiblingHunt ----------------------------
EXTENDS SiblingHunt

Record0(scope) == [basis |-> "own_code", source |-> "open_source", ref |-> FALSE, scope |-> scope]

\* Two projects can be hunted: the source, and either sibling b, or sibling a
\* after b was missing, torn, held or refused.
MCRegistry(a, b) == [p \in Projects |-> CASE p = "src" -> Record0({"x"})
                                           [] p = "a" -> a [] p = "b" -> b]

MCRegistries ==
    {MCRegistry(NoProject, Record0({"x", "y"}))} \cup
    {MCRegistry(Record0({"y"}), b) : b \in {NoProject, TornProject, Record0({}),
                                            [Record0({"x"}) EXCEPT !.basis = "none"]}}

MCEdits == {NoProject, Record0({"y", "z"})}

Stored0(project, status, class) ==
    [project |-> project, place |-> [area |-> "x", line |-> 1], class |-> class,
     status |-> status, by |-> "earlier"]

MCSeed(f) == [i \in Ids |-> IF i = SourceFinding THEN f ELSE NoFinding]

\* The source finding has index 2, and index 1 is free.  Besides, the findings a
\* hunt refuses to start from.
MCWorlds ==
    {[registry |-> r, findings |-> MCSeed(Stored0("src", "verified", "c"))] : r \in MCRegistries}
    \cup {[registry |-> MCRegistry(NoProject, NoProject), findings |-> MCSeed(f)] :
             f \in {NoFinding, Stored0("src", "candidate", "c"), Stored0("a", "verified", "c"),
                    Stored0("src", "verified", NoClass)}}

At(area, line, class) == [text |-> TRUE, place |-> [area |-> area, line |-> line], class |-> class]

\* The source's own instance, a sibling of it, one without a message, one in
\* another area, one without a place, and two more.
MCDoc == <<At("x", 1, "c"), At("x", 2, "c"), [At("x", 2, "c") EXCEPT !.text = FALSE],
           At("y", 2, "c"), [At("x", 2, "c") EXCEPT !.place = NoPlace],
           At("y", 1, "d"), At("z", 1, "c")>>

MCHuntDocs == {MCDoc}

MCDocs == {<<At("x", 1, NoClass), At("x", 2, "c")>>}

\* A place inside the rogue target's scope, one outside, and none.
MCRoguePlaces == {At("x", 2, "c").place, At("z", 1, "c").place, NoPlace}

MCEscaping == [p \in Projects |-> IF p = "b" THEN {"y"} ELSE {}]

MCSiblings == <<"b", "src", "a">>
=============================================================================
