------------------------------ MODULE MCMemory -------------------------------
(* The instance of Memory: see the .cfg file and README.md, section 4. *)
EXTENDS Memory, TLC

CONSTANTS search, pdf, mail, notes

MCCatalog == <<"activate_skill", search>>

\* Two of the three skills fit into MaxArtifacts.
MCSkills == {pdf, mail, notes}
MCSkillRunes == [s \in MCSkills |-> 20000]

\* "find" is half of "fetch": what helped with one is like what helps with the other.
MCGoals == {"find", "fetch"}
MCWords == [g \in MCGoals |-> IF g = "find" THEN {"paper"} ELSE {"paper", "today"}]
MCGoalRunes == [g \in MCGoals |-> IF g = "find" THEN 8000 ELSE 30000]

\* The outputs and the larger tool do not fit into the shares of any of the limits;
\* some shares of the second are below the floor of 64, and most of the third.
MCBudget == [a \in Audiences |-> CASE a = "planner" -> 4000 [] a = "evaluator" -> 1600 [] a = "responder" -> 500]
MCOverlap == [g \in MCGoals |-> [x \in Tools \cup MCSkills |-> IF x \in {search, mail} THEN 2 ELSE 0]]
MCToolTokens == [x \in Tools |-> IF x = search THEN 1500 ELSE 300]
MCStepSizes == [x \in Tools |-> IF x = search THEN [head |-> 900, output |-> 9000]
                                 ELSE [head |-> 60, output |-> 40]]
MCSymmetry == Permutations(Chats)
=============================================================================
