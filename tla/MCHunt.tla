---- MODULE MCHunt ----
EXTENDS ProbeRunner
CONSTANTS p1
Hard == [kind |-> "trace", reference |-> 7]
Easy == [kind |-> "sum", reference |-> 5]
Said(task, lines, readable) == [task |-> task, answer |-> [lines |-> lines, boxed |-> Nothing], readable |-> readable]
\* Candidates listed, what cannot be opened, a value among others, and no attempt.
Some == {Said(Hard, <<<<1, 3, 5, 7>>>>, TRUE), Said(Hard, <<>>, FALSE), Said(Easy, <<<<2, 3>>, <<5>>>>, TRUE), Said(Easy, <<<<>>>>, TRUE)}
====
