---------------------------- MODULE MCServerTasks ----------------------------
(* A request with two tasks and one with one task, over two slots.         *)
EXTENDS ServerTasks
CONSTANTS A, B, a1, a2, b

MCReaderOf == [t \in Tasks |-> IF t \in {a1, a2} THEN A ELSE B]
NoKids == [t \in Tasks |-> {}]
AnySlot == [t \in Tasks |-> 0]
Calmly == [leaves |-> {}, fails |-> {}, sleeps |-> FALSE, ends |-> FALSE, steps |-> 1,
           want |-> AnySlot, kids |-> NoKids]

(* Tasks that want the same slot; a parent with a child; a client that     *)
(* leaves and a parent that may fail; a server that sleeps and ends.       *)
Wanted == [Calmly EXCEPT !.want = [AnySlot EXCEPT ![a1] = 1, ![b] = 1]]
Family == [Calmly EXCEPT !.kids = [NoKids EXCEPT ![a1] = {a2}]]
Trouble == [Family EXCEPT !.leaves = {A}, !.fails = {a1, a2}]
Sleepy == [Calmly EXCEPT !.sleeps = TRUE]
Short == [Calmly EXCEPT !.sleeps = TRUE, !.ends = TRUE, !.steps = 0,
                        !.want = [t \in Tasks |-> 1]]
MCEnvs == {Wanted, Family, Trouble, Sleepy, Short}
Sleeping == {Sleepy}
Half == {[Trouble EXCEPT !.fails = {a1}]}

(* Three tasks that want the same slot, one of which fails to launch. *)
OneSlot == {[Calmly EXCEPT !.want = [t \in Tasks |-> 1], !.fails = {a2}]}
=============================================================================
