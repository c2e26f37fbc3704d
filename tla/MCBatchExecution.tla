-------------------------- MODULE MCBatchExecution --------------------------
(* Two keys that part at the second bit: the tree has up to three levels *)
EXTENDS BatchExecution

MCKeys == { <<0,0, 0>>, <<0,1, 1>> }

MCInitContents == { [k \in MCKeys |-> IF k[2] = 0 THEN 1 ELSE 0] }

\* Nested calls, before and after fork 7; two blocks with a program, the value
\* 3; and a batch that is only cached
Calls == [fork |-> 9, persistence |-> "database", blocks |-> 1, txs |-> 2,
          sets |-> 3, calls |-> 2, values |-> {0, 1, 2}]

Blocks == [Calls EXCEPT !.blocks = 2, !.sets = 2, !.calls = 1, !.values = {0, 1, 3}]

MCWorkloads ==
    { Calls, [Calls EXCEPT !.fork = 6], Blocks,
      [Calls EXCEPT !.persistence = "cache", !.sets = 2] }
=============================================================================
