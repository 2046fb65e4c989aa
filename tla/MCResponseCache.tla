-------------------------- MODULE MCResponseCache --------------------------
(* Two requests, two partitions, two keyed models and a subscription; two
   enabled configurations with different bounds and one that is off. *)
EXTENDS ResponseCache

Plain == [stream |-> FALSE, temperature |-> "zero", seed |-> "absent",
          tools |-> "absent", messages |-> "text"]
Sampled == [Plain EXCEPT !.temperature = "other"]

M1 == [name |-> "m1", codex |-> FALSE]
CX == [name |-> "cx", codex |-> TRUE]
MCModels == {M1, [name |-> "m2", codex |-> FALSE], CX}

In(p, m, b) == [partition |-> p, route |-> "auto", model |-> m, body |-> b]
MCInputs == {In("k1", M1, Plain), In("k2", M1, Plain), In("k1", CX, Sampled)}

MCSettings ==
    [g1 |-> [enabled |-> TRUE, ttl |-> 1, max_entries |-> 2, max_bytes |-> 3],
     g2 |-> [enabled |-> TRUE, ttl |-> 0, max_entries |-> 1, max_bytes |-> 2],
     g3 |-> [enabled |-> FALSE, ttl |-> 1, max_entries |-> 2, max_bytes |-> 3]]

Sym == Permutations(Requests)
============================================================================
