----------------------------- MODULE MCCatalog ------------------------------
(* Instances of Catalog: two shards, two names, hosts of one to three labels.  *)
EXTENDS Catalog, TLC

CONSTANTS Solo, Pair,    \* threads: one on its own, two that overlap
          Lone, Crew     \* workers, likewise
MCThreads == {Solo} \cup Pair
MCWorkers == {Lone} \cup Crew

Host(labels, dots) == [labels |-> labels, dots |-> dots]

MCLabels == {"www", "acme", "io"}
MCCanon == [x \in {"acme", "ACME ", "pg_acme"} |-> IF x = "pg_acme" THEN None ELSE "acme"]

MCHosts == {Host(<<"www">>, 0), Host(<<"www", "acme", "io">>, 1), Host(<<"acme", "io">>, 0)}
MCRules == {<<"label", Host(<<"www">>, 0), Host(<<>>, 0)>>,
            <<"label", Host(<<"www">>, 0), Host(<<"acme", "io">>, 1)>>,
            <<"suffix", Host(<<"acme", "io">>, 0), Host(<<>>, 0)>>,
            <<"exact", Host(<<"acme", "io">>, 2), Host(<<>>, 0)>>}

\* Nothing is registered yet: shards, rules and the first tenant.
Fresh == [shard |-> [s \in Shards |-> "absent"], tenant |-> [i \in Ids |-> Free],
          dom |-> {}, schema |-> [at \in Shards \X Names |-> NoSchema],
          menu |-> [threads |-> {Solo}, workers |-> {}, droppers |-> {},
                    hosts |-> MCHosts, domains |-> MCHosts, forms |-> {}, edits |-> 2, faults |-> 0]]

\* One tenant is served.  Its name is used again and again...
Reuse == [Fresh EXCEPT
              !.shard = [s \in Shards |-> "active"],
              !.tenant[1] = [Row("acme", "s1") EXCEPT !.status = "active", !.prev = "pending"],
              !.dom = {[pk |-> 1, host |-> <<"acme", "io">>, tenant |-> 1, primary |-> TRUE]},
              !.schema = [@ EXCEPT !["s1", "acme"] =
                             [exists |-> TRUE, relations |-> TRUE, data |-> {1}]],
              !.menu = [@ EXCEPT !.workers = Crew, !.droppers = Droppers, !.edits = 3,
                                 !.hosts = {Host(<<"acme", "io">>, 0)}, !.domains = {}]]

\* ... while others use it too, and processes die...
Overlap == [Reuse EXCEPT !.menu = [@ EXCEPT !.threads = Pair, !.workers = {Lone}, !.faults = 1]]

\* ... and its domains change while rules come and go.
Repoint == [Reuse EXCEPT !.menu = [Fresh.menu EXCEPT !.threads = Pair, !.edits = 3, !.forms = MCRules]]

MCSetups == {Fresh, Reuse, Overlap, Repoint}

MCSymmetry == Permutations(Pair) \cup Permutations(Crew) \cup Permutations(Droppers)
=============================================================================
