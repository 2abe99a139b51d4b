----------------------------- MODULE Generation -----------------------------
(***************************************************************************)
(* Candidate generation: the calls to the language model with their        *)
(* retries (generator.generate), the seeds appended to the result          *)
(* (seeds.generate_with_seeds), and the rows both leave in the strategies  *)
(* table, when the scheduler's cycle and a cycle of POST /api/cycle        *)
(* generate at the same time.                                              *)
(*                                                                         *)
(* A strategy is its dedup_key and a wording, what name and rationale add  *)
(* to it.  A response is a sequence of items, each valid or Invalid; one   *)
(* that does not parse counts as a single invalid item, as it does for     *)
(* _parse_batch.                                                           *)
(***************************************************************************)
EXTENDS Integers, FiniteSetsExt, SequencesExt

CONSTANTS
    Generator,  \* the threads that run cycles
    Rule,       \* dedup keys
    Wording,    \* ways to word one strategy
    Invalid,    \* an item that fails validation
    Responses,  \* what the model may answer
    Asked,      \* n, the candidates asked for
    MaxRetries, \* MAX_RETRIES
    Seeds       \* SEED_STRATEGIES

Strategy == [key : Rule, wording : Wording]

ASSUME GenerationAssumption ==
    /\ Invalid \notin Strategy
    /\ Responses \subseteq Seq(Strategy \cup {Invalid})
    /\ Asked \in Nat /\ MaxRetries \in Nat
    /\ Seeds \in Seq(Strategy)

VARIABLES
    strategies, \* the table, in the order of its ids
    gen         \* where each thread stands in generating

genVars == <<strategies, gen>>

\* A candidate knows the response it came from, <<>> if it is a seed.
Candidate == [key : Rule, wording : Wording, source : {"llm", "manual"},
              raw : Responses \cup {<<>>}]
SeedCandidates ==
    [i \in DOMAIN Seeds |-> [key |-> Seeds[i].key, wording |-> Seeds[i].wording,
                             source |-> "manual", raw |-> <<>>]]

\* seen: dict of this generation, in insertion order; batch: the candidates it
\* returns; ids: the ids found for them so far.
NoGeneration == [at |-> "idle", outputs |-> <<>>, seen |-> <<>>,
                 batch |-> <<>>, ids |-> <<>>]

GenerationTypeOK ==
    /\ strategies \in Seq(Candidate)
    /\ \A g \in Generator :
          /\ gen[g].at \in {"idle", "call", "collect", "select", "insert", "done"}
          /\ gen[g].outputs \in Seq(Responses) /\ Len(gen[g].outputs) <= MaxRetries + 1
          /\ gen[g].seen \in Seq(Candidate)
          /\ gen[g].batch \in Seq(Candidate)
          /\ gen[g].ids \in Seq(DOMAIN strategies)
          /\ Len(gen[g].ids) <= Len(gen[g].batch)

GenerationInit ==
    /\ strategies = <<>>
    /\ gen = [g \in Generator |-> NoGeneration]

-----------------------------------------------------------------------------
(* generator.py                                                            *)

start_generation(g) ==
    /\ gen[g].at \in {"idle", "done"}
    /\ gen' = [gen EXCEPT ![g] = [NoGeneration EXCEPT !.at = "call"]]
    /\ UNCHANGED strategies

HasKey(candidates, key) == \E i \in DOMAIN candidates : candidates[i].key = key

\* _parse_batch has items left over.
HasInvalid(response) == Invalid \in ToSet(response)

FromModel(item, response) ==
    [key |-> item.key, wording |-> item.wording, source |-> "llm", raw |-> response]

\* Faulty variant: a repeated strategy takes the response it is repeated in.
Keep_RawOfLast(response, seen, item) ==
    IF item = Invalid THEN seen
    ELSE IF HasKey(seen, item.key)
    THEN [i \in DOMAIN seen |-> IF seen[i].key = item.key
                                THEN [seen[i] EXCEPT !.raw = response] ELSE seen[i]]
    ELSE Append(seen, FromModel(item, response))

\* A valid item with a new key joins those seen; the first wording stays.
Keep(response, seen, item) ==
    IF item = Invalid \/ HasKey(seen, item.key) THEN seen
    ELSE Append(seen, FromModel(item, response))

Collapse(seen, response) ==
    FoldLeft(LAMBDA kept, item : Keep(response, kept, item), seen, response)

\* Faulty variant: what earlier responses held is forgotten on a retry.
_call_llm_OnlyLast(g) ==
    /\ gen[g].at = "call"
    /\ \/ \E response \in Responses :
             LET outputs == Append(gen[g].outputs, response)
             IN  gen' = [gen EXCEPT ![g] =
                    [@ EXCEPT
                       !.outputs = outputs, !.seen = Collapse(<<>>, response),
                       !.at = IF ~HasInvalid(response) \/ Len(outputs) > MaxRetries
                              THEN "collect" ELSE "call"]]
       \/ gen' = [gen EXCEPT ![g] = NoGeneration]
    /\ UNCHANGED strategies

\* One call to the model.  Another follows while there are invalid items and
\* retries left.  A call that raises ends the generation, and what earlier
\* responses held is lost.
_call_llm(g) ==
    /\ gen[g].at = "call"
    /\ \/ \E response \in Responses :
             LET outputs == Append(gen[g].outputs, response)
             IN  gen' = [gen EXCEPT ![g] =
                    [@ EXCEPT
                       !.outputs = outputs, !.seen = Collapse(gen[g].seen, response),
                       !.at = IF ~HasInvalid(response) \/ Len(outputs) > MaxRetries
                              THEN "collect" ELSE "call"]]
       \/ gen' = [gen EXCEPT ![g] = NoGeneration]
    /\ UNCHANGED strategies

\* The result: the first n strategies seen, then the seeds, whatever is among
\* the former.
Collect(g) ==
    /\ gen[g].at = "collect"
    /\ LET seen  == gen[g].seen
           batch == SubSeq(seen, 1, Min({Asked, Len(seen)})) \o SeedCandidates
       IN  gen' = [gen EXCEPT ![g] =
                     [NoGeneration EXCEPT !.at = IF batch = <<>> THEN "done" ELSE "select",
                                          !.batch = batch]]
    /\ UNCHANGED strategies

-----------------------------------------------------------------------------
(* db.insert_strategy, once per candidate of the result                    *)

Current(g) == gen[g].batch[Len(gen[g].ids) + 1]

\* The id of the current candidate is known, and the next one is up.
Found(g, id) ==
    gen' = [gen EXCEPT ![g] =
              [@ EXCEPT
                 !.ids = Append(gen[g].ids, id),
                 !.at = IF Len(gen[g].ids) + 1 = Len(gen[g].batch) THEN "done" ELSE "select"]]

\* SELECT id FROM strategies WHERE dedup_key = ?
select_id(g) ==
    /\ gen[g].at = "select"
    /\ \/ \E id \in DOMAIN strategies :
             strategies[id].key = Current(g).key /\ Found(g, id)
       \/ /\ ~HasKey(strategies, Current(g).key)
          /\ gen' = [gen EXCEPT ![g].at = "insert"]
    /\ UNCHANGED strategies

\* Faulty variant: the table has no unique index.
insert_strategy_NoIndex(g) ==
    /\ gen[g].at = "insert"
    /\ \/ /\ strategies' = Append(strategies, Current(g))
          /\ Found(g, Len(strategies) + 1)
       \/ /\ gen' = [gen EXCEPT ![g] = NoGeneration]
          /\ UNCHANGED strategies

\* INSERT and commit.  Where the other thread has inserted the key since the
\* SELECT, the unique index makes it raise; SQLite may raise in any case.
insert_strategy(g) ==
    /\ gen[g].at = "insert"
    /\ \/ /\ ~HasKey(strategies, Current(g).key)
          /\ strategies' = Append(strategies, Current(g))
          /\ Found(g, Len(strategies) + 1)
       \/ /\ gen' = [gen EXCEPT ![g] = NoGeneration]
          /\ UNCHANGED strategies

-----------------------------------------------------------------------------
\* A new process on the table as it was, or on an empty one.
RestartGeneration ==
    /\ strategies' \in {strategies, <<>>}
    /\ gen' = [g \in Generator |-> NoGeneration]

GenerationStep(g) ==
    \/ start_generation(g) \/ _call_llm(g) \/ Collect(g)
    \/ select_id(g) \/ insert_strategy(g)

GenerationNext == (\E g \in Generator : GenerationStep(g)) \/ RestartGeneration

GenerationSpec == GenerationInit /\ [][GenerationNext]_genVars

-----------------------------------------------------------------------------
(* What generation promises                                                *)

\* The places of the valid items in the responses of a generation.
Places(outputs) ==
    {p \in UNION {{i} \X DOMAIN outputs[i] : i \in DOMAIN outputs} :
        outputs[p[1]][p[2]] # Invalid}
Item(outputs, p) == outputs[p[1]][p[2]]
Before(p, q) == p[1] < q[1] \/ (p[1] = q[1] /\ p[2] < q[2])

\* The places where a strategy comes up for the first time.
Firsts(outputs) ==
    {p \in Places(outputs) :
        \A q \in Places(outputs) :
            Before(q, p) => Item(outputs, q).key # Item(outputs, p).key}

\* The result of a generation is the first n distinct strategies of all its
\* responses, each in the wording and with the response it first came in, then
\* the seeds: nothing valid is lost to a retry, and no strategy is taken twice
\* (generator.py, T2.1 to T2.3).
BatchIsFirstDistinct ==
    [][\A g \in Generator :
         gen[g].at = "collect" /\ gen'[g].batch # <<>> =>
            LET outputs == gen[g].outputs
                firsts  == Firsts(outputs)
                batch   == gen'[g].batch
            IN  /\ Len(batch) = Min({Asked, Cardinality(firsts)}) + Len(Seeds)
                /\ \A p \in firsts :
                     LET k == Cardinality({q \in firsts : Before(q, p)}) + 1
                     IN  k <= Asked =>
                           batch[k] = [key |-> Item(outputs, p).key,
                                       wording |-> Item(outputs, p).wording,
                                       source |-> "llm", raw |-> outputs[p[1]]]
                /\ SubSeq(batch, Len(batch) - Len(Seeds) + 1, Len(batch))
                     = SeedCandidates]_genVars

\* Every id a generation has found is that of the one row of its candidate's key,
\* whoever inserted it: the cycle, which takes strategies and ids pairwise, decides
\* each strategy under its own row, and no strategy has two.
IdsNameOneRow ==
    \A g \in Generator : \A i \in DOMAIN gen[g].ids :
        {id \in DOMAIN strategies : strategies[id].key = gen[g].batch[i].key}
            = {gen[g].ids[i]}

\* Every row of the model's keeps the response that contains it, word for word,
\* and only a seed's row has none (tests/test_generator.py: "every persisted
\* strategy keeps its raw output").
RowsKeepTheirSource ==
    \A id \in DOMAIN strategies :
        LET row == strategies[id] IN
        \/ /\ row.source = "llm"
           /\ \E i \in DOMAIN row.raw :
                 row.raw[i] = [key |-> row.key, wording |-> row.wording]
        \/ /\ row.source = "manual" /\ row.raw = <<>>
           /\ \E i \in DOMAIN Seeds :
                 Seeds[i] = [key |-> row.key, wording |-> row.wording]
=============================================================================
