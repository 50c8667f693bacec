----------------------------- MODULE Generation -----------------------------
(***************************************************************************)
(* The native generative runtime (crates/ntd-runtime/src/generation.rs):   *)
(* the autoregressive loop of GraphGenerator, with or without a streaming  *)
(* callback, token sampling, and the per-layer key/value cache.            *)
(*                                                                         *)
(* A graph execution yields any of Outputs or fails.  A distribution is a  *)
(* sequence of weights: the exponentials and powers of the code keep their *)
(* order and their zeroes.  Seeded sampling may pick any token it gives a  *)
(* positive weight.  A tensor of the cache is its rank (none or some), the *)
(* width of its rows, and its rows, each named by the append it came with. *)
(***************************************************************************)
EXTENDS Integers, Sequences, FiniteSets

CONSTANTS
    VocabSize,        \* vocab_size
    Prompts,          \* token sequences a caller may pass
    ContextLimits, NewTokenLimits,   \* context_limit, max_new_tokens
    EosTokens,        \* eos_token: {} or {token}
    TopKs,            \* top_k of stochastic sampling, 0 for none
    Outputs,          \* data of the distribution output of an execution
    Layers, RowCounts, Widths, KeepLimits,   \* arguments of the cache's operations
    MaxGenerations, MaxAppends               \* bounds

ASSUME GenerationAssumption ==
    /\ VocabSize \in Nat \ {0}
    /\ Prompts \subseteq Seq(Nat) /\ Outputs \subseteq Seq(Nat)
    /\ ContextLimits \subseteq Nat /\ NewTokenLimits \subseteq Nat
    /\ \A e \in EosTokens : e \subseteq Nat
    /\ TopKs \subseteq Nat
    /\ RowCounts \subseteq Nat /\ KeepLimits \subseteq Nat /\ Widths \subseteq Nat
    /\ MaxGenerations \in Nat /\ MaxAppends \in Nat

VARIABLES
    gen,          \* the generation under way, or the last one
    generations,  \* how many were started
    kv,           \* KvCache: the layers with tensors
    appends       \* how many appends there were

genVars == <<gen, generations>>
kvVars == <<kv, appends>>
generationVars == <<gen, generations, kv, appends>>

-----------------------------------------------------------------------------
(* Distributions and sampling.                                             *)

(* The distribution of the last position; the shape must fit.              *)
HasDistribution(output) == Len(output) >= VocabSize /\ Len(output) % VocabSize = 0

last_distribution(output) ==
    [i \in 1..VocabSize |-> output[Len(output) - VocabSize + i]]

(* By weight, the earlier of equal ones first.                             *)
Outranks(weights, j, i) ==
    weights[j] > weights[i] \/ (weights[j] = weights[i] /\ j < i)

keep_top_k(weights, k) ==
    [i \in DOMAIN weights |->
        IF Cardinality({j \in DOMAIN weights : Outranks(weights, j, i)}) < k
        THEN weights[i] ELSE 0]

SamplingMode ==
    {[greedy |-> TRUE, top_k |-> 0]} \cup {[greedy |-> FALSE, top_k |-> k] : k \in TopKs}

(* The tokens that sampling may return: none for an error.                 *)
sample_token(weights, mode) ==
    IF mode.greedy
    THEN {i - 1 : i \in {i \in DOMAIN weights :
              \A j \in DOMAIN weights \ {i} : Outranks(weights, i, j)}}
    ELSE LET kept == IF mode.top_k = 0 THEN weights ELSE keep_top_k(weights, mode.top_k)
         IN  {i - 1 : i \in {i \in DOMAIN kept : kept[i] > 0}}

-----------------------------------------------------------------------------
(* generate_tokens, generate_tokens_with_resolver and                      *)
(* generate_tokens_with_resolver_streaming.                                *)

NoGeneration == [phase |-> "idle"]

validate_prompt_tokens(prompt, context_limit) ==
    /\ prompt # <<>>
    /\ context_limit # 0
    /\ \A i \in DOMAIN prompt : prompt[i] < VocabSize

GenerationInit ==
    /\ gen = NoGeneration
    /\ generations = 0
    /\ kv = <<>>
    /\ appends = 0

(* The call, up to its loop.                                               *)
generate_tokens(prompt, limit, max, eos, mode, streaming) ==
    /\ gen.phase # "running"
    /\ generations < MaxGenerations
    /\ generations' = generations + 1
    /\ gen' = IF validate_prompt_tokens(prompt, limit)
              THEN [phase |-> IF max = 0 THEN "done" ELSE "running", prompt |-> prompt,
                    limit |-> limit, max |-> max, eos |-> eos, mode |-> mode,
                    streaming |-> streaming, all |-> prompt, generated |-> <<>>,
                    streamed |-> <<>>, window |-> <<>>, cancel |-> FALSE,
                    finish |-> "MaxTokens"]
              ELSE [phase |-> "failed"]
    /\ UNCHANGED kvVars

context_window(all, limit) ==
    SubSeq(all, IF Len(all) > limit THEN Len(all) - limit + 1 ELSE 1, Len(all))

(* A token is sampled and pushed.  The window goes to the graph as f32,    *)
(* which keeps every id below 2^24; a larger vocabulary is left out.       *)
Pushed(g, token, cancel) ==
    [g EXCEPT !.all = Append(@, token), !.generated = Append(@, token),
              !.streamed = IF g.streaming THEN Append(@, token) ELSE @,
              !.window = context_window(g.all, g.limit),
              !.cancel = cancel]

(* An EOS ends the generation even when the callback cancels on it.        *)
Ended(g, token) ==
    CASE token \in g.eos -> [g EXCEPT !.phase = "done", !.finish = "Eos"]
      [] token \notin g.eos /\ g.cancel -> [g EXCEPT !.phase = "done", !.finish = "Cancelled"]
      [] OTHER -> [g EXCEPT !.phase = IF Len(g.generated) = g.max THEN "done" ELSE "running"]

(* One iteration: forward pass, sampling, callback.                        *)
generate_next(output, cancel) ==
    /\ gen.phase = "running"
    /\ cancel => gen.streaming
    /\ HasDistribution(output)
    /\ \E token \in sample_token(last_distribution(output), gen.mode) :
          gen' = Ended(Pushed(gen, token, cancel), token)
    /\ UNCHANGED <<generations, kvVars>>

(* An execution fails, its output has the wrong shape or nothing can be    *)
(* sampled: the call returns the error alone.                              *)
generate_next_fails ==
    /\ gen.phase = "running"
    /\ gen' = [phase |-> "failed"]
    /\ UNCHANGED <<generations, kvVars>>

-----------------------------------------------------------------------------
(* KvCache.                                                                *)

Tensor(rank, width, n, name) ==
    [rank |-> rank, width |-> width, rows |-> [i \in 1..n |-> <<name, i>>]]

(* Mutant: only the ranks are compared.                                    *)
validate_kv_ranks(key, value) == key.rank # 0 /\ value.rank # 0

validate_kv_pair(key, value) ==
    /\ key.rank # 0 /\ value.rank # 0
    /\ Len(key.rows) = Len(value.rows)
    /\ key.width = value.width

Concatenable(left, right) == left.rank # 0 /\ right.rank # 0 /\ left.width = right.width

concat_sequence(left, right) == [left EXCEPT !.rows = @ \o right.rows]

(* The key is replaced before the value is looked at.                      *)
Extended(cache, key, value) ==
    CASE ~Concatenable(cache.key, key) -> cache
      [] Concatenable(cache.key, key) /\ ~Concatenable(cache.value, value) ->
            [cache EXCEPT !.key = concat_sequence(@, key)]
      [] OTHER -> [key |-> concat_sequence(cache.key, key),
                   value |-> concat_sequence(cache.value, value)]

append(layer, key, value) ==
    /\ appends < MaxAppends
    /\ appends' = appends + 1
    /\ kv' = IF ~validate_kv_pair(key, value) THEN kv
             ELSE [l \in DOMAIN kv \cup {layer} |->
                     IF l # layer THEN kv[l]
                     ELSE IF layer \in DOMAIN kv THEN Extended(kv[layer], key, value)
                     ELSE [key |-> key, value |-> value]]
    /\ UNCHANGED genVars

retain_last_sequence(tensor, max) ==
    [tensor EXCEPT !.rows = context_window(@, max)]

truncate_left(max) ==
    /\ kv' = [l \in DOMAIN kv |->
                [key |-> retain_last_sequence(kv[l].key, max),
                 value |-> retain_last_sequence(kv[l].value, max)]]
    /\ UNCHANGED <<genVars, appends>>

clear ==
    /\ kv' = <<>>
    /\ UNCHANGED <<genVars, appends>>

-----------------------------------------------------------------------------

GenerateNext ==
    \/ \E prompt \in Prompts, limit \in ContextLimits, max \in NewTokenLimits,
          eos \in EosTokens, mode \in SamplingMode, streaming \in BOOLEAN :
          generate_tokens(prompt, limit, max, eos, mode, streaming)
    \/ \E output \in Outputs, cancel \in BOOLEAN : generate_next(output, cancel)
    \/ generate_next_fails

CacheNext ==
    \/ \E layer \in Layers, n, m \in RowCounts, v, w \in Widths, q, r \in {0, 1} :
          append(layer, Tensor(q, v, n, appends + 1), Tensor(r, w, m, appends + 1))
    \/ \E max \in KeepLimits : truncate_left(max)
    \/ clear

GenerationNext == GenerateNext \/ CacheNext

GenerationSpec == GenerationInit /\ [][GenerationNext]_generationVars

-----------------------------------------------------------------------------
Started == gen.phase \in {"running", "done"}

(* What was generated is what was streamed and what the caller gets after  *)
(* its prompt; nothing follows an EOS or a Cancel, and the reported reason *)
(* is the one for which the generation stopped.                            *)
ResultIsStream ==
    Started =>
        LET n == Len(gen.generated) IN
        /\ gen.all = gen.prompt \o gen.generated
        /\ gen.streamed = IF gen.streaming THEN gen.generated ELSE <<>>
        /\ n <= gen.max
        /\ \A i \in 1 .. n - 1 : gen.generated[i] \notin gen.eos
        /\ gen.phase = "running" => n < gen.max /\ ~gen.cancel
        /\ gen.phase = "done" =>
              /\ gen.finish = "Eos" <=> n > 0 /\ gen.generated[n] \in gen.eos
              /\ gen.finish = "Cancelled" => gen.cancel
              /\ gen.finish = "MaxTokens" => n = gen.max /\ ~gen.cancel

(* The graph saw the latest tokens before the one it chose, as many as the *)
(* context holds.                                                          *)
WindowIsLatest ==
    Started /\ gen.generated # <<>> =>
        LET before == Len(gen.all) - 1
            seen == Len(gen.window)
        IN  /\ seen = (IF before < gen.limit THEN before ELSE gen.limit)
            /\ \A i \in 1..seen : gen.window[i] = gen.all[before - seen + i]

(* Key and value of a layer have the same rows: no failing append and no   *)
(* truncation leaves one without the other.                                *)
CacheInStep ==
    \A l \in DOMAIN kv :
        /\ kv[l].key.rows = kv[l].value.rows
        /\ kv[l].key.width = kv[l].value.width

(* Generation and its cache keep their books.                              *)
GenerationIsSound == ResultIsStream /\ WindowIsLatest /\ CacheInStep
=============================================================================
