---------------------------- MODULE RuntimeProofs ----------------------------
(***************************************************************************)
(* Proofs about the native generative runtime (Generation) and about the   *)
(* adaptive compute runtime (Compute), for every vocabulary, prompt and    *)
(* limit, every cache, and every set of backends, policies and snapshots.  *)
(***************************************************************************)
EXTENDS Generation, Compute, SequenceTheorems, Induction

-----------------------------------------------------------------------------
(* Generation: the loop.                                                   *)

(* A generation that was begun.                                            *)
Streams ==
    [phase : {"running", "done"}, prompt : Seq(Nat), limit : Nat, max : Nat,
     eos : SUBSET Nat, mode : SamplingMode, streaming : BOOLEAN, all : Seq(Nat),
     generated : Seq(Nat), streamed : Seq(Nat), window : Seq(Nat), cancel : BOOLEAN,
     finish : {"MaxTokens", "Eos", "Cancelled"}]

(* While the loop runs nothing has ended it: no EOS, no Cancel, and the    *)
(* reason is still the one it began with.                                  *)
Unended(g) ==
    /\ Len(g.generated) < g.max
    /\ ~g.cancel
    /\ g.finish = "MaxTokens"
    /\ \A i \in 1 .. Len(g.generated) : g.generated[i] \notin g.eos

(* How a generation stops.                                                 *)
Stopped(g) ==
    LET n == Len(g.generated) IN
    /\ \A i \in 1 .. n - 1 : g.generated[i] \notin g.eos
    /\ g.finish = "Eos" <=> n > 0 /\ g.generated[n] \in g.eos
    /\ g.finish = "Cancelled" => g.cancel
    /\ g.finish = "MaxTokens" => n = g.max /\ ~g.cancel

(* The tokens of a generation, wherever it stands.                         *)
Booked(g) ==
    /\ g.all = g.prompt \o g.generated
    /\ g.streamed = IF g.streaming THEN g.generated ELSE <<>>
    /\ Len(g.generated) <= g.max

Latest(g) ==
    g.generated # <<>> =>
        LET before == Len(g.all) - 1
            seen == Len(g.window)
        IN  /\ seen = (IF before < g.limit THEN before ELSE g.limit)
            /\ \A i \in 1..seen : g.window[i] = g.all[before - seen + i]

Sound(g) ==
    /\ g \in Streams
    /\ Booked(g)
    /\ Latest(g)
    /\ g.phase = "running" => Unended(g)
    /\ g.phase = "done" => Stopped(g)

GenInv == Started => Sound(gen)

(* What context_window returns: the last tokens, at most limit of them.    *)
LEMMA WindowOf ==
  ASSUME NEW S, NEW s \in Seq(S), NEW limit \in Nat
  PROVE  LET w == context_window(s, limit)
             n == IF Len(s) < limit THEN Len(s) ELSE limit
         IN  /\ w \in Seq(S)
             /\ Len(w) = n
             /\ \A i \in 1..n : w[i] = s[Len(s) - n + i]
<1> DEFINE b == IF Len(s) > limit THEN Len(s) - limit + 1 ELSE 1
<1>1. Len(s) \in Nat /\ b \in 1 .. Len(s) + 1
  BY DEF b
<1>2. context_window(s, limit) = SubSeq(s, b, Len(s))
  BY DEF context_window, b
<1>3. /\ SubSeq(s, b, Len(s)) \in Seq(S)
      /\ Len(SubSeq(s, b, Len(s))) = Len(s) - b + 1
      /\ \A i \in 1 .. Len(s) - b + 1 : SubSeq(s, b, Len(s))[i] = s[b + i - 1]
  <2> HIDE DEF b
  <2>1. \A i \in b .. Len(s) : s[i] \in S
    BY <1>1
  <2>2. b \in Int /\ Len(s) \in Int
    BY <1>1
  <2>3. /\ SubSeq(s, b, Len(s)) \in Seq(S)
        /\ Len(SubSeq(s, b, Len(s))) = IF b <= Len(s) THEN Len(s) - b + 1 ELSE 0
        /\ \A i \in 1 .. Len(s) - b + 1 : SubSeq(s, b, Len(s))[i] = s[b + i - 1]
    BY <2>1, <2>2, SubSeqProperties
  <2> QED BY <1>1, <2>3
<1> DEFINE w == context_window(s, limit)
           n == IF Len(s) < limit THEN Len(s) ELSE limit
<1>4. Len(s) - b + 1 = n /\ \A i \in 1..n : b + i - 1 = Len(s) - n + i
  <2>1. CASE Len(s) > limit
    <3>1. b = Len(s) - limit + 1 /\ n = limit
      BY <1>1, <2>1 DEF b
    <3> HIDE DEF b, n
    <3> QED BY <1>1, <3>1
  <2>2. CASE ~(Len(s) > limit)
    <3>1. b = 1 /\ n = Len(s)
      BY <1>1, <2>2 DEF b
    <3> HIDE DEF b, n
    <3> QED BY <1>1, <3>1
  <2> QED BY <2>1, <2>2
<1>5. w \in Seq(S) /\ Len(w) = n /\ \A i \in 1..n : w[i] = s[Len(s) - n + i]
  <2> HIDE DEF b, n
  <2> QED BY <1>2, <1>3, <1>4
<1> QED BY <1>5

(* Sampling returns tokens.                                                *)
LEMMA Sampled ==
  ASSUME NEW output, NEW mode, NEW token \in sample_token(last_distribution(output), mode)
  PROVE  token \in Nat
<1>1. VocabSize \in Nat
  BY GenerationAssumption
<1> DEFINE w == last_distribution(output)
<1>2. DOMAIN w = 1..VocabSize
  BY DEF last_distribution
<1>3. DOMAIN keep_top_k(w, mode.top_k) = 1..VocabSize
  BY <1>2 DEF keep_top_k
<1> HIDE DEF w
<1> QED BY <1>1, <1>2, <1>3 DEF sample_token, w

(* The call up to its loop leaves a sound generation.                      *)
LEMMA Begins ==
  ASSUME NEW prompt \in Prompts, NEW limit \in ContextLimits, NEW max \in NewTokenLimits,
         NEW eos \in EosTokens, NEW mode \in SamplingMode, NEW streaming \in BOOLEAN,
         generate_tokens(prompt, limit, max, eos, mode, streaming)
  PROVE  GenInv'
<1>1. /\ prompt \in Seq(Nat) /\ limit \in Nat /\ max \in Nat /\ eos \in SUBSET Nat
  BY GenerationAssumption
<1>2. CASE ~validate_prompt_tokens(prompt, limit)
  BY <1>2 DEF generate_tokens, GenInv, Started
<1>3. CASE validate_prompt_tokens(prompt, limit)
  <2>1. gen' = [phase |-> IF max = 0 THEN "done" ELSE "running", prompt |-> prompt,
                limit |-> limit, max |-> max, eos |-> eos, mode |-> mode,
                streaming |-> streaming, all |-> prompt, generated |-> <<>>,
                streamed |-> <<>>, window |-> <<>>, cancel |-> FALSE,
                finish |-> "MaxTokens"]
    BY <1>3 DEF generate_tokens
  <2>2. gen' \in Streams
    BY <1>1, <2>1 DEF Streams
  <2>3. prompt \o <<>> = prompt
    BY <1>1
  <2>4. Booked(gen')
    BY <1>1, <2>1, <2>3 DEF Booked
  <2>5. Latest(gen')
    BY <2>1 DEF Latest
  <2>6. gen'.phase = "running" => Unended(gen')
    BY <1>1, <2>1 DEF Unended
  <2>7. gen'.phase = "done" => Stopped(gen')
    BY <1>1, <2>1 DEF Stopped
  <2> QED BY <2>2, <2>4, <2>5, <2>6, <2>7 DEF GenInv, Sound
<1> QED BY <1>2, <1>3

(* An iteration keeps the books.                                           *)
LEMMA Iterates ==
  ASSUME NEW g \in Streams, Sound(g), g.phase = "running",
         NEW token \in Nat, NEW cancel \in BOOLEAN
  PROVE  Sound(Ended(Pushed(g, token, cancel), token))
<1> DEFINE p == Pushed(g, token, cancel)
           n == Len(g.generated)
<1>1. /\ g.all \in Seq(Nat) /\ g.generated \in Seq(Nat) /\ g.streamed \in Seq(Nat)
      /\ g.prompt \in Seq(Nat) /\ g.limit \in Nat /\ g.max \in Nat /\ n \in Nat
      /\ g.eos \subseteq Nat /\ g.streaming \in BOOLEAN
  BY DEF Streams
<1>2. context_window(g.all, g.limit) \in Seq(Nat)
  BY <1>1, WindowOf
<1>3. /\ p \in Streams
      /\ p.phase = "running" /\ p.prompt = g.prompt /\ p.limit = g.limit /\ p.max = g.max
      /\ p.eos = g.eos /\ p.streaming = g.streaming /\ p.finish = g.finish
      /\ p.all = Append(g.all, token) /\ p.generated = Append(g.generated, token)
      /\ p.streamed = IF g.streaming THEN Append(g.streamed, token) ELSE g.streamed
      /\ p.window = context_window(g.all, g.limit) /\ p.cancel = cancel
  <2> DEFINE a == Append(g.all, token)
             b == Append(g.generated, token)
             c == IF g.streaming THEN Append(g.streamed, token) ELSE g.streamed
             w == context_window(g.all, g.limit)
  <2>1. a \in Seq(Nat) /\ b \in Seq(Nat) /\ c \in Seq(Nat) /\ w \in Seq(Nat)
    BY <1>1, <1>2
  <2>2. p = [g EXCEPT !.all = a, !.generated = b, !.streamed = c, !.window = w,
                      !.cancel = cancel]
    BY DEF Pushed
  <2> HIDE DEF a, b, c, w, p
  <2>3. /\ p \in Streams
        /\ p.phase = g.phase /\ p.prompt = g.prompt /\ p.limit = g.limit /\ p.max = g.max
        /\ p.eos = g.eos /\ p.streaming = g.streaming /\ p.finish = g.finish
        /\ p.all = a /\ p.generated = b /\ p.streamed = c /\ p.window = w
        /\ p.cancel = cancel
    BY <2>1, <2>2 DEF Streams
  <2> QED BY <2>3 DEF a, b, c, w
<1> HIDE DEF p
<1>4. Booked(p)
  <2>1. Append(g.prompt \o g.generated, token) = g.prompt \o Append(g.generated, token)
    <3>1. g.prompt \o g.generated \in Seq(Nat) /\ <<token>> \in Seq(Nat)
      BY <1>1
    <3>2. Append(g.prompt \o g.generated, token) = (g.prompt \o g.generated) \o <<token>>
      BY <3>1, AppendIsConcat
    <3>3. Append(g.generated, token) = g.generated \o <<token>>
      BY <1>1, AppendIsConcat
    <3>4. (g.prompt \o g.generated) \o <<token>> = g.prompt \o (g.generated \o <<token>>)
      <4>1. \A x, y, z \in Seq(Nat) : (x \o y) \o z = x \o (y \o z)
        BY ConcatAssociative
      <4> QED BY <1>1, <3>1, <4>1
    <3> QED BY <3>2, <3>3, <3>4
  <2> QED BY <1>1, <1>3, <2>1 DEF Sound, Booked, Unended
<1>5. Latest(p)
  <2> DEFINE w == context_window(g.all, g.limit)
             m == IF Len(g.all) < g.limit THEN Len(g.all) ELSE g.limit
  <2>1. Len(w) = m /\ \A i \in 1..m : w[i] = g.all[Len(g.all) - m + i]
    BY <1>1, WindowOf
  <2> HIDE DEF w
  <2>2. /\ Len(p.all) = Len(g.all) + 1
        /\ \A i \in 1 .. Len(g.all) : p.all[i] = g.all[i]
    BY <1>1, <1>3
  <2>3. p.window = w
    BY <1>3 DEF w
  <2>4. m \in Nat /\ m <= Len(g.all) /\ Len(g.all) \in Nat
    BY <1>1
  <2>5. \A i \in 1..m : p.window[i] = p.all[Len(g.all) - m + i]
    <3> HIDE DEF m
    <3>1. \A i \in 1..m : Len(g.all) - m + i \in 1 .. Len(g.all)
      BY <2>4
    <3> QED BY <2>1, <2>2, <2>3, <3>1
  <2>6. Len(p.all) - 1 = Len(g.all) /\ Len(p.window) = m
    BY <2>1, <2>2, <2>3, <2>4
  <2>7. m = IF Len(p.all) - 1 < p.limit THEN Len(p.all) - 1 ELSE p.limit
    BY <1>3, <2>6
  <2> HIDE DEF m
  <2> QED BY <2>5, <2>6, <2>7 DEF Latest
<1>6. /\ Len(p.generated) = n + 1 /\ p.generated[n + 1] = token
      /\ \A i \in 1..n : p.generated[i] \notin p.eos
      /\ p.finish = "MaxTokens" /\ n + 1 <= p.max
  BY <1>1, <1>3 DEF Sound, Unended
<1>7. CASE token \in p.eos
  <2> DEFINE e == [p EXCEPT !.phase = "done", !.finish = "Eos"]
  <2>1. Ended(p, token) = e
    BY <1>7 DEF Ended
  <2>2. /\ e \in Streams /\ e.phase = "done" /\ e.finish = "Eos" /\ e.generated = p.generated
        /\ e.all = p.all /\ e.prompt = p.prompt /\ e.streamed = p.streamed /\ e.max = p.max
        /\ e.streaming = p.streaming /\ e.window = p.window /\ e.limit = p.limit
        /\ e.eos = p.eos /\ e.cancel = p.cancel
    BY <1>3 DEF Streams
  <2> HIDE DEF e
  <2>3. Booked(e) /\ Latest(e)
    BY <1>4, <1>5, <2>2 DEF Booked, Latest
  <2>4. Stopped(e)
    BY <1>1, <1>6, <1>7, <2>2 DEF Stopped
  <2> QED BY <2>1, <2>2, <2>3, <2>4 DEF Sound, p
<1>8. CASE token \notin p.eos /\ p.cancel
  <2> DEFINE e == [p EXCEPT !.phase = "done", !.finish = "Cancelled"]
  <2>1. Ended(p, token) = e
    BY <1>8 DEF Ended
  <2>2. /\ e \in Streams /\ e.phase = "done" /\ e.finish = "Cancelled"
        /\ e.generated = p.generated
        /\ e.all = p.all /\ e.prompt = p.prompt /\ e.streamed = p.streamed /\ e.max = p.max
        /\ e.streaming = p.streaming /\ e.window = p.window /\ e.limit = p.limit
        /\ e.eos = p.eos /\ e.cancel = p.cancel
    BY <1>3 DEF Streams
  <2> HIDE DEF e
  <2>3. Booked(e) /\ Latest(e)
    BY <1>4, <1>5, <2>2 DEF Booked, Latest
  <2>4. Stopped(e)
    BY <1>1, <1>6, <1>8, <2>2 DEF Stopped
  <2> QED BY <2>1, <2>2, <2>3, <2>4 DEF Sound, p
<1>9. CASE token \notin p.eos /\ ~p.cancel
  <2> DEFINE e == [p EXCEPT !.phase = IF Len(p.generated) = p.max THEN "done" ELSE "running"]
  <2>1. Ended(p, token) = e
    BY <1>9 DEF Ended
  <2>2. /\ e \in Streams
        /\ e.phase = IF Len(p.generated) = p.max THEN "done" ELSE "running"
        /\ e.finish = p.finish /\ e.generated = p.generated
        /\ e.all = p.all /\ e.prompt = p.prompt /\ e.streamed = p.streamed /\ e.max = p.max
        /\ e.streaming = p.streaming /\ e.window = p.window /\ e.limit = p.limit
        /\ e.eos = p.eos /\ e.cancel = p.cancel
    BY <1>3 DEF Streams
  <2> HIDE DEF e
  <2>3. Booked(e) /\ Latest(e)
    BY <1>4, <1>5, <2>2 DEF Booked, Latest
  <2>4. e.phase = "done" => Stopped(e)
    BY <1>1, <1>3, <1>6, <1>9, <2>2 DEF Stopped
  <2>5. e.phase = "running" => Unended(e)
    <3> SUFFICES ASSUME e.phase = "running"
                 PROVE  Unended(e)
      OBVIOUS
    <3>1. Len(e.generated) = n + 1 /\ n + 1 # e.max /\ n + 1 <= e.max /\ e.max \in Nat
      BY <1>1, <1>3, <1>6, <2>2
    <3>2. Len(e.generated) < e.max
      BY <1>1, <3>1
    <3>3. \A i \in 1 .. n + 1 : e.generated[i] \notin e.eos
      BY <1>1, <1>6, <1>9, <2>2
    <3> QED BY <1>6, <1>9, <2>2, <3>1, <3>2, <3>3 DEF Unended
  <2> QED BY <2>1, <2>2, <2>3, <2>4, <2>5 DEF Sound, p
<1> QED BY <1>7, <1>8, <1>9

LEMMA GenStep ==
  ASSUME GenInv, [GenerationNext]_generationVars
  PROVE  GenInv'
<1>1. ASSUME NEW prompt \in Prompts, NEW limit \in ContextLimits, NEW max \in NewTokenLimits,
             NEW eos \in EosTokens, NEW mode \in SamplingMode, NEW streaming \in BOOLEAN,
             generate_tokens(prompt, limit, max, eos, mode, streaming)
      PROVE  GenInv'
  BY <1>1, Begins
<1>2. ASSUME NEW output \in Outputs, NEW cancel \in BOOLEAN, generate_next(output, cancel)
      PROVE  GenInv'
  <2>1. PICK token \in sample_token(last_distribution(output), gen.mode) :
          gen' = Ended(Pushed(gen, token, cancel), token)
    BY <1>2 DEF generate_next
  <2>2. token \in Nat
    BY <2>1, Sampled
  <2>3. Sound(gen) /\ gen \in Streams /\ gen.phase = "running"
    BY <1>2 DEF generate_next, GenInv, Started, Sound
  <2>4. Sound(Ended(Pushed(gen, token, cancel), token))
    BY <2>2, <2>3, Iterates
  <2> QED BY <2>1, <2>4 DEF GenInv
<1>3. CASE generate_next_fails
  BY <1>3 DEF generate_next_fails, GenInv, Started
<1>4. CASE UNCHANGED gen
  BY <1>4 DEF GenInv, Started
<1>5. CASE CacheNext
  <2>1. ASSUME NEW layer, NEW key, NEW value, append(layer, key, value)
        PROVE  UNCHANGED genVars
    BY <2>1 DEF append
  <2>2. ASSUME NEW max, truncate_left(max)
        PROVE  UNCHANGED genVars
    BY <2>2 DEF truncate_left
  <2>3. clear => UNCHANGED genVars
    BY DEF clear
  <2>4. UNCHANGED genVars
    BY <1>5, <2>1, <2>2, <2>3 DEF CacheNext
  <2> QED BY <1>4, <2>4 DEF genVars
<1> QED BY <1>1, <1>2, <1>3, <1>4, <1>5 DEF GenerationNext, GenerateNext, generationVars

-----------------------------------------------------------------------------
(* Generation: the cache.                                                  *)

Rows == Seq(Nat \X Nat)

CacheTensor == [rank : Nat, width : Nat, rows : Rows]

(* What one layer keeps.  A failing concatenation leaves the layer as it   *)
(* was only because key and value pass or fail together: both have a rank  *)
(* and the same width, and the two to be added too.                        *)
LayerInStep(c) ==
    /\ c \in [key : CacheTensor, value : CacheTensor]
    /\ c.key.rank # 0 /\ c.value.rank # 0
    /\ c.key.rows = c.value.rows
    /\ c.key.width = c.value.width

CacheInv ==
    /\ appends \in Nat
    /\ \A l \in DOMAIN kv : LayerInStep(kv[l])

(* Two tensors of one append that pass the validation are one layer.       *)
LEMMA PairInStep ==
  ASSUME NEW q \in {0, 1}, NEW r \in {0, 1}, NEW v \in Nat, NEW w \in Nat,
         NEW n \in Nat, NEW m \in Nat, NEW name \in Nat,
         validate_kv_pair(Tensor(q, v, n, name), Tensor(r, w, m, name))
  PROVE  LayerInStep([key |-> Tensor(q, v, n, name), value |-> Tensor(r, w, m, name)])
<1> DEFINE f == [i \in 1..n |-> <<name, i>>]
           h == [i \in 1..m |-> <<name, i>>]
<1>1. f \in Seq(Nat \X Nat) /\ Len(f) = n /\ h \in Seq(Nat \X Nat) /\ Len(h) = m
  OBVIOUS
<1>2. n = m
  BY <1>1 DEF validate_kv_pair, Tensor
<1>3. f = h
  BY <1>2
<1> HIDE DEF f, h
<1>4. /\ Tensor(q, v, n, name) = [rank |-> q, width |-> v, rows |-> f]
      /\ Tensor(r, w, m, name) = [rank |-> r, width |-> w, rows |-> h]
  BY DEF Tensor, f, h
<1> QED BY <1>1, <1>3, <1>4 DEF validate_kv_pair, LayerInStep, CacheTensor, Rows

(* Concatenation adds the same rows to both or to none.                    *)
LEMMA ExtendInStep ==
  ASSUME NEW c, LayerInStep(c), NEW key \in CacheTensor, NEW value \in CacheTensor,
         LayerInStep([key |-> key, value |-> value])
  PROVE  LayerInStep(Extended(c, key, value))
<1>1. /\ c.key \in CacheTensor /\ c.value \in CacheTensor
      /\ c.key.rank # 0 /\ c.value.rank # 0 /\ key.rank # 0 /\ value.rank # 0
      /\ c.key.rows = c.value.rows /\ c.key.width = c.value.width
      /\ key.rows = value.rows /\ key.width = value.width
  BY DEF LayerInStep
<1>2. Concatenable(c.key, key) <=> Concatenable(c.value, value)
  BY <1>1 DEF Concatenable
<1>3. CASE ~Concatenable(c.key, key)
  BY <1>3 DEF Extended
<1>4. CASE Concatenable(c.key, key)
  <2>1. Extended(c, key, value) = [key |-> concat_sequence(c.key, key),
                                   value |-> concat_sequence(c.value, value)]
    BY <1>2, <1>4 DEF Extended
  <2>2. ASSUME NEW s \in CacheTensor, NEW t \in CacheTensor
        PROVE  /\ concat_sequence(s, t) \in CacheTensor
               /\ concat_sequence(s, t).rows = s.rows \o t.rows
               /\ concat_sequence(s, t).rank = s.rank
               /\ concat_sequence(s, t).width = s.width
    <3> DEFINE b == s.rows \o t.rows
               u == [s EXCEPT !.rows = b]
    <3>1. b \in Rows
      BY DEF CacheTensor, Rows
    <3>2. concat_sequence(s, t) = u
      BY DEF concat_sequence
    <3> HIDE DEF b
    <3>3. u \in CacheTensor /\ u.rows = b /\ u.rank = s.rank /\ u.width = s.width
      BY <3>1 DEF CacheTensor
    <3> QED BY <3>2, <3>3 DEF b
  <2> DEFINE k == concat_sequence(c.key, key)
             v == concat_sequence(c.value, value)
  <2>3. /\ k \in CacheTensor /\ k.rows = c.key.rows \o key.rows
        /\ k.rank = c.key.rank /\ k.width = c.key.width
        /\ v \in CacheTensor /\ v.rows = c.value.rows \o value.rows
        /\ v.rank = c.value.rank /\ v.width = c.value.width
    BY <1>1, <2>2
  <2> HIDE DEF k, v
  <2>4. LayerInStep([key |-> k, value |-> v])
    BY <1>1, <2>3 DEF LayerInStep
  <2> QED BY <2>1, <2>4 DEF k, v
<1> QED BY <1>3, <1>4

LEMMA RetainInStep ==
  ASSUME NEW c, LayerInStep(c), NEW max \in Nat
  PROVE  LayerInStep([key |-> retain_last_sequence(c.key, max),
                      value |-> retain_last_sequence(c.value, max)])
<1>1. /\ c.key \in CacheTensor /\ c.value \in CacheTensor
      /\ c.key.rank # 0 /\ c.value.rank # 0
      /\ c.key.rows = c.value.rows /\ c.key.width = c.value.width
  BY DEF LayerInStep
<1>2. ASSUME NEW s \in CacheTensor
      PROVE  /\ retain_last_sequence(s, max) \in CacheTensor
             /\ retain_last_sequence(s, max).rows = context_window(s.rows, max)
             /\ retain_last_sequence(s, max).rank = s.rank
             /\ retain_last_sequence(s, max).width = s.width
  <2>1. s.rows \in Seq(Nat \X Nat)
    BY DEF CacheTensor, Rows
  <2>2. context_window(s.rows, max) \in Seq(Nat \X Nat)
    BY <2>1, WindowOf
  <2> QED BY <2>2 DEF retain_last_sequence, CacheTensor, Rows
<1> QED BY <1>1, <1>2 DEF LayerInStep

LEMMA CacheStep ==
  ASSUME CacheInv, [GenerationNext]_generationVars
  PROVE  CacheInv'
<1>1. ASSUME NEW layer \in Layers, NEW n \in RowCounts, NEW m \in RowCounts,
             NEW v \in Widths, NEW w \in Widths, NEW q \in {0, 1}, NEW r \in {0, 1},
             append(layer, Tensor(q, v, n, appends + 1), Tensor(r, w, m, appends + 1))
      PROVE  CacheInv'
  <2> DEFINE key == Tensor(q, v, n, appends + 1)
             value == Tensor(r, w, m, appends + 1)
  <2>1. n \in Nat /\ m \in Nat /\ v \in Nat /\ w \in Nat /\ appends \in Nat
    BY GenerationAssumption DEF CacheInv
  <2>2. appends' \in Nat
    BY <1>1, <2>1 DEF append
  <2>3. CASE ~validate_kv_pair(key, value)
    BY <1>1, <2>2, <2>3 DEF append, CacheInv
  <2>4. CASE validate_kv_pair(key, value)
    <3>1. appends + 1 \in Nat
      BY <2>1
    <3>2. LayerInStep([key |-> key, value |-> value])
      BY <2>1, <2>4, <3>1, PairInStep
    <3>3. key \in CacheTensor /\ value \in CacheTensor
      <4> HIDE DEF key, value
      <4> QED BY <3>2 DEF LayerInStep
    <3>4. kv' = [l \in DOMAIN kv \cup {layer} |->
                   IF l # layer THEN kv[l]
                   ELSE IF layer \in DOMAIN kv THEN Extended(kv[layer], key, value)
                   ELSE [key |-> key, value |-> value]]
      BY <1>1, <2>4 DEF append
    <3> HIDE DEF key, value
    <3>5. layer \in DOMAIN kv => LayerInStep(Extended(kv[layer], key, value))
      BY <3>2, <3>3, ExtendInStep DEF CacheInv
    <3>6. \A l \in DOMAIN kv' : LayerInStep(kv'[l])
      BY <3>2, <3>4, <3>5 DEF CacheInv
    <3> QED BY <2>2, <3>6 DEF CacheInv
  <2> QED BY <2>3, <2>4
<1>2. ASSUME NEW max \in KeepLimits, truncate_left(max)
      PROVE  CacheInv'
  <2>1. max \in Nat
    BY GenerationAssumption
  <2>2. \A l \in DOMAIN kv : LayerInStep([key |-> retain_last_sequence(kv[l].key, max),
                                          value |-> retain_last_sequence(kv[l].value, max)])
    BY <2>1, RetainInStep DEF CacheInv
  <2>3. kv' = [l \in DOMAIN kv |->
                [key |-> retain_last_sequence(kv[l].key, max),
                 value |-> retain_last_sequence(kv[l].value, max)]]
    BY <1>2 DEF truncate_left
  <2>4. appends' = appends
    BY <1>2 DEF truncate_left
  <2> QED BY <2>2, <2>3, <2>4 DEF CacheInv
<1>3. CASE clear
  BY <1>3 DEF clear, CacheInv
<1>4. CASE UNCHANGED kvVars
  BY <1>4 DEF kvVars, CacheInv
<1>5. CASE GenerateNext
  BY <1>4, <1>5 DEF GenerateNext, generate_tokens, generate_next, generate_next_fails
<1>6. CASE UNCHANGED generationVars
  BY <1>4, <1>6 DEF generationVars, kvVars
<1> QED BY <1>1, <1>2, <1>3, <1>5, <1>6 DEF GenerationNext, CacheNext

-----------------------------------------------------------------------------

(* A generation returns what it streamed, after its prompt, ends for the   *)
(* reason it reports and at the first EOS or Cancel; every forward pass    *)
(* saw the latest tokens that fit the context; and key and value of every  *)
(* layer of the cache have the same rows, whatever appends are refused and *)
(* however often the cache is cut.                                         *)
THEOREM GenerationSound == GenerationSpec => []GenerationIsSound
<1>1. GenerationInit => GenInv /\ CacheInv
  BY DEF GenerationInit, NoGeneration, GenInv, Started, CacheInv
<1>2. GenInv /\ CacheInv /\ [GenerationNext]_generationVars => (GenInv /\ CacheInv)'
  BY GenStep, CacheStep
<1>3. GenInv /\ CacheInv => GenerationIsSound
  <2> SUFFICES ASSUME GenInv, CacheInv
               PROVE  GenerationIsSound
    OBVIOUS
  <2>1. ResultIsStream
    <3> SUFFICES ASSUME Started
                 PROVE  ResultIsStream
      BY DEF ResultIsStream
    <3>1. Sound(gen) /\ Len(gen.generated) \in Nat
      BY DEF GenInv, Sound, Streams
    <3>2. gen.phase = "running" \/ gen.phase = "done"
      BY DEF Started
    <3> QED BY <3>1, <3>2 DEF ResultIsStream, Sound, Booked, Unended, Stopped
  <2>2. WindowIsLatest
    BY DEF WindowIsLatest, GenInv, Sound, Latest
  <2>3. CacheInStep
    BY DEF CacheInStep, CacheInv, LayerInStep
  <2> QED BY <2>1, <2>2, <2>3 DEF GenerationIsSound
<1> QED BY <1>1, <1>2, <1>3, PTL DEF GenerationSpec

-----------------------------------------------------------------------------
(* Compute: the pages of a tensor.                                         *)

Window == [offset : Nat, len : Nat]

(* How page_windows continues at an offset, from what it gives later on.   *)
FromHere(f, o, total, page) ==
    LET len == Lesser(total - o, page) IN
    IF o < total
    THEN <<[offset |-> o, len |-> len]>> \o f[o + len]
    ELSE <<>>

(* The loop of page_windows is well defined: it runs on to later offsets.  *)
LEMMA WindowsExist ==
  ASSUME NEW total \in Nat, NEW page \in Nat \ {0}
  PROVE  \E f : f = [o \in 0..total |-> FromHere(f, o, total, page)]
<1> DEFINE Upto(n, f) == /\ DOMAIN f = (total - n) .. total
                         /\ \A o \in (total - n) .. total : f[o] = FromHere(f, o, total, page)
           T == {n \in 0..total : ~ \E f : Upto(n, f)}
<1>1. T = {}
  <2> SUFFICES ASSUME T # {}
               PROVE  FALSE
    OBVIOUS
  <2>1. T \in SUBSET Nat
    OBVIOUS
  <2>2. PICK n \in T : \A m \in T : n <= m
    BY <2>1, LeastNatural
  <2>3. n \in 0..total /\ ~ \E f : Upto(n, f)
    OBVIOUS
  <2>4. CASE n = 0
    <3> DEFINE f == [o \in (total - 0) .. total |-> <<>>]
    <3>1. \A o \in (total - 0) .. total : f[o] = FromHere(f, o, total, page)
      BY DEF FromHere
    <3>2. Upto(0, f)
      BY <3>1
    <3> QED BY <2>3, <2>4, <3>2
  <2>5. CASE n # 0
    <3>1. n - 1 \in 0..total /\ n - 1 \notin T
      <4> HIDE DEF T
      <4> QED BY <2>2, <2>3, <2>5
    <3>2. PICK f : Upto(n - 1, f)
      BY <3>1
    <3> DEFINE k == total - n
               g == [o \in k..total |-> IF o = k THEN FromHere(f, k, total, page) ELSE f[o]]
    <3>3. k \in Nat /\ k < total /\ total - (n - 1) = k + 1
      BY <2>3, <2>5
    <3>4. \A o \in k .. total - 1 : o + Lesser(total - o, page) \in k + 1 .. total
                                   /\ o + Lesser(total - o, page) # k
      BY <3>3 DEF Lesser
    <3>5. \A o \in k + 1 .. total : g[o] = f[o] /\ f[o] = FromHere(f, o, total, page)
      BY <3>2, <3>3
    <3>6. \A o \in k..total : FromHere(g, o, total, page) = FromHere(f, o, total, page)
      <4> HIDE DEF g, k
      <4>1. CASE k <= total - 1
        <5>1. ASSUME NEW o \in k .. total - 1
              PROVE  FromHere(g, o, total, page) = FromHere(f, o, total, page)
          <6> DEFINE e == o + Lesser(total - o, page)
          <6>1. e \in k + 1 .. total
            BY <3>4
          <6>2. g[e] = f[e]
            BY <3>5, <6>1
          <6> QED BY <6>2 DEF FromHere
        <5>2. FromHere(g, total, total, page) = FromHere(f, total, total, page)
          BY DEF FromHere
        <5>3. \A o \in k..total : o = total \/ o \in k .. total - 1
          BY <3>3
        <5> QED BY <5>1, <5>2, <5>3
      <4> QED BY <3>3, <4>1
    <3>7. \A o \in k..total : g[o] = FromHere(g, o, total, page)
      <4>1. g[k] = FromHere(f, k, total, page)
        BY <3>3
      <4> HIDE DEF g, k
      <4> QED BY <3>3, <3>5, <3>6, <4>1
    <3>8. Upto(n, g)
      BY <3>7
    <3> QED BY <2>3, <3>8
  <2> QED BY <2>4, <2>5
<1>2. PICK f : Upto(total, f)
  <2>1. total \in 0..total /\ total \notin T
    BY <1>1
  <2> HIDE DEF Upto
  <2> QED BY <2>1
<1>3. DOMAIN f = 0..total /\ \A o \in 0..total : f[o] = FromHere(f, o, total, page)
  BY <1>2
<1> DEFINE g == [o \in 0..total |-> f[o]]
<1>4. \A o \in 0..total : FromHere(g, o, total, page) = FromHere(f, o, total, page)
  <2>1. \A o \in 0 .. total - 1 : o + Lesser(total - o, page) \in 0..total
    BY DEF Lesser
  <2> QED BY <2>1 DEF FromHere
<1>5. g = [o \in 0..total |-> FromHere(g, o, total, page)]
  BY <1>3, <1>4
<1> QED BY <1>5

(* The equation by which page_windows goes on.                             *)
LEMMA WindowsFrom ==
  ASSUME NEW total \in Nat, NEW page \in Nat \ {0}
  PROVE  \E f : /\ f = [o \in 0..total |-> FromHere(f, o, total, page)]
                /\ page_windows(total, page) = f[0]
<1> DEFINE F == CHOOSE f : f = [o \in 0..total |-> FromHere(f, o, total, page)]
<1>1. F = [o \in 0..total |-> FromHere(F, o, total, page)]
  BY WindowsExist
<1>2. page_windows(total, page) = F[0]
  BY DEF page_windows, FromHere
<1> QED BY <1>1, <1>2

(* Windows that cover the bytes from o to total.                           *)
Tiles(w, o, total, page) ==
    /\ w \in Seq(Window)
    /\ o = total => w = <<>>
    /\ o < total => /\ w # <<>> /\ w[1].offset = o
                    /\ w[Len(w)].offset + w[Len(w)].len = total
    /\ \A i \in DOMAIN w : w[i].len \in 1..page
    /\ \A i \in 1 .. Len(w) - 1 : w[i + 1].offset = w[i].offset + w[i].len

(* One more window in front of a tiling is a tiling.                       *)
LEMMA TileInFront ==
  ASSUME NEW total \in Nat, NEW page \in Nat \ {0}, NEW o \in Nat, o < total,
         NEW len \in 1..page, o + len <= total,
         NEW w, Tiles(w, o + len, total, page)
  PROVE  Tiles(<<[offset |-> o, len |-> len]>> \o w, o, total, page)
<1> DEFINE x == [offset |-> o, len |-> len]
           v == <<x>> \o w
<1>1. x \in Window /\ x.offset = o /\ x.len = len
  BY DEF Window
<1> HIDE DEF x
<1>2. w \in Seq(Window) /\ Len(w) \in Nat /\ <<x>> \in Seq(Window)
  BY <1>1 DEF Tiles
<1>3. /\ v \in Seq(Window) /\ Len(v) = Len(w) + 1 /\ v[1] = x
      /\ \A i \in 1 .. Len(w) : v[i + 1] = w[i]
  BY <1>1, <1>2
<1> HIDE DEF v
<1>4. DOMAIN v = 1 .. Len(w) + 1 /\ DOMAIN w = 1 .. Len(w) /\ v # <<>>
  BY <1>2, <1>3
<1>5. ASSUME NEW i \in 1 .. Len(w) + 1
      PROVE  v[i].len \in 1..page
  <2>1. CASE i = 1
    BY <1>1, <1>3, <2>1
  <2>2. CASE i # 1
    <3>1. i - 1 \in 1 .. Len(w) /\ (i - 1) + 1 = i
      BY <1>2, <2>2
    <3>2. v[i] = w[i - 1]
      BY <1>3, <3>1
    <3> QED BY <1>4, <3>1, <3>2 DEF Tiles
  <2> QED BY <2>1, <2>2
<1>6. CASE o + len = total
  <2>1. w = <<>> /\ Len(w) = 0
    BY <1>6 DEF Tiles
  <2> QED BY <1>1, <1>3, <1>4, <1>5, <1>6, <2>1 DEF Tiles, v, x
<1>7. CASE o + len < total
  <2>1. /\ w # <<>> /\ w[1].offset = o + len
        /\ w[Len(w)].offset + w[Len(w)].len = total
    BY <1>7 DEF Tiles
  <2>2. Len(w) >= 1
    BY <1>2, <2>1
  <2>3. v[Len(v)].offset + v[Len(v)].len = total
    BY <1>2, <1>3, <2>1, <2>2
  <2>4. ASSUME NEW i \in 1 .. Len(v) - 1
        PROVE  v[i + 1].offset = v[i].offset + v[i].len
    <3>0. i \in 1 .. Len(w) /\ v[i + 1] = w[i]
      BY <1>2, <1>3
    <3>1. CASE i = 1
      BY <1>1, <1>3, <2>1, <3>0, <3>1
    <3>2. CASE i # 1
      <4>1. i - 1 \in 1 .. Len(w) - 1 /\ i - 1 \in 1 .. Len(w) /\ (i - 1) + 1 = i
        BY <1>2, <3>0, <3>2
      <4>2. v[i] = w[i - 1]
        BY <1>3, <4>1
      <4>3. w[i].offset = w[i - 1].offset + w[i - 1].len
        BY <4>1 DEF Tiles
      <4> QED BY <3>0, <4>2, <4>3
    <3> QED BY <3>1, <3>2
  <2> QED BY <1>1, <1>3, <1>4, <1>5, <2>3, <2>4 DEF Tiles, v, x
<1> QED BY <1>6, <1>7

(* page_windows cuts a tensor into pages without gap or overlap, by        *)
(* induction on what is left of it.                                        *)
LEMMA PagesOf ==
  ASSUME NEW total \in Nat, NEW page \in Nat \ {0}
  PROVE  Tiles(page_windows(total, page), 0, total, page)
<1>1. PICK f : /\ f = [o \in 0..total |-> FromHere(f, o, total, page)]
               /\ page_windows(total, page) = f[0]
  BY WindowsFrom
<1>2. \A o \in 0..total : f[o] = FromHere(f, o, total, page)
  BY <1>1
<1> DEFINE T == {n \in 0..total : ~ Tiles(f[total - n], total - n, total, page)}
<1>3. T = {}
  <2> SUFFICES ASSUME T # {}
               PROVE  FALSE
    OBVIOUS
  <2>1. T \in SUBSET Nat
    OBVIOUS
  <2>2. PICK n \in T : \A m \in T : n <= m
    BY <2>1, LeastNatural
  <2> DEFINE o == total - n
             len == Lesser(total - o, page)
  <2>3. n \in 0..total /\ o \in 0..total /\ ~ Tiles(f[o], o, total, page)
    OBVIOUS
  <2>4. CASE o = total
    <3>1. f[o] = <<>>
      <4>1. f[total] = FromHere(f, total, total, page)
        BY <1>2
      <4>2. ~ (total < total)
        OBVIOUS
      <4>3. f[total] = <<>>
        BY <4>1, <4>2 DEF FromHere
      <4> HIDE DEF o
      <4> QED BY <2>4, <4>3
    <3> QED BY <2>3, <2>4, <3>1 DEF Tiles
  <2>5. CASE o < total
    <3>1. /\ len \in 1..page /\ o + len <= total /\ o + len \in 0..total
          /\ n - len \in 0..total /\ n - len < n /\ total - (n - len) = o + len
      BY <2>3, <2>5 DEF Lesser
    <3>2. n - len \notin T
      <4> HIDE DEF T, len
      <4>1. n \in Nat /\ len \in Nat
        BY <2>3, <3>1
      <4> QED BY <2>2, <3>1, <4>1
    <3>3. Tiles(f[o + len], o + len, total, page)
      BY <3>1, <3>2
    <3>4. f[o] = <<[offset |-> o, len |-> len]>> \o f[o + len]
      BY <1>2, <2>3, <2>5 DEF FromHere
    <3>5. o \in Nat
      BY <2>3
    <3> HIDE DEF o, len, T
    <3>6. Tiles(<<[offset |-> o, len |-> len]>> \o f[o + len], o, total, page)
      BY <2>5, <3>1, <3>3, <3>5, TileInFront
    <3> QED BY <2>3, <3>4, <3>6
  <2> QED BY <2>3, <2>4, <2>5
<1>4. total \in 0..total /\ total \notin T /\ total - total = 0
  BY <1>3
<1> QED BY <1>1, <1>4

-----------------------------------------------------------------------------
(* Compute: the order of backends.                                         *)

(* A backend that may run is preferred to all others that may: the order   *)
(* by ranks, and by registration among equals, has a first element.        *)
LEMMA FirstPreferred ==
  ASSUME NEW r, NEW S \in SUBSET Nat, S # {}, \A i \in S : \A n \in 1..4 : r[i][n] \in Nat
  PROVE  \E i \in S : \A j \in S : compare_provider(r[i], r[j])
                                   \/ (~ compare_provider(r[j], r[i]) /\ i <= j)
<1> DEFINE Best(A, n) == {i \in A : \A j \in A : r[i][n] <= r[j][n]}
<1>1. ASSUME NEW A \in SUBSET S, A # {}, NEW n \in 1..4
      PROVE  Best(A, n) # {} /\ Best(A, n) \in SUBSET A
  <2> DEFINE V == {r[i][n] : i \in A}
  <2>1. V \in SUBSET Nat /\ V # {}
    BY <1>1
  <2>2. PICK v \in V : \A u \in V : v <= u
    BY <2>1, LeastNatural
  <2>3. PICK i \in A : r[i][n] = v
    OBVIOUS
  <2>4. i \in Best(A, n)
    BY <2>2, <2>3
  <2> QED BY <2>4
<1> DEFINE A1 == Best(S, 1)
           A2 == Best(A1, 2)
           A3 == Best(A2, 3)
           A4 == Best(A3, 4)
<1>2. A1 # {} /\ A1 \in SUBSET S /\ \A i \in A1 : \A j \in S : r[i][1] <= r[j][1]
  BY <1>1
<1> HIDE DEF A1
<1>3. A2 # {} /\ A2 \in SUBSET A1 /\ \A i \in A2 : \A j \in A1 : r[i][2] <= r[j][2]
  <2>1. A1 \in SUBSET S /\ A1 # {} /\ 2 \in 1..4
    BY <1>2
  <2>2. Best(A1, 2) # {} /\ Best(A1, 2) \in SUBSET A1
    <3> HIDE DEF Best
    <3> QED BY <1>1, <2>1
  <2> QED BY <2>2
<1> HIDE DEF A2
<1>4. A3 # {} /\ A3 \in SUBSET A2 /\ \A i \in A3 : \A j \in A2 : r[i][3] <= r[j][3]
  <2>1. A2 \in SUBSET S /\ A2 # {} /\ 3 \in 1..4
    BY <1>2, <1>3
  <2>2. Best(A2, 3) # {} /\ Best(A2, 3) \in SUBSET A2
    <3> HIDE DEF Best
    <3> QED BY <1>1, <2>1
  <2> QED BY <2>2
<1> HIDE DEF A3
<1>5. A4 # {} /\ A4 \in SUBSET A3 /\ \A i \in A4 : \A j \in A3 : r[i][4] <= r[j][4]
  <2>0. A3 \subseteq S /\ A3 # {}
    <3>1. A3 \subseteq A2 /\ A2 \subseteq A1 /\ A1 \subseteq S /\ A3 # {}
      BY <1>2, <1>3, <1>4, Zenon
    <3> QED BY <3>1, Zenon
  <2>1. A3 \in SUBSET S /\ A3 # {} /\ 4 \in 1..4
    BY <2>0
  <2>2. Best(A3, 4) # {} /\ Best(A3, 4) \in SUBSET A3
    <3> HIDE DEF Best
    <3> QED BY <1>1, <2>1
  <2> QED BY <2>2
<1>6. /\ \A j \in S : (\A i \in A1 : r[i][1] = r[j][1]) => j \in A1
      /\ \A j \in A1 : (\A i \in A2 : r[i][2] = r[j][2]) => j \in A2
      /\ \A j \in A2 : (\A i \in A3 : r[i][3] = r[j][3]) => j \in A3
      /\ \A j \in A3 : (\A i \in A4 : r[i][4] = r[j][4]) => j \in A4
  <2>1. \A j \in S : (\A i \in A1 : r[i][1] = r[j][1]) => j \in A1
    BY <1>2 DEF A1
  <2>2. \A j \in A1 : (\A i \in A2 : r[i][2] = r[j][2]) => j \in A2
    BY <1>3 DEF A2
  <2>3. \A j \in A2 : (\A i \in A3 : r[i][3] = r[j][3]) => j \in A3
    BY <1>4 DEF A3
  <2>4. \A j \in A3 : (\A i \in A4 : r[i][4] = r[j][4]) => j \in A4
    BY <1>5
  <2> QED BY <2>1, <2>2, <2>3, <2>4
<1> HIDE DEF A4, Best
<1>7. PICK i \in A4 : \A j \in A4 : i <= j
  BY <1>2, <1>3, <1>4, <1>5, LeastNatural
<1>8. i \in S /\ i \in A1 /\ i \in A2 /\ i \in A3
  BY <1>2, <1>3, <1>4, <1>5, <1>7
<1>9. ASSUME NEW j \in S
      PROVE  compare_provider(r[i], r[j]) \/ (~ compare_provider(r[j], r[i]) /\ i <= j)
  <2> DEFINE a(n) == r[i][n]
             b(n) == r[j][n]
  <2>0. /\ a(1) \in Nat /\ a(2) \in Nat /\ a(3) \in Nat /\ a(4) \in Nat
        /\ b(1) \in Nat /\ b(2) \in Nat /\ b(3) \in Nat /\ b(4) \in Nat
    BY <1>8
  <2>1. a(1) <= b(1)
    BY <1>2, <1>7, <1>8
  <2>2. CASE a(1) < b(1)
    BY <2>2 DEF compare_provider
  <2>3. CASE a(1) = b(1)
    <3>1. j \in A1
      <4>1. \A k \in A1 : r[k][1] = r[j][1]
        BY <1>2, <1>8, <2>0, <2>3
      <4> QED BY <1>6, <4>1
    <3>2. a(2) <= b(2)
      BY <1>3, <1>8, <3>1
    <3>3. CASE a(2) < b(2)
      BY <2>3, <3>3 DEF compare_provider
    <3>4. CASE a(2) = b(2)
      <4>1. j \in A2
        <5>1. \A k \in A2 : r[k][2] = r[j][2]
          BY <1>2, <1>3, <1>8, <2>0, <3>1, <3>4
        <5> QED BY <1>6, <3>1, <5>1
      <4>2. a(3) <= b(3)
        BY <1>4, <1>8, <4>1
      <4>3. CASE a(3) < b(3)
        BY <2>3, <3>4, <4>3 DEF compare_provider
      <4>4. CASE a(3) = b(3)
        <5>1. j \in A3
          <6>1. \A k \in A3 : r[k][3] = r[j][3]
            BY <1>2, <1>3, <1>4, <1>8, <2>0, <4>1, <4>4
          <6> QED BY <1>6, <4>1, <6>1
        <5>2. a(4) <= b(4)
          BY <1>5, <1>7, <5>1
        <5>3. CASE a(4) < b(4)
          BY <2>3, <3>4, <4>4, <5>3 DEF compare_provider
        <5>4. CASE a(4) = b(4)
          <6>1. j \in A4
            <7>1. \A k \in A4 : r[k][4] = r[j][4]
              BY <1>2, <1>3, <1>4, <1>5, <1>7, <2>0, <5>1, <5>4
            <7> QED BY <1>6, <5>1, <7>1
          <6>2. i <= j
            BY <1>7, <6>1
          <6>3. ~ compare_provider(r[j], r[i])
            BY <2>0, <2>3, <3>4, <4>4, <5>4 DEF compare_provider
          <6> QED BY <6>2, <6>3
        <5> QED BY <2>0, <5>2, <5>3, <5>4
      <4> QED BY <2>0, <4>2, <4>3, <4>4
    <3> QED BY <2>0, <3>2, <3>3, <3>4
  <2> QED BY <2>0, <2>1, <2>2, <2>3
<1> QED BY <1>8, <1>9

LEMMA BackendTypes == Backends \subseteq Provider
  BY ComputeAssumption DEF Backends, CpuReferenceMobileProvider, CpuTiledProvider,
     all_tensor_ops, Provider, ProviderKind, Low, Medium, High

(* A verified measurement has a latency.                                   *)
Licenses(table) ==
    \A kind \in ProviderKind, op \in TensorOps :
        is_verified(table, kind, op) => table[<<kind, op>>].latency \in Nat

ComputeInv ==
    /\ device \in DeviceCapabilities
    /\ policy \in ComputePolicy
    /\ snapshot \in ResourceSnapshot
    /\ providers \in Seq(Backends)
    /\ Licenses(autotune)
    /\ OutputIsReference
    /\ FallsBackToCpu
    /\ PagesTile

LEMMA NormalizedType ==
  ASSUME NEW s \in ResourceSnapshot, NEW d \in DeviceCapabilities
  PROVE  normalized(s, d) \in ResourceSnapshot
<1> DEFINE a == Lesser(s.available_ram, d.total_ram)
           b == Lesser(s.battery, 100)
<1>1. a \in Nat /\ b \in Nat
  BY DEF ResourceSnapshot, DeviceCapabilities, Lesser
<1>2. normalized(s, d) = [s EXCEPT !.available_ram = a, !.battery = b]
  BY DEF normalized
<1> HIDE DEF a, b
<1> QED BY <1>1, <1>2 DEF ResourceSnapshot

LEMMA BudgetType ==
  ASSUME ComputeInv
  PROVE  working_budget \in Nat
<1>1. snapshot.available_ram \in Nat /\ policy.reserve_ram \in Nat
  BY DEF ComputeInv, ResourceSnapshot, ComputePolicy
<1> QED BY <1>1 DEF working_budget, saturating_sub

LEMMA RankType ==
  ASSUME ComputeInv, NEW p \in Backends, NEW op \in TensorOps
  PROVE  \A n \in 1..4 : Rank(p, op)[n] \in Nat
<1>1. p.kind \in ProviderKind /\ p.priority \in Nat /\ p.power \in Nat
  BY BackendTypes DEF Provider, Low, High
<1>2. CASE is_verified(autotune, p.kind, op)
  <2> DEFINE ns == autotune[<<p.kind, op>>].latency
             late == IF snapshot.latency_budget > 0
                        /\ ns > snapshot.latency_budget * NANOS_PER_MS THEN 1 ELSE 0
  <2>1. ns \in Nat /\ late \in Nat
    BY <1>1, <1>2 DEF ComputeInv, Licenses
  <2>2. Rank(p, op) = <<0, late, ns, p.priority>>
    BY <1>2 DEF Rank
  <2> HIDE DEF ns, late
  <2> QED BY <1>1, <2>1, <2>2
<1>3. CASE ~ is_verified(autotune, p.kind, op)
  <2> DEFINE w == IF policy.prefer_low_power THEN p.power ELSE 0
  <2>1. w \in Nat
    BY <1>1
  <2>2. Rank(p, op) = <<1, 0, w, p.priority>>
    BY <1>3 DEF Rank
  <2> HIDE DEF w
  <2> QED BY <1>1, <2>1, <2>2
<1> QED BY <1>2, <1>3

(* The backend that runs is one of those that may.                         *)
LEMMA SelectedMayRun ==
  ASSUME ComputeInv, NEW op \in TensorOps, NEW S \in SUBSET DOMAIN providers, S # {}
  PROVE  selected_provider(S, op) \in S
<1> DEFINE r == [i \in DOMAIN providers |-> Rank(providers[i], op)]
<1>1. DOMAIN providers \subseteq Nat /\ \A i \in DOMAIN providers : providers[i] \in Backends
  BY DEF ComputeInv
<1>2. S \in SUBSET Nat
  BY <1>1
<1>3. \A i \in S : r[i] = Rank(providers[i], op)
  OBVIOUS
<1>4. \A i \in S : \A n \in 1..4 : r[i][n] \in Nat
  BY <1>1, <1>3, RankType
<1> HIDE DEF r
<1>5. PICK i \in S : \A j \in S : compare_provider(r[i], r[j])
                                  \/ (~ compare_provider(r[j], r[i]) /\ i <= j)
  BY <1>2, <1>4, FirstPreferred
<1>6. \A j \in S : Preferred(i, j, op)
  BY <1>3, <1>5 DEF Preferred
<1> QED BY <1>6 DEF selected_provider

LEMMA ExecuteSound ==
  ASSUME ComputeInv, NEW op \in TensorOps, NEW input \in TensorInputs,
         NEW failing \in SUBSET DOMAIN providers, execute_adaptive(op, input, failing)
  PROVE  ComputeInv'
<1> DEFINE S == Allowed(op) \ failing
           by == IF S = {} THEN 0 ELSE selected_provider(S, op)
<1>1. /\ outcome' = [call |-> "executed", op |-> op, input |-> input, failing |-> failing,
                    by |-> by]
      /\ UNCHANGED <<device, policy, snapshot, autotune, providers>>
  BY DEF execute_adaptive
<1>2. S \in SUBSET DOMAIN providers
  BY DEF Allowed
<1>3. /\ \A i \in DOMAIN providers : providers[i] \in Backends /\ i # 0
      /\ DOMAIN providers \subseteq Nat
  BY DEF ComputeInv
<1>4. by # 0 => by \in S
  BY <1>2, SelectedMayRun
<1>5. S # {} => by # 0
  BY <1>2, <1>3, SelectedMayRun
<1>6. OutputIsReference'
  <2> DEFINE q == providers[by]
  <2> SUFFICES ASSUME by # 0
               PROVE  \/ <<op, input>> \in q.exact
                      \/ /\ q.kind \in AcceleratorKind
                         /\ is_verified(autotune, q.kind, op)
                         /\ snapshot.thermal < Hot
                         /\ snapshot.charging \/ snapshot.battery >= policy.min_battery
                         /\ IF q.kind = "Npu" THEN policy.allow_npu /\ device.supports_npu
                                              ELSE policy.allow_vulkan /\ device.supports_vulkan
    BY <1>1 DEF OutputIsReference, is_verified
  <2>1. by \in DOMAIN providers /\ profile_allowed(providers[by], op)
    BY <1>2, <1>4 DEF Allowed
  <2> HIDE DEF by
  <2> DEFINE p == providers[by]
  <2>2. p \in Backends /\ p.kind \in ProviderKind
    BY <1>3, <2>1, BackendTypes DEF Provider
  <2>3. CASE p.kind \in AcceleratorKind
    <3>1. is_verified(autotune, p.kind, op) /\ accelerator_permitted(p.kind)
      BY <2>1, <2>3 DEF profile_allowed
    <3> QED BY <2>3, <3>1 DEF accelerator_permitted, AcceleratorKind
  <2>4. CASE p.kind \notin AcceleratorKind
    <3>1. p \notin Accelerators
      BY <2>4, ComputeAssumption
    <3>2. p.exact = Calls
      BY <2>2, <3>1 DEF Backends, CpuReferenceMobileProvider, CpuTiledProvider, all_tensor_ops
    <3> QED BY <3>2 DEF Calls
  <2> QED BY <2>3, <2>4
<1>7. FallsBackToCpu'
  <2> SUFFICES ASSUME NEW i \in DOMAIN providers \ failing,
                      providers[i].kind \notin AcceleratorKind
               PROVE  by # 0
    BY <1>1 DEF FallsBackToCpu
  <2> DEFINE p == providers[i]
  <2>1. p \in Backends /\ p \notin Accelerators
    BY <1>3, ComputeAssumption
  <2>2. op \in p.supported_ops /\ p.minimum_working_set = 0
    BY <2>1 DEF Backends, CpuReferenceMobileProvider, CpuTiledProvider, all_tensor_ops
  <2>3. 0 <= working_budget
    BY BudgetType
  <2>4. profile_allowed(p, op)
    BY <2>2, <2>3 DEF profile_allowed
  <2>5. i \in S
    BY <2>4 DEF Allowed
  <2> QED BY <1>5, <2>5
<1>8. PagesTile'
  BY <1>1 DEF PagesTile
<1> QED BY <1>1, <1>6, <1>7, <1>8 DEF ComputeInv, Licenses, is_verified

LEMMA PlacementSound ==
  ASSUME ComputeInv, NEW elements \in TensorSizes, plan_placement(elements)
  PROVE  ComputeInv'
<1> DEFINE bytes == elements * policy.bytes_per_element
<1>1. /\ outcome' = plan_tensor_placement(elements)
      /\ UNCHANGED <<device, policy, snapshot, autotune, providers>>
  BY DEF plan_placement
<1>2. bytes \in Nat
  <2>1. elements \in Nat /\ policy.bytes_per_element \in {1, 2, 4}
    BY ComputeAssumption DEF ComputeInv, ComputePolicy
  <2> QED BY <2>1
<1>3. policy.page_bytes \in Nat /\ working_budget \in Nat /\ U64_MAX \in Nat
  BY ComputeAssumption, BudgetType DEF ComputeInv, ComputePolicy
<1>4. OutputIsReference' /\ FallsBackToCpu' /\ PagesTile'
  <2> HIDE DEF bytes
  <2>0. plan_tensor_placement(elements) =
          CASE bytes > U64_MAX -> [call |-> "Overflow"]
            [] bytes <= U64_MAX /\ bytes <= working_budget \div 2 ->
                  Placed(Accelerator, bytes, <<[offset |-> 0, len |-> bytes]>>)
            [] bytes <= U64_MAX /\ bytes > working_budget \div 2 ->
                  IF policy.page_bytes = 0 THEN [call |-> "InvalidPageSize"]
                  ELSE Placed("PagedCpu", bytes, page_windows(bytes, policy.page_bytes))
    BY DEF plan_tensor_placement, bytes
  <2>1. CASE bytes > U64_MAX
    <3>1. outcome' = [call |-> "Overflow"]
      BY <1>1, <1>2, <1>3, <2>0, <2>1
    <3> QED BY <3>1 DEF OutputIsReference, FallsBackToCpu, PagesTile
  <2>2. CASE bytes <= U64_MAX /\ bytes <= working_budget \div 2
    <3>1. outcome' = Placed(Accelerator, bytes, <<[offset |-> 0, len |-> bytes]>>)
      BY <1>1, <1>2, <1>3, <2>0, <2>2
    <3>2. Accelerator # "PagedCpu"
      BY DEF Accelerator
    <3> QED BY <3>1, <3>2 DEF Placed, OutputIsReference, FallsBackToCpu, PagesTile
  <2>3. CASE bytes <= U64_MAX /\ bytes > working_budget \div 2
    <3>1. CASE policy.page_bytes = 0
      <4>1. outcome' = [call |-> "InvalidPageSize"]
        BY <1>1, <1>2, <1>3, <2>0, <2>3, <3>1
      <4> QED BY <4>1 DEF OutputIsReference, FallsBackToCpu, PagesTile
    <3>2. CASE policy.page_bytes # 0
      <4> DEFINE w == page_windows(bytes, policy.page_bytes)
      <4>1. outcome' = Placed("PagedCpu", bytes, w)
        BY <1>1, <1>2, <1>3, <2>0, <2>3, <3>2
      <4>2. bytes > 0
        BY <1>2, <1>3, <2>3
      <4>3. Tiles(w, 0, bytes, policy.page_bytes)
        BY <1>2, <1>3, <3>2, PagesOf
      <4> HIDE DEF w
      <4>4. /\ w # <<>> /\ w[1].offset = 0 /\ w[Len(w)].offset + w[Len(w)].len = bytes
            /\ \A i \in DOMAIN w : w[i].len \in 1..policy.page_bytes
            /\ \A i \in 1 .. Len(w) - 1 : w[i + 1].offset = w[i].offset + w[i].len
        BY <1>2, <4>2, <4>3 DEF Tiles
      <4>5. outcome'.call = "placed" /\ outcome'.pages = w /\ outcome'.bytes = bytes
        BY <4>1 DEF Placed
      <4>6. PagesTile'
        BY <1>1, <4>4, <4>5 DEF PagesTile
      <4> QED BY <4>5, <4>6 DEF OutputIsReference, FallsBackToCpu
    <3> QED BY <3>1, <3>2
  <2> QED BY <1>2, <1>3, <2>1, <2>2, <2>3
<1> QED BY <1>1, <1>4 DEF ComputeInv, Licenses, is_verified

LEMMA MeasurementLicenses ==
  ASSUME ComputeInv, NEW k \in ProviderKind, NEW op \in TensorOps, NEW latency \in Latencies,
         NEW v
  PROVE  Licenses(record_measurement(autotune, k, op, [latency |-> latency, verified |-> v]))
<1> DEFINE m == [latency |-> latency, verified |-> v]
           table == record_measurement(autotune, k, op, m)
<1>2. m.latency = latency /\ latency \in Nat
  BY ComputeAssumption
<1> HIDE DEF m
<1>3. /\ DOMAIN table = DOMAIN autotune \cup {<<k, op>>}
      /\ table[<<k, op>>] = m
      /\ \A key \in DOMAIN autotune : key # <<k, op>> => table[key] = autotune[key]
  BY DEF record_measurement
<1> HIDE DEF table
<1> SUFFICES ASSUME NEW kind \in ProviderKind, NEW o \in TensorOps, is_verified(table, kind, o)
             PROVE  table[<<kind, o>>].latency \in Nat
  BY DEF Licenses, table, m
<1>4. CASE <<kind, o>> = <<k, op>>
  BY <1>2, <1>3, <1>4
<1>5. CASE <<kind, o>> # <<k, op>>
  <2>1. <<kind, o>> \in DOMAIN autotune /\ table[<<kind, o>>] = autotune[<<kind, o>>]
    BY <1>3, <1>5 DEF is_verified
  <2>2. is_verified(autotune, kind, o)
    BY <2>1 DEF is_verified
  <2> QED BY <2>1, <2>2 DEF ComputeInv, Licenses
<1> QED BY <1>4, <1>5

(* Adaptive compute and its results: an output that is not the CPU         *)
(* reference's comes from an accelerator that the table calls verified and *)
(* that heat, battery, policy and device allow; an operation a CPU backend *)
(* can do always succeeds; and the pages of a tensor tile it.  For any     *)
(* backends, right or wrong, any tables, device, policy and sequence of    *)
(* resource snapshots.                                                     *)
THEOREM ComputeSound == ComputeSpec => []ComputeIsSound
<1>1. ComputeInit => ComputeInv
  <2> SUFFICES ASSUME ComputeInit
               PROVE  ComputeInv
    OBVIOUS
  <2>1. device \in DeviceCapabilities /\ policy \in ComputePolicy
    BY ComputeAssumption DEF ComputeInit
  <2>2. snapshot \in ResourceSnapshot
    BY <2>1, NormalizedType, ComputeAssumption DEF ComputeInit
  <2>3. Licenses(autotune)
    BY DEF ComputeInit, Licenses, is_verified
  <2>4. outcome.call = "none" /\ providers \in Seq(Backends)
    BY DEF ComputeInit, NotCalled
  <2> QED BY <2>1, <2>2, <2>3, <2>4 DEF ComputeInv, OutputIsReference, FallsBackToCpu, PagesTile
<1>2. ComputeInv /\ [ComputeNext]_computeVars => ComputeInv'
  <2> SUFFICES ASSUME ComputeInv, [ComputeNext]_computeVars
               PROVE  ComputeInv'
    OBVIOUS
  <2>1. outcome' = NotCalled => OutputIsReference' /\ FallsBackToCpu' /\ PagesTile'
    BY DEF NotCalled, OutputIsReference, FallsBackToCpu, PagesTile
  <2>2. ASSUME NEW p \in Backends, register(p)
        PROVE  ComputeInv'
    <3>1. providers' \in Seq(Backends)
      BY <2>2 DEF register, ComputeInv
    <3> QED BY <2>1, <2>2, <3>1 DEF register, ComputeInv, Licenses, is_verified
  <2>3. ASSUME NEW s \in Snapshots, set_snapshot(s)
        PROVE  ComputeInv'
    <3>1. snapshot' \in ResourceSnapshot
      BY <2>3, NormalizedType, ComputeAssumption DEF set_snapshot, ComputeInv
    <3> QED BY <2>1, <2>3, <3>1 DEF set_snapshot, ComputeInv, Licenses, is_verified
  <2>4. ASSUME NEW table, Licenses(table), set_autotune(table)
        PROVE  ComputeInv'
    <3>1. Licenses(autotune')
      BY <2>4 DEF set_autotune
    <3> QED BY <2>1, <2>4, <3>1 DEF set_autotune, ComputeInv
  <2>8. CASE InstallTable
    <3>1. CASE set_autotune(<<>>)
      <4>1. Licenses(<<>>)
        BY DEF Licenses, is_verified
      <4> QED BY <2>4, <3>1, <4>1
    <3>2. ASSUME NEW kind \in ProviderKind, NEW op \in TensorOps, NEW latency \in Latencies,
                 NEW v,
                 set_autotune(record_measurement(autotune, kind, op,
                     [latency |-> latency, verified |-> v]))
          PROVE  ComputeInv'
      BY <2>4, <3>2, MeasurementLicenses
    <3>3. \A p \in Backends : p.kind \in ProviderKind
      BY BackendTypes DEF Provider
    <3> QED BY <2>8, <3>1, <3>2, <3>3 DEF InstallTable
  <2>5. ASSUME NEW op \in TensorOps, NEW input \in TensorInputs,
               NEW failing \in SUBSET DOMAIN providers, execute_adaptive(op, input, failing)
        PROVE  ComputeInv'
    BY <2>5, ExecuteSound
  <2>6. ASSUME NEW elements \in TensorSizes, plan_placement(elements)
        PROVE  ComputeInv'
    BY <2>6, PlacementSound
  <2>7. CASE UNCHANGED computeVars
    BY <2>7 DEF computeVars, ComputeInv, Licenses, is_verified, OutputIsReference,
                FallsBackToCpu, PagesTile
  <2> QED BY <2>2, <2>3, <2>5, <2>6, <2>7, <2>8 DEF ComputeNext
<1>3. ComputeInv => ComputeIsSound
  BY DEF ComputeInv, ComputeIsSound
<1> QED BY <1>1, <1>2, <1>3, PTL DEF ComputeSpec
=============================================================================
