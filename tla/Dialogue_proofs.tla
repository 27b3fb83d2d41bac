---------------------------- MODULE Dialogue_proofs ----------------------------
(***************************************************************************)
(* What of a client's request reaches the provider of a route, for every   *)
(* set of clients, routes and answers and however long they talk.  Of its  *)
(* options: that each is sent, warned about or immaterial, that thinking   *)
(* fits its limits, and that a request without extensions gets the         *)
(* metadata of its own route.  Of the conversation: that every item        *)
(* arrives once, in an order that is allowed, or is named as dropped.      *)
(***************************************************************************)
EXTENDS Dialogue, FiniteSetTheorems, TLAPS, WellFoundedInduction

-----------------------------------------------------------------------------
(* What the helpers of the encoders do to a provider's request. *)

Shaped(r) ==
  r = [refused |-> r.refused, system |-> r.system, messages |-> r.messages, opts |-> r.opts, max |-> r.max,
       budget |-> r.budget, dropped |-> r.dropped, warned |-> r.warned]

SameLimits(r, s) == s.refused = r.refused /\ s.max = r.max /\ s.budget = r.budget

\* s is r without some of its options, and those that are not in quiet left with a warning.
Thinner(r, s, quiet) ==
  /\ Shaped(s) /\ SameLimits(r, s) /\ r.warned \subseteq s.warned
  /\ DOMAIN s.opts \subseteq DOMAIN r.opts
  /\ \A f \in DOMAIN s.opts : s.opts[f] = r.opts[f]
  /\ \A f \in DOMAIN r.opts \ DOMAIN s.opts : f \in quiet \cup s.warned

\* Options that are ignored leave, and nothing else changes.
LEMMA IgnoreFacts ==
  ASSUME NEW r, Shaped(r), NEW fields
  PROVE  /\ Thinner(r, Ignore(r, fields), fields)
         /\ DOMAIN Ignore(r, fields).opts = DOMAIN r.opts \ fields
         /\ Ignore(r, fields).warned = r.warned
<1>1. Ignore(r, fields).opts = [f \in DOMAIN r.opts \ fields |-> r.opts[f]]
  BY DEF Shaped, Ignore, Restrict
<1>2. Shaped(Ignore(r, fields)) /\ SameLimits(r, Ignore(r, fields)) /\ Ignore(r, fields).warned = r.warned
  BY DEF Shaped, Ignore, SameLimits
<1> QED
  BY <1>1, <1>2 DEF Thinner

\* Options that are warned about leave, and each that was there has its warning.
LEMMA WarnFacts ==
  ASSUME NEW r, Shaped(r), NEW fields
  PROVE  /\ Thinner(r, Warn(r, fields), {})
         /\ DOMAIN Warn(r, fields).opts = DOMAIN r.opts \ fields
<1>1. /\ Thinner(r, Ignore(r, fields), fields)
      /\ DOMAIN Ignore(r, fields).opts = DOMAIN r.opts \ fields
      /\ Ignore(r, fields).warned = r.warned
  BY IgnoreFacts
<1> DEFINE i == Ignore(r, fields)
<1>2. /\ Warn(r, fields).opts = i.opts
      /\ Warn(r, fields).warned = r.warned \cup (fields \cap DOMAIN r.opts)
      /\ Shaped(Warn(r, fields)) /\ SameLimits(r, Warn(r, fields))
  <2> HIDE DEF i
  <2>1. Shaped(i) /\ SameLimits(r, i) /\ i.warned = r.warned
    BY <1>1 DEF Thinner, i
  <2>2. Warn(r, fields) = [i EXCEPT !.warned = @ \cup (fields \cap DOMAIN r.opts)]
    BY DEF Warn, i
  <2> QED
    BY <2>1, <2>2 DEF Shaped, SameLimits
<1> QED
  BY <1>1, <1>2 DEF Thinner

\* An option that is put in has its value, and the others have theirs.
LEMMA PutFacts ==
  ASSUME NEW r, Shaped(r), NEW field, NEW value
  PROVE  /\ Shaped(Put(r, field, value)) /\ SameLimits(r, Put(r, field, value))
         /\ Put(r, field, value).warned = r.warned
         /\ DOMAIN Put(r, field, value).opts = DOMAIN r.opts \cup {field}
         /\ Put(r, field, value).opts[field] = value
         /\ \A f \in DOMAIN r.opts \ {field} : Put(r, field, value).opts[f] = r.opts[f]
BY DEF Shaped, Put, SameLimits

\* Content that is dropped leaves the options alone.
LEMMA TakeFacts ==
  ASSUME NEW r, Shaped(r), NEW items, NEW kinds
  PROVE  /\ Shaped(Take(r, items, kinds)) /\ SameLimits(r, Take(r, items, kinds))
         /\ Take(r, items, kinds).warned = r.warned /\ Take(r, items, kinds).opts = r.opts
<1> DEFINE given == r.dropped \cup Ids(Select(items, Contents \ kinds))
<1>1. Take(r, items, kinds) = [r EXCEPT !.dropped = given]
  BY DEF Take
<1> HIDE DEF given
<1> QED
  BY <1>1 DEF Shaped, SameLimits

\* A body's system and messages leave the options alone.
WithBody(r, system, messages) == [r EXCEPT !.system = system, !.messages = messages]

\* The items that are sent are put in, and nothing else changes.
LEMMA BodyFacts ==
  ASSUME NEW r, Shaped(r), NEW system, NEW messages
  PROVE  /\ Shaped(WithBody(r, system, messages)) /\ SameLimits(r, WithBody(r, system, messages))
         /\ WithBody(r, system, messages).warned = r.warned /\ WithBody(r, system, messages).opts = r.opts
<1> DEFINE t == [r EXCEPT !.system = system]
           s == WithBody(r, system, messages)
<1>1. Shaped(t) /\ SameLimits(r, t) /\ t.warned = r.warned /\ t.opts = r.opts
  BY DEF Shaped, SameLimits
<1>2. s = [t EXCEPT !.messages = messages]
  BY DEF Shaped, WithBody
<1> HIDE DEF s, t
<1>3. Shaped(s) /\ SameLimits(t, s) /\ s.warned = t.warned /\ s.opts = t.opts
  BY <1>1, <1>2 DEF Shaped, SameLimits
<1> QED
  BY <1>1, <1>3 DEF SameLimits, s

\* What cannot be used leaves with a warning.
LEMMA WarnUnusableFacts ==
  ASSUME NEW r, Shaped(r)
  PROVE  Thinner(r, WarnUnusable(r), {})
BY WarnFacts DEF WarnUnusable

\* What is made thinner twice is made thinner.
LEMMA ThinnerTwice ==
  ASSUME NEW r, NEW s, NEW t, NEW quiet, NEW more, Thinner(r, s, quiet), Thinner(s, t, more)
  PROVE  Thinner(r, t, quiet \cup more)
BY DEF Thinner, SameLimits

\* What an encoder that refuses nothing and stays within the shapes is known by.
LEMMA EncodedFacts ==
  ASSUME NEW q
  PROVE  /\ Shaped(Encoded(q)) /\ Encoded(q).opts = q.opts /\ Encoded(q).max = q.max
         /\ Encoded(q).refused = "" /\ Encoded(q).budget = 0 /\ Encoded(q).warned = {}
BY DEF Encoded, Shaped

\* A request that an encoder cannot take is marked as such.
LEMMA RefusedFacts ==
  ASSUME NEW q, NEW why
  PROVE  Refused(q, why).refused = why
BY DEF Refused, Encoded

-----------------------------------------------------------------------------
(* Thinking of the Messages API. *)

Thinks(r) == OptionIs(r, "thinking", {"enabled"})
FitsLimits(r) ==
  /\ r.budget >= 1024 /\ r.budget < r.max
  /\ OptionIs(r, "temperature", {"one"}) /\ "top_k" \notin DOMAIN r.opts

\* f is in s as it was in r, or a warning of s names it.
Kept(r, s, f) == (f \in DOMAIN s.opts /\ s.opts[f] = r.opts[f]) \/ f \in s.warned

\* The budget is a number, whatever was asked for.
LEMMA BudgetIsNumber ==
  ASSUME NEW budget \in Nat, NEW effort, NEW max \in Nat
  PROVE  ThinkingBudget(budget, effort, max) \in Nat
<1>1. HalfOf(max) \in Nat
  BY DEF HalfOf
<1> QED
  BY <1>1 DEF ThinkingBudget

\* Thinking that is enabled fits its limits, and its change of the others has a warning.
LEMMA EnableThinkingFacts ==
  ASSUME NEW r, Shaped(r), r.max \in Nat, NEW n \in Nat, n >= 1024
  PROVE  LET s == EnableThinking(r, n) IN
         /\ Shaped(s) /\ s.refused = r.refused /\ FitsLimits(s) /\ Thinks(s) /\ r.warned \subseteq s.warned
         /\ \A f \in DOMAIN r.opts \ {"thinking"} : Kept(r, s, f)
<1> DEFINE raised == IF r.max > n THEN r ELSE [r EXCEPT !.max = n + 1, !.warned = @ \cup {"max"}]
           hot == IF OptionIs(raised, "temperature", {"one"}) THEN raised
                  ELSE [Put(raised, "temperature", "one") EXCEPT !.warned = @ \cup {"temperature"}]
           cool == Warn(hot, {"top_k"})
           s == EnableThinking(r, n)
<1>1. /\ Shaped(raised) /\ raised.refused = r.refused /\ raised.max > n /\ raised.opts = r.opts
      /\ r.warned \subseteq raised.warned
  <2>1. CASE r.max > n
    BY <2>1
  <2>2. CASE ~(r.max > n)
    <3>1. raised = [r EXCEPT !.max = n + 1, !.warned = @ \cup {"max"}]
      BY <2>2
    <3> DEFINE higher == n + 1
    <3>2. higher > n
      OBVIOUS
    <3> HIDE DEF raised, higher
    <3>3. Shaped(raised) /\ raised.max = higher
      BY <3>1 DEF Shaped, higher
    <3>4. raised.refused = r.refused /\ raised.opts = r.opts /\ raised.warned = r.warned \cup {"max"}
      BY <3>1 DEF Shaped
    <3> QED
      BY <3>2, <3>3, <3>4
  <2> QED
    BY <2>1, <2>2
<1> HIDE DEF raised
<1>2. /\ Shaped(hot) /\ SameLimits(raised, hot) /\ OptionIs(hot, "temperature", {"one"})
      /\ raised.warned \subseteq hot.warned
      /\ DOMAIN raised.opts \subseteq DOMAIN hot.opts
      /\ \A f \in DOMAIN raised.opts : hot.opts[f] = raised.opts[f] \/ f \in hot.warned
  <2>1. CASE OptionIs(raised, "temperature", {"one"})
    BY <1>1, <2>1 DEF SameLimits
  <2>2. CASE ~OptionIs(raised, "temperature", {"one"})
    <3> DEFINE p == Put(raised, "temperature", "one")
    <3>1. /\ Shaped(p) /\ SameLimits(raised, p) /\ p.warned = raised.warned
          /\ DOMAIN p.opts = DOMAIN raised.opts \cup {"temperature"} /\ p.opts["temperature"] = "one"
          /\ \A f \in DOMAIN raised.opts \ {"temperature"} : p.opts[f] = raised.opts[f]
      BY <1>1, PutFacts
    <3>2. hot = [p EXCEPT !.warned = @ \cup {"temperature"}]
      BY <2>2
    <3> HIDE DEF p, hot
    <3>3. /\ Shaped(hot) /\ SameLimits(p, hot) /\ hot.opts = p.opts /\ hot.warned = p.warned \cup {"temperature"}
      BY <3>1, <3>2 DEF Shaped, SameLimits
    <3> QED
      BY <3>1, <3>3 DEF SameLimits, OptionIs
  <2> QED
    BY <2>1, <2>2
<1> HIDE DEF hot
<1>3. Thinner(hot, cool, {}) /\ DOMAIN cool.opts = DOMAIN hot.opts \ {"top_k"}
  BY <1>2, WarnFacts
<1>4. s = [Put(cool, "thinking", "enabled") EXCEPT !.budget = n]
  BY DEF EnableThinking, cool, hot, raised
<1> HIDE DEF cool, s
<1>5. /\ Shaped(s) /\ s.refused = cool.refused /\ s.max = cool.max /\ s.budget = n /\ s.warned = cool.warned
      /\ DOMAIN s.opts = DOMAIN cool.opts \cup {"thinking"} /\ s.opts["thinking"] = "enabled"
      /\ \A f \in DOMAIN cool.opts \ {"thinking"} : s.opts[f] = cool.opts[f]
  <2> DEFINE p == Put(cool, "thinking", "enabled")
  <2>1. /\ Shaped(p) /\ SameLimits(cool, p) /\ p.warned = cool.warned
        /\ DOMAIN p.opts = DOMAIN cool.opts \cup {"thinking"} /\ p.opts["thinking"] = "enabled"
        /\ \A f \in DOMAIN cool.opts \ {"thinking"} : p.opts[f] = cool.opts[f]
    BY <1>3, PutFacts DEF Thinner
  <2>2. s = [p EXCEPT !.budget = n]
    BY <1>4
  <2> HIDE DEF p
  <2> QED
    BY <2>1, <2>2 DEF Shaped, SameLimits
<1>6. Thinks(s)
  BY <1>5 DEF Thinks, OptionIs
<1>7. FitsLimits(s)
  BY <1>1, <1>2, <1>3, <1>5 DEF FitsLimits, OptionIs, Thinner, SameLimits
<1>8. \A f \in DOMAIN r.opts \ {"thinking"} : Kept(r, s, f)
  BY <1>1, <1>2, <1>3, <1>5 DEF Kept, Thinner, SameLimits
<1>9. s.refused = r.refused /\ r.warned \subseteq s.warned
  BY <1>1, <1>2, <1>3, <1>5 DEF Thinner, SameLimits
<1> QED
  BY <1>5, <1>6, <1>7, <1>8, <1>9 DEF s

\* What a request is before reasoning is applied.
Plain(r) == Shaped(r) /\ r.max \in Nat /\ r.refused = "" /\ "thinking" \notin DOMAIN r.opts

\* Reasoning that is not refused fits its limits when it is enabled, and keeps all the
\* options but an effort that thinking stands for.
LEMMA ApplyReasoningFacts ==
  ASSUME NEW r, Plain(r),
         NEW budget \in Nat, NEW meta
  PROVE  LET s == ApplyReasoning(r, budget, meta) IN
         /\ Shaped(s) /\ s.refused \in {"", "unsupported"}
         /\ s.refused = "" =>
              /\ Thinks(s) => FitsLimits(s)
              /\ \A f \in DOMAIN r.opts : Kept(r, s, f) \/ (f = "effort" /\ "thinking" \in DOMAIN s.opts)
         /\ r.warned \subseteq s.warned
<1> DEFINE s == ApplyReasoning(r, budget, meta)
           n == ThinkingBudget(budget, Effort(r), r.max)
           e == EnableThinking(r, n)
<1>0. Shaped(r) /\ r.max \in Nat
  BY DEF Plain
<1>1. CASE budget = 0 /\ "effort" \notin DOMAIN r.opts
  <2>1. s = r
    BY <1>1 DEF ApplyReasoning
  <2> QED
    BY <2>1 DEF Plain, Thinks, OptionIs, Kept
<1>2. CASE ~(budget = 0 /\ "effort" \notin DOMAIN r.opts) /\ budget = 0 /\ "adaptive" \in meta
  <2>1. s = Put(r, "thinking", "adaptive")
    BY <1>2 DEF ApplyReasoning
  <2> HIDE DEF s
  <2>2. /\ Shaped(s) /\ SameLimits(r, s) /\ s.warned = r.warned
        /\ DOMAIN s.opts = DOMAIN r.opts \cup {"thinking"} /\ s.opts["thinking"] = "adaptive"
        /\ \A f \in DOMAIN r.opts \ {"thinking"} : s.opts[f] = r.opts[f]
    <3> DEFINE p == Put(r, "thinking", "adaptive")
    <3>1. /\ Shaped(p) /\ SameLimits(r, p) /\ p.warned = r.warned
          /\ DOMAIN p.opts = DOMAIN r.opts \cup {"thinking"} /\ p.opts["thinking"] = "adaptive"
          /\ \A f \in DOMAIN r.opts \ {"thinking"} : p.opts[f] = r.opts[f]
      BY <1>0, PutFacts
    <3> QED
      BY <2>1, <3>1
  <2>3. ~Thinks(s)
    BY <2>2 DEF Thinks, OptionIs
  <2>4. \A f \in DOMAIN r.opts : Kept(r, s, f)
    BY <2>2 DEF Kept, Plain
  <2> QED
    BY <2>2, <2>3, <2>4 DEF Plain, SameLimits, s
<1>3. CASE ~(budget = 0 /\ "effort" \notin DOMAIN r.opts) /\ ~(budget = 0 /\ "adaptive" \in meta)
  <2>1. s = IF n < 1024 THEN [r EXCEPT !.refused = "unsupported"] ELSE Ignore(e, {"effort"})
    BY <1>3 DEF ApplyReasoning
  <2>2. n \in Nat /\ r.max \in Nat
    BY <1>0, BudgetIsNumber
  <2> HIDE DEF n, s
  <2>3. CASE n < 1024
    <3>1. Shaped(s) /\ s.refused = "unsupported" /\ s.warned = r.warned
      BY <1>0, <2>1, <2>3 DEF Shaped
    <3> QED
      BY <3>1 DEF s
  <2>4. CASE ~(n < 1024)
    <3>1. n >= 1024
      BY <2>2, <2>4
    <3>2. /\ Shaped(e) /\ e.refused = r.refused /\ FitsLimits(e) /\ Thinks(e) /\ r.warned \subseteq e.warned
          /\ \A f \in DOMAIN r.opts \ {"thinking"} : Kept(r, e, f)
      BY <1>0, <2>2, <3>1, EnableThinkingFacts
    <3> HIDE DEF e
    <3>3. Thinner(e, s, {"effort"}) /\ DOMAIN s.opts = DOMAIN e.opts \ {"effort"} /\ s.warned = e.warned
      BY <2>1, <2>4, <3>2, IgnoreFacts
    <3>4. FitsLimits(s) /\ Thinks(s)
      BY <3>2, <3>3 DEF FitsLimits, Thinks, OptionIs, Thinner, SameLimits
    <3>5. \A f \in DOMAIN r.opts : Kept(r, s, f) \/ (f = "effort" /\ "thinking" \in DOMAIN s.opts)
      BY <3>2, <3>3, <3>4 DEF Kept, Thinner, Thinks, OptionIs, Plain
    <3>6. Shaped(s) /\ s.refused = "" /\ r.warned \subseteq s.warned
      BY <3>2, <3>3 DEF Plain, Thinner, SameLimits
    <3> QED
      BY <3>4, <3>5, <3>6 DEF s
  <2> QED
    BY <2>3, <2>4
<1> QED
  BY <1>1, <1>2, <1>3

\* A format is kept, warned about or the text that there is without one, or it refuses.
LEMMA ApplyResponseFormatFacts ==
  ASSUME NEW r, Shaped(r), NEW meta
  PROVE  LET s == ApplyResponseFormat(r, meta) IN
         \/ Shaped(s) /\ s.refused = "unsupported"
         \/ /\ Thinner(r, s, {f \in {"format"} : OptionIs(r, f, {"text"})})
            /\ DOMAIN r.opts \ {"format"} \subseteq DOMAIN s.opts
<1> DEFINE s == ApplyResponseFormat(r, meta)
           quiet == {f \in {"format"} : OptionIs(r, f, {"text"})}
<1>1. /\ Thinner(r, Ignore(r, {"format"}), {"format"}) /\ Thinner(r, Warn(r, {"format"}), {}) /\ Thinner(r, r, quiet)
      /\ DOMAIN Ignore(r, {"format"}).opts = DOMAIN r.opts \ {"format"}
      /\ DOMAIN Warn(r, {"format"}).opts = DOMAIN r.opts \ {"format"}
  BY IgnoreFacts, WarnFacts DEF Thinner, SameLimits
<1>2. CASE OptionIs(r, "format", {"text"})
  <2>1. s = Ignore(r, {"format"})
    BY <1>2 DEF ApplyResponseFormat, OptionIs
  <2>2. "format" \in quiet
    BY <1>2
  <2> HIDE DEF quiet, s
  <2> QED
    BY <1>1, <2>1, <2>2 DEF Thinner, quiet, s
<1>3. CASE OptionIs(r, "format", {"json", "json_schema", "unknown"}) /\ "format" \notin meta
  <2>1. s = Warn(r, {"format"})
    BY <1>3 DEF ApplyResponseFormat, OptionIs
  <2> HIDE DEF quiet, s
  <2> QED
    BY <1>1, <2>1 DEF Thinner, quiet, s
<1>4. CASE OptionIs(r, "format", {"unknown"}) /\ "format" \in meta
  <2>1. s = [r EXCEPT !.refused = "unsupported"]
    BY <1>4 DEF ApplyResponseFormat, OptionIs
  <2> HIDE DEF s
  <2>2. Shaped(s) /\ s.refused = "unsupported"
    BY <2>1 DEF Shaped
  <2> QED
    BY <2>2 DEF s
<1>5. CASE /\ ~OptionIs(r, "format", {"text"})
           /\ ~(OptionIs(r, "format", {"json", "json_schema", "unknown"}) /\ "format" \notin meta)
           /\ ~(OptionIs(r, "format", {"unknown"}) /\ "format" \in meta)
  <2>1. s = r
    BY <1>5 DEF ApplyResponseFormat
  <2> HIDE DEF quiet, s
  <2> QED
    BY <1>1, <2>1 DEF quiet, s
<1> QED
  BY <1>2, <1>3, <1>4, <1>5

\* At Bedrock the model decides how much it thinks; only the effort is put over.
LEMMA BedrockThinkingFacts ==
  ASSUME NEW r, Shaped(r)
  PROVE  LET s == BedrockThinking(r) IN
         /\ ~Thinks(s) /\ s.refused = r.refused
         /\ \A f \in DOMAIN r.opts \ {"thinking"} : Kept(r, s, f) \/ (f = "effort" /\ "thinking" \in DOMAIN s.opts)
         /\ r.warned \subseteq s.warned /\ DOMAIN r.opts \subseteq DOMAIN s.opts
<1> DEFINE s == BedrockThinking(r)
<1>1. CASE ~Thinks(r)
  <2>1. s = r
    BY <1>1 DEF Thinks, BedrockThinking
  <2> QED
    BY <1>1, <2>1 DEF Kept
<1>2. CASE Thinks(r)
  <2> DEFINE p == Put(r, "thinking", "adaptive")
             e == Put(p, "effort", "high")
  <2>1. /\ Shaped(p) /\ SameLimits(r, p) /\ p.warned = r.warned
        /\ DOMAIN p.opts = DOMAIN r.opts \cup {"thinking"} /\ p.opts["thinking"] = "adaptive"
        /\ \A f \in DOMAIN r.opts \ {"thinking"} : p.opts[f] = r.opts[f]
    BY PutFacts
  <2> HIDE DEF p
  <2>2. /\ Shaped(e) /\ SameLimits(p, e) /\ e.warned = p.warned
        /\ DOMAIN e.opts = DOMAIN p.opts \cup {"effort"}
        /\ \A f \in DOMAIN p.opts \ {"effort"} : e.opts[f] = p.opts[f]
    BY <2>1, PutFacts
  <2>3. s = [e EXCEPT !.budget = 0]
    BY <1>2 DEF Thinks, BedrockThinking, e, p
  <2> HIDE DEF e, s
  <2>4. s.opts = e.opts /\ s.refused = e.refused /\ s.warned = e.warned
    BY <2>2, <2>3 DEF Shaped
  <2>5. ~Thinks(s) /\ s.refused = r.refused /\ r.warned \subseteq s.warned /\ DOMAIN r.opts \subseteq DOMAIN s.opts
    BY <2>1, <2>2, <2>4 DEF Thinks, OptionIs, SameLimits
  <2>6. \A f \in DOMAIN r.opts \ {"thinking"} : Kept(r, s, f) \/ (f = "effort" /\ "thinking" \in DOMAIN s.opts)
    BY <2>1, <2>2, <2>4 DEF Kept
  <2> QED
    BY <2>5, <2>6 DEF s
<1> QED
  BY <1>1, <1>2

\* What the Messages API of a provider gets of a request's options.
LEMMA MessagesFacts ==
  ASSUME NEW p \in {"anthropic", "openrouter_messages", "bedrock_messages"}, NEW q, NEW meta,
         q.max \in Nat, q.budget \in Nat, "thinking" \notin DOMAIN q.opts
  PROVE  LET w == EncodeMessages(p, q, meta) IN
         w.refused \notin {"unsupported", "error"} =>
           /\ Thinks(w) => FitsLimits(w)
           /\ \A f \in DOMAIN q.opts \cap ApiFields(p) :
                \/ Kept(q, w, f)
                \/ f = "effort" /\ "thinking" \in DOMAIN w.opts
                \/ f = "cache" /\ q.opts[f] = "off"
                \/ f = "format" /\ q.opts[f] = "text"
<1> DEFINE own == {"anthropic"} \cup IF p = "openrouter_messages" THEN {"openrouter"} ELSE {}
           foreign == {"user", "parallel"} \cup (ExtensionFields \ own)
           known == Ignore(Encoded(q), foreign)
           parts == WarnUnusable(known)
           off == {f \in {"cache"} : OptionIs(parts, f, {"off"})}
           cached == Ignore(parts, off)
           seeded == Warn(cached, {"seed"})
           a == ApplyReasoning(seeded, q.budget, meta)
           r == ApplyResponseFormat(a, meta)
           systems == {i \in DOMAIN q.messages : q.messages[i].role = "system"}
           system == Picked(q.messages, systems)
           others == Picked(q.messages, DOMAIN q.messages \ systems)
           contents == FlattenSeq([i \in DOMAIN others |-> others[i].content])
           taken == Take(r, contents, MessagesKinds)
           apart == Select(q.instructions, {"text", "reasoning"})
                      \o FlattenSeq([i \in DOMAIN system |-> Select(system[i].content, {"text", "reasoning"})])
           inOrder == [i \in DOMAIN others |-> AnthropicMessage(others[i])]
           sentAs == WithBody(taken, apart, inOrder)
           w == EncodeMessages(p, q, meta)
<1>1. /\ Shaped(Encoded(q)) /\ Encoded(q).opts = q.opts /\ Encoded(q).max = q.max
      /\ Encoded(q).refused = "" /\ Encoded(q).budget = 0 /\ Encoded(q).warned = {}
  BY EncodedFacts
<1>2. w = IF q.max = 0 THEN Refused(q, "unsupported")
          ELSE IF OptionIs(r, "tool_choice", {"unknown"}) /\ sentAs.refused = "" THEN Refused(q, "error")
          ELSE IF p = "bedrock_messages" THEN BedrockThinking(sentAs) ELSE sentAs
  BY DEF EncodeMessages, WithBody
<1>3. Thinner(Encoded(q), known, foreign)
  BY <1>1, IgnoreFacts
<1>4. \A f \in foreign : f \notin ApiFields(p)
  BY DEF ExtensionFields, ApiFields, Family
<1> HIDE DEF foreign, known
<1>5. Thinner(known, parts, {})
  BY <1>3, WarnUnusableFacts DEF Thinner
<1> HIDE DEF parts
<1>6. Thinner(parts, cached, off)
  BY <1>5, IgnoreFacts DEF Thinner
<1> HIDE DEF off, cached
<1>7. Thinner(cached, seeded, {})
  BY <1>6, WarnFacts DEF Thinner
<1> HIDE DEF seeded
<1>8. /\ Thinner(Encoded(q), parts, foreign \cup {})
      /\ Thinner(Encoded(q), cached, (foreign \cup {}) \cup off)
      /\ Thinner(Encoded(q), seeded, ((foreign \cup {}) \cup off) \cup {})
  <2>1. Thinner(Encoded(q), parts, foreign \cup {})
    BY <1>3, <1>5, ThinnerTwice
  <2>2. Thinner(Encoded(q), cached, (foreign \cup {}) \cup off)
    BY <2>1, <1>6, ThinnerTwice
  <2> QED
    BY <2>1, <2>2, <1>7, ThinnerTwice
<1>9. \A f \in off : f = "cache" /\ f \in DOMAIN q.opts /\ q.opts[f] = "off"
  BY <1>1, <1>8 DEF off, Thinner, OptionIs
<1>10. \A f \in DOMAIN q.opts \cap ApiFields(p) : Kept(q, seeded, f) \/ (f = "cache" /\ q.opts[f] = "off")
  <2>1. \A f \in DOMAIN q.opts : f \in DOMAIN seeded.opts \/ f \in foreign \/ f \in off \/ f \in seeded.warned
    BY <1>1, <1>8 DEF Thinner
  <2>2. \A f \in DOMAIN seeded.opts : seeded.opts[f] = q.opts[f]
    BY <1>1, <1>8 DEF Thinner
  <2> QED
    BY <1>4, <1>9, <2>1, <2>2 DEF Kept
<1>11. Plain(seeded) /\ DOMAIN seeded.opts \subseteq DOMAIN q.opts
  BY <1>1, <1>8 DEF Plain, Thinner, SameLimits
<1>12. /\ Shaped(a) /\ a.refused \in {"", "unsupported"}
       /\ a.refused = "" =>
             /\ Thinks(a) => FitsLimits(a)
             /\ \A f \in DOMAIN seeded.opts : Kept(seeded, a, f) \/ (f = "effort" /\ "thinking" \in DOMAIN a.opts)
       /\ seeded.warned \subseteq a.warned
  BY <1>11, ApplyReasoningFacts
<1> HIDE DEF a
<1>13. \/ Shaped(r) /\ r.refused = "unsupported"
       \/ /\ Thinner(a, r, {f \in {"format"} : OptionIs(a, f, {"text"})})
          /\ DOMAIN a.opts \ {"format"} \subseteq DOMAIN r.opts
  BY <1>12, ApplyResponseFormatFacts
<1>14. Shaped(r)
  BY <1>13 DEF Thinner
<1> HIDE DEF r
<1>15. Shaped(taken) /\ SameLimits(r, taken) /\ taken.warned = r.warned /\ taken.opts = r.opts
  BY <1>14, TakeFacts
<1> HIDE DEF taken, apart, inOrder
<1>16. Shaped(sentAs) /\ SameLimits(taken, sentAs) /\ sentAs.warned = taken.warned /\ sentAs.opts = taken.opts
  BY <1>15, BodyFacts
<1> HIDE DEF sentAs
<1>17. SUFFICES ASSUME w.refused \notin {"unsupported", "error"}
                PROVE  /\ Thinks(w) => FitsLimits(w)
                       /\ \A f \in DOMAIN q.opts \cap ApiFields(p) :
                            \/ Kept(q, w, f)
                            \/ f = "effort" /\ "thinking" \in DOMAIN w.opts
                            \/ f = "cache" /\ q.opts[f] = "off"
                            \/ f = "format" /\ q.opts[f] = "text"
  OBVIOUS
<1> DEFINE b == BedrockThinking(sentAs)
<1>18. /\ ~Thinks(b) /\ b.refused = sentAs.refused
       /\ \A f \in DOMAIN sentAs.opts \ {"thinking"} :
            Kept(sentAs, b, f) \/ (f = "effort" /\ "thinking" \in DOMAIN b.opts)
       /\ sentAs.warned \subseteq b.warned /\ DOMAIN sentAs.opts \subseteq DOMAIN b.opts
  BY <1>16, BedrockThinkingFacts
<1> HIDE DEF b
<1>19. w \in {b, sentAs}
  <2>1. Refused(q, "unsupported").refused = "unsupported" /\ Refused(q, "error").refused = "error"
    BY RefusedFacts
  <2> HIDE DEF w
  <2> QED
    BY <1>2, <1>17, <2>1 DEF b
<1> HIDE DEF w
<1>20. r.refused # "unsupported"
  BY <1>15, <1>16, <1>17, <1>18, <1>19 DEF SameLimits
<1>21. /\ Thinner(a, r, {f \in {"format"} : OptionIs(a, f, {"text"})}) /\ a.refused = ""
       /\ DOMAIN a.opts \ {"format"} \subseteq DOMAIN r.opts
  BY <1>12, <1>13, <1>20 DEF Thinner, SameLimits
<1>22. Thinks(sentAs) => FitsLimits(sentAs)
  <2>1. sentAs.opts = r.opts /\ sentAs.max = a.max /\ sentAs.budget = a.budget
    BY <1>15, <1>16, <1>21 DEF Thinner, SameLimits
  <2>2. \A f \in {"thinking", "temperature", "top_k"} :
          (f \in DOMAIN r.opts <=> f \in DOMAIN a.opts) /\ (f \in DOMAIN r.opts => r.opts[f] = a.opts[f])
    BY <1>21 DEF Thinner
  <2>3. Thinks(a) => FitsLimits(a)
    BY <1>12, <1>21
  <2> QED
    BY <2>1, <2>2, <2>3 DEF Thinks, FitsLimits, OptionIs
<1>23. Thinks(w) => FitsLimits(w)
  BY <1>18, <1>19, <1>22
<1>24. ASSUME NEW f \in DOMAIN q.opts \cap ApiFields(p)
       PROVE  \/ Kept(q, w, f)
              \/ f = "effort" /\ "thinking" \in DOMAIN w.opts
              \/ f = "cache" /\ q.opts[f] = "off"
              \/ f = "format" /\ q.opts[f] = "text"
  <2>1. f # "thinking" /\ (Kept(q, seeded, f) \/ (f = "cache" /\ q.opts[f] = "off"))
    BY <1>10
  <2>2. CASE f \in seeded.warned
    BY <1>12, <1>15, <1>16, <1>18, <1>19, <1>21, <2>2 DEF Kept, Thinner
  <2>3. CASE f \in DOMAIN seeded.opts /\ seeded.opts[f] = q.opts[f]
    <3>1. Kept(q, a, f) \/ (f = "effort" /\ "thinking" \in DOMAIN a.opts)
      BY <1>12, <1>21, <2>3 DEF Kept
    <3>2. \/ Kept(q, sentAs, f)
          \/ f = "effort" /\ "thinking" \in DOMAIN sentAs.opts
          \/ f = "format" /\ q.opts[f] = "text"
      <4>1. CASE Kept(q, a, f)
        BY <1>15, <1>16, <1>21, <4>1 DEF Kept, Thinner, OptionIs
      <4>2. CASE f = "effort" /\ "thinking" \in DOMAIN a.opts
        BY <1>15, <1>16, <1>21, <4>2 DEF Kept, Thinner, OptionIs
      <4> QED
        BY <3>1, <4>1, <4>2
    <3>3. CASE w = sentAs
      BY <3>2, <3>3
    <3>4. CASE w = b
      BY <1>18, <2>1, <3>2, <3>4 DEF Kept
    <3> QED
      BY <1>19, <3>3, <3>4
  <2> QED
    BY <2>1, <2>2, <2>3 DEF Kept
<1> QED
  BY <1>23, <1>24

-----------------------------------------------------------------------------
(* Chat Completions. *)

\* Whether tools are called in parallel is always said.
LEMMA ParallelFacts ==
  ASSUME NEW r, Shaped(r)
  PROVE  LET s == IF "parallel" \in DOMAIN r.opts THEN r ELSE Put(r, "parallel", "no") IN
         /\ Shaped(s) /\ SameLimits(r, s) /\ s.warned = r.warned
         /\ DOMAIN s.opts = DOMAIN r.opts \cup {"parallel"}
         /\ \A f \in DOMAIN r.opts : s.opts[f] = r.opts[f]
<1> DEFINE p == Put(r, "parallel", "no")
<1>1. /\ Shaped(p) /\ SameLimits(r, p) /\ p.warned = r.warned
      /\ DOMAIN p.opts = DOMAIN r.opts \cup {"parallel"}
      /\ \A f \in DOMAIN r.opts \ {"parallel"} : p.opts[f] = r.opts[f]
  BY PutFacts
<1> HIDE DEF p
<1> QED
  BY <1>1 DEF SameLimits, p

\* Messages that are set leave the options alone.
LEMMA MessagesPutFacts ==
  ASSUME NEW r, Shaped(r), NEW messages
  PROVE  LET s == [r EXCEPT !.messages = messages]
         IN  Shaped(s) /\ SameLimits(r, s) /\ s.warned = r.warned /\ s.opts = r.opts
BY DEF Shaped, SameLimits

\* What Chat Completions of a provider gets of a request's options.
LEMMA ChatFacts ==
  ASSUME NEW p \in {"openai_chat", "openrouter_chat"}, NEW q
  PROVE  LET w == EncodeChat(p, q) IN
         \A f \in DOMAIN q.opts \cap ApiFields(p) :
           \/ Kept(q, w, f)
           \/ f = "tool_choice" /\ (q.opts[f] = "unknown" \/ "tools" \notin DOMAIN w.opts)
<1> DEFINE foreign == {"top_k", "seed", "effort", "cache"}
                        \cup (ExtensionFields \ IF p = "openrouter_chat" THEN {"openrouter"} ELSE {})
           parts == Ignore(Encoded(q), foreign)
           formed == Warn(parts, {f \in {"format"} : OptionIs(parts, f, {"unknown"})})
           r == WarnUnusable(formed)
           quiet == {f \in {"tool_choice"} : \/ OptionIs(r, f, {"unknown"})
                                             \/ OptionIs(r, f, {"none"}) /\ "tools" \notin DOMAIN r.opts}
           called == IF \/ OptionIs(r, "tool_choice", {"unknown"})
                        \/ OptionIs(r, "tool_choice", {"none"}) /\ "tools" \notin DOMAIN r.opts
                       THEN Ignore(r, {"tool_choice"}) ELSE r
           parallel == IF "parallel" \in DOMAIN called.opts THEN called ELSE Put(called, "parallel", "no")
           contents == FlattenSeq([i \in DOMAIN q.messages |-> q.messages[i].content])
           system == [i \in DOMAIN q.instructions |-> Wire("system", Select(<<q.instructions[i]>>, {"text"}))]
           taken == Take(parallel, contents, ChatKinds)
           twice == Take(taken, q.instructions, {"text"})
           inOrder == system \o FlattenSeq([i \in DOMAIN q.messages |-> ChatMessages(q.messages[i])])
           w == EncodeChat(p, q)
<1>1. w = [twice EXCEPT !.messages = inOrder]
  BY DEF EncodeChat
<1>2. Shaped(Encoded(q)) /\ Encoded(q).opts = q.opts
  BY EncodedFacts
<1>3. \A f \in foreign : f \notin ApiFields(p)
  BY DEF ExtensionFields, ApiFields, Family
<1> HIDE DEF foreign
<1>4. Thinner(Encoded(q), parts, foreign)
  BY <1>2, IgnoreFacts
<1> HIDE DEF parts
<1>5. Thinner(parts, formed, {})
  BY <1>4, WarnFacts DEF Thinner
<1> HIDE DEF formed
<1>6. Thinner(formed, r, {})
  BY <1>5, WarnUnusableFacts DEF Thinner
<1> HIDE DEF r
<1>7. Thinner(Encoded(q), r, (foreign \cup {}) \cup {})
  <2>1. Thinner(Encoded(q), formed, foreign \cup {})
    BY <1>4, <1>5, ThinnerTwice
  <2> QED
    BY <2>1, <1>6, ThinnerTwice
<1>8. Thinner(r, called, quiet)
  <2>1. Thinner(r, Ignore(r, {"tool_choice"}), {"tool_choice"}) /\ Thinner(r, r, {})
    BY <1>7, IgnoreFacts DEF Thinner, SameLimits
  <2>2. called = r \/ (called = Ignore(r, {"tool_choice"}) /\ "tool_choice" \in quiet)
    BY DEF OptionIs
  <2> HIDE DEF quiet, called
  <2> QED
    BY <2>1, <2>2 DEF Thinner
<1> HIDE DEF called
<1>9. /\ Shaped(parallel) /\ parallel.warned = called.warned
      /\ DOMAIN parallel.opts = DOMAIN called.opts \cup {"parallel"}
      /\ \A f \in DOMAIN called.opts : parallel.opts[f] = called.opts[f]
  BY <1>8, ParallelFacts DEF Thinner
<1> HIDE DEF parallel, contents, inOrder
<1>10. Shaped(taken) /\ taken.warned = parallel.warned /\ taken.opts = parallel.opts
  BY <1>9, TakeFacts
<1> HIDE DEF taken
<1>11. Shaped(twice) /\ twice.warned = taken.warned /\ twice.opts = taken.opts
  BY <1>10, TakeFacts
<1> HIDE DEF twice
<1>12. w.warned = twice.warned /\ w.opts = twice.opts
  BY <1>1, <1>11, MessagesPutFacts
<1> HIDE DEF w
<1>13. ASSUME NEW f \in DOMAIN q.opts \cap ApiFields(p)
       PROVE  \/ Kept(q, w, f)
              \/ f = "tool_choice" /\ (q.opts[f] = "unknown" \/ "tools" \notin DOMAIN w.opts)
  <2>1. (f \in DOMAIN r.opts /\ r.opts[f] = q.opts[f]) \/ f \in r.warned
    BY <1>2, <1>3, <1>7 DEF Thinner
  <2>2. w.warned = called.warned /\ r.warned \subseteq w.warned
    BY <1>8, <1>9, <1>10, <1>11, <1>12 DEF Thinner
  <2>3. CASE f \in DOMAIN called.opts
    BY <1>2, <1>7, <1>8, <1>9, <1>10, <1>11, <1>12, <2>3 DEF Kept, Thinner
  <2>4. CASE f \in DOMAIN r.opts \ DOMAIN called.opts /\ f \notin called.warned
    <3>1. f = "tool_choice" /\ (r.opts[f] = "unknown" \/ "tools" \notin DOMAIN r.opts)
      BY <1>8, <2>4 DEF Thinner, quiet, OptionIs
    <3>2. "tools" \in DOMAIN w.opts => "tools" \in DOMAIN r.opts
      BY <1>8, <1>9, <1>10, <1>11, <1>12 DEF Thinner
    <3> QED
      BY <1>2, <1>7, <2>4, <3>1, <3>2 DEF Thinner
  <2> QED
    BY <2>1, <2>2, <2>3, <2>4 DEF Kept
<1> QED
  BY <1>13 DEF w

-----------------------------------------------------------------------------
(* Responses. *)

\* What Bedrock Mantle and Codex change about a body.
LEMMA MutateBodyFacts ==
  ASSUME NEW r, Shaped(r), NEW p \in {"openai_responses", "openrouter_responses", "bedrock_responses", "codex"}
  PROVE  LET s == MutateBody(p, r) IN
         /\ r.warned \subseteq s.warned
         /\ \A f \in DOMAIN r.opts : Kept(r, s, f) \/ (p = "codex" /\ f \in {"temperature", "top_p", "top_k", "store"})
<1> DEFINE s == MutateBody(p, r)
           sampling == {"temperature", "top_p", "top_k"}
<1>1. CASE p = "codex"
  <2> DEFINE told == Warn(r, {"previous"})
             cut == Ignore(told, sampling)
             put == Put(cut, "store", "no")
  <2>1. s = [put EXCEPT !.max = 0]
    BY <1>1 DEF MutateBody, MutateCodexBody
  <2>2. Thinner(r, told, {})
    BY WarnFacts
  <2> HIDE DEF told
  <2>3. Thinner(told, cut, sampling) /\ cut.warned = told.warned
    BY <2>2, IgnoreFacts DEF Thinner
  <2> HIDE DEF cut
  <2>4. /\ Shaped(put) /\ put.warned = cut.warned /\ DOMAIN put.opts = DOMAIN cut.opts \cup {"store"}
        /\ \A f \in DOMAIN cut.opts \ {"store"} : put.opts[f] = cut.opts[f]
    BY <2>3, PutFacts DEF Thinner
  <2> HIDE DEF put, s
  <2>5. s.warned = put.warned /\ s.opts = put.opts
    BY <2>1, <2>4 DEF Shaped
  <2>6. \A f \in DOMAIN r.opts : Kept(r, s, f) \/ f \in sampling \cup {"store"}
    BY <2>2, <2>3, <2>4, <2>5 DEF Thinner, Kept
  <2> QED
    BY <1>1, <2>2, <2>3, <2>4, <2>5, <2>6 DEF Thinner, s
<1>2. CASE p = "bedrock_responses" /\ "tool_choice" \in DOMAIN r.opts /\ r.opts["tool_choice"] # "auto"
  <2> DEFINE told == Warn(r, {"tool_choice"})
             put == Put(told, "tool_choice", "auto")
  <2>1. s = put
    BY <1>2 DEF MutateBody, BedrockBodyMutator
  <2>2. Thinner(r, told, {}) /\ DOMAIN told.opts = DOMAIN r.opts \ {"tool_choice"}
    BY WarnFacts
  <2> HIDE DEF told
  <2>3. /\ Shaped(put) /\ put.warned = told.warned /\ DOMAIN put.opts = DOMAIN told.opts \cup {"tool_choice"}
        /\ \A f \in DOMAIN told.opts \ {"tool_choice"} : put.opts[f] = told.opts[f]
    BY <2>2, PutFacts DEF Thinner
  <2> HIDE DEF put, s
  <2> QED
    BY <2>1, <2>2, <2>3 DEF Thinner, Kept, s
<1>3. CASE p # "codex" /\ ~(p = "bedrock_responses" /\ "tool_choice" \in DOMAIN r.opts /\ r.opts["tool_choice"] # "auto")
  <2>1. s = r
    BY <1>3 DEF MutateBody, BedrockBodyMutator
  <2> HIDE DEF s
  <2> QED
    BY <2>1 DEF Kept, s
<1> QED
  BY <1>1, <1>2, <1>3

\* What the Responses API of a provider gets of a request's options.
LEMMA ResponsesFacts ==
  ASSUME NEW p \in {"openai_responses", "openrouter_responses", "bedrock_responses", "codex"}, NEW q
  PROVE  LET w == EncodeResponses(p, q) IN
         w.refused # "error" =>
           \A f \in DOMAIN q.opts \cap ApiFields(p) :
             \/ Kept(q, w, f)
             \/ f = "tool_choice" /\ q.opts[f] = "unknown"
             \/ f = "cache" /\ q.opts[f] \in {"on", "off"}
             \/ p = "codex" /\ f \in {"temperature", "top_p", "top_k", "store"}
<1> DEFINE own == CASE p = "openrouter_responses" -> {"openrouter"} [] p = "codex" -> {"codex"} [] OTHER -> {}
           foreign == {"stop", "seed"} \cup (ExtensionFields \ ({"previous", "store", "prompt_cache_key"} \cup own))
           parts == Ignore(Encoded(q), foreign)
           formed == Warn(parts, {f \in {"format"} : OptionIs(parts, f, {"unknown"})})
           r == WarnUnusable(formed)
           quiet == {f \in {"cache"} : OptionIs(r, f, {"on", "off"})}
                      \cup {f \in {"tool_choice"} : OptionIs(r, f, {"unknown"})}
           known == Ignore(r, quiet)
           parallel == IF "parallel" \in DOMAIN known.opts THEN known ELSE Put(known, "parallel", "no")
           contents == FlattenSeq([i \in DOMAIN q.messages |-> q.messages[i].content])
           taken == Take(parallel, contents, ResponsesKinds)
           twice == Take(taken, q.instructions, {"text"})
           apart == Select(q.instructions, {"text"})
           inOrder == FlattenSeq([i \in DOMAIN q.messages |-> ResponsesItems(q.messages[i])])
           body1 == WithBody(twice, apart, inOrder)
           w == EncodeResponses(p, q)
<1>1. w.refused # "error" => w = MutateBody(p, body1)
  <2>1. w = IF p = "codex" /\ OptionIs(Encoded(q), "codex", {"malformed"})
              THEN Refused(q, "error") ELSE MutateBody(p, body1)
    BY DEF EncodeResponses, WithBody
  <2>2. Refused(q, "error").refused = "error"
    BY RefusedFacts
  <2> HIDE DEF w, body1
  <2> QED
    BY <2>1, <2>2
<1>2. Shaped(Encoded(q)) /\ Encoded(q).opts = q.opts
  BY EncodedFacts
<1>3. \A f \in foreign : f \notin ApiFields(p)
  BY DEF ExtensionFields, ApiFields, Family
<1> HIDE DEF foreign
<1>4. Thinner(Encoded(q), parts, foreign)
  BY <1>2, IgnoreFacts
<1> HIDE DEF parts
<1>5. Thinner(parts, formed, {})
  BY <1>4, WarnFacts DEF Thinner
<1> HIDE DEF formed
<1>6. Thinner(formed, r, {})
  BY <1>5, WarnUnusableFacts DEF Thinner
<1> HIDE DEF r
<1>7. Thinner(Encoded(q), r, (foreign \cup {}) \cup {})
  <2>1. Thinner(Encoded(q), formed, foreign \cup {})
    BY <1>4, <1>5, ThinnerTwice
  <2> QED
    BY <2>1, <1>6, ThinnerTwice
<1> HIDE DEF quiet
<1>8. Thinner(r, known, quiet)
  BY <1>7, IgnoreFacts DEF Thinner
<1> HIDE DEF known
<1>9. /\ Shaped(parallel) /\ parallel.warned = known.warned
      /\ DOMAIN parallel.opts = DOMAIN known.opts \cup {"parallel"}
      /\ \A f \in DOMAIN known.opts : parallel.opts[f] = known.opts[f]
  BY <1>8, ParallelFacts DEF Thinner
<1> HIDE DEF parallel, contents, inOrder, apart
<1>10. Shaped(taken) /\ taken.warned = parallel.warned /\ taken.opts = parallel.opts
  BY <1>9, TakeFacts
<1> HIDE DEF taken
<1>11. Shaped(twice) /\ twice.warned = taken.warned /\ twice.opts = taken.opts
  BY <1>10, TakeFacts
<1> HIDE DEF twice
<1>12. Shaped(body1) /\ SameLimits(twice, body1) /\ body1.warned = twice.warned /\ body1.opts = twice.opts
  BY <1>11, BodyFacts
<1> HIDE DEF body1
<1>13. \A f \in DOMAIN q.opts \cap ApiFields(p) :
         Kept(q, body1, f) \/ (f \in quiet /\ f \in DOMAIN q.opts /\ q.opts[f] = r.opts[f])
  <2>1. \A f \in DOMAIN q.opts \cap ApiFields(p) : (f \in DOMAIN r.opts /\ r.opts[f] = q.opts[f]) \/ f \in r.warned
    BY <1>2, <1>3, <1>7 DEF Thinner
  <2>2. body1.warned = known.warned /\ r.warned \subseteq body1.warned
    BY <1>8, <1>9, <1>10, <1>11, <1>12 DEF Thinner
  <2>3. \A f \in DOMAIN r.opts : (f \in DOMAIN body1.opts /\ body1.opts[f] = r.opts[f]) \/ f \in quiet \/ f \in known.warned
    BY <1>8, <1>9, <1>10, <1>11, <1>12 DEF Thinner
  <2> QED
    BY <2>1, <2>2, <2>3 DEF Kept
<1>14. SUFFICES ASSUME w.refused # "error", NEW f \in DOMAIN q.opts \cap ApiFields(p)
                PROVE  \/ Kept(q, w, f)
                       \/ f = "tool_choice" /\ q.opts[f] = "unknown"
                       \/ f = "cache" /\ q.opts[f] \in {"on", "off"}
                       \/ p = "codex" /\ f \in {"temperature", "top_p", "top_k", "store"}
  OBVIOUS
<1>15. /\ body1.warned \subseteq w.warned
       /\ \A g \in DOMAIN body1.opts :
            Kept(body1, w, g) \/ (p = "codex" /\ g \in {"temperature", "top_p", "top_k", "store"})
  <2> HIDE DEF w
  <2> QED
    BY <1>1, <1>12, <1>14, MutateBodyFacts
<1> HIDE DEF w
<1>16. CASE Kept(q, body1, f)
  BY <1>15, <1>16 DEF Kept
<1>17. CASE f \in quiet /\ q.opts[f] = r.opts[f]
  BY <1>17 DEF quiet, OptionIs
<1> QED
  BY <1>13, <1>16, <1>17

-----------------------------------------------------------------------------
(* Converse. *)

\* Tools are configured when they may be called, and a choice that cannot be sent leaves
\* with a warning.
LEMMA ConverseToolsFacts ==
  ASSUME NEW r, Shaped(r), NEW reasons
  PROVE  LET s == ConverseTools(r, reasons) IN
         /\ Shaped(s) /\ r.warned \subseteq s.warned /\ DOMAIN s.opts \subseteq DOMAIN r.opts \cup {"tool_choice"}
         /\ \A f \in DOMAIN r.opts :
              \/ Kept(r, s, f)
              \/ f = "tool_choice" /\ "tools" \notin DOMAIN s.opts
              \/ f = "tools" /\ OptionIs(r, "tool_choice", {"none"})
<1> DEFINE s == ConverseTools(r, reasons)
           choice == {"tool_choice"}
           both == {"tools", "tool_choice"}
<1>1. /\ Thinner(r, Ignore(r, choice), choice) /\ DOMAIN Ignore(r, choice).opts = DOMAIN r.opts \ choice
      /\ Thinner(r, Ignore(r, both), both) /\ DOMAIN Ignore(r, both).opts = DOMAIN r.opts \ both
      /\ Thinner(r, Warn(r, choice), {})
  BY IgnoreFacts, WarnFacts
<1>2. CASE "tools" \notin DOMAIN r.opts
  <2>1. s = Ignore(r, choice)
    BY <1>2 DEF ConverseTools
  <2> HIDE DEF s
  <2> QED
    BY <1>1, <1>2, <2>1 DEF Thinner, Kept, s
<1>3. CASE "tools" \in DOMAIN r.opts /\ OptionIs(r, "tool_choice", {"none"})
  <2>1. s = Ignore(r, both)
    BY <1>3 DEF ConverseTools, OptionIs
  <2> HIDE DEF s
  <2> QED
    BY <1>1, <1>3, <2>1 DEF Thinner, Kept, s
<1>4. CASE "tools" \in DOMAIN r.opts /\ OptionIs(r, "tool_choice", {"tool"}) /\ reasons
  <2> DEFINE told == Warn(r, choice)
             put == Put(told, "tool_choice", "auto")
  <2>1. s = put
    BY <1>4 DEF ConverseTools, OptionIs
  <2>2. Thinner(r, told, {}) /\ DOMAIN told.opts = DOMAIN r.opts \ choice
    BY WarnFacts
  <2> HIDE DEF told
  <2>3. /\ Shaped(put) /\ put.warned = told.warned /\ DOMAIN put.opts = DOMAIN told.opts \cup {"tool_choice"}
        /\ \A f \in DOMAIN told.opts \ {"tool_choice"} : put.opts[f] = told.opts[f]
    BY <2>2, PutFacts DEF Thinner
  <2> HIDE DEF put, s
  <2> QED
    BY <2>1, <2>2, <2>3 DEF Thinner, Kept, s
<1>5. CASE OptionIs(r, "tool_choice", {"unknown"}) /\ "tools" \in DOMAIN r.opts
  <2>1. s = Warn(r, choice)
    BY <1>5 DEF ConverseTools, OptionIs
  <2> HIDE DEF s
  <2> QED
    BY <1>1, <2>1 DEF Thinner, Kept, s
<1>6. CASE /\ "tools" \in DOMAIN r.opts /\ ~OptionIs(r, "tool_choice", {"none"})
           /\ ~(OptionIs(r, "tool_choice", {"tool"}) /\ reasons) /\ ~OptionIs(r, "tool_choice", {"unknown"})
  <2>1. s = r
    BY <1>6 DEF ConverseTools
  <2> HIDE DEF s
  <2> QED
    BY <2>1 DEF Kept, s
<1> QED
  BY <1>2, <1>3, <1>4, <1>5, <1>6

\* Thinking stands for the effort.
LEMMA ConverseReasoningFacts ==
  ASSUME NEW r, Shaped(r), NEW p, NEW budget
  PROVE  LET s == ConverseReasoning(p, r, budget) IN
         /\ Shaped(s) /\ r.warned \subseteq s.warned /\ DOMAIN s.opts \subseteq DOMAIN r.opts \cup {"thinking"}
         /\ \A f \in DOMAIN r.opts \ {"thinking"} : Kept(r, s, f) \/ (f = "effort" /\ "thinking" \in DOMAIN s.opts)
<1> DEFINE s == ConverseReasoning(p, r, budget)
           on == Put(r, "thinking", "enabled")
           cut == Ignore(on, {"effort"})
           adaptive == Put(r, "thinking", "adaptive")
<1>1. CASE budget = 0 /\ "effort" \notin DOMAIN r.opts
  <2>1. s = r
    BY <1>1 DEF ConverseReasoning
  <2> HIDE DEF s
  <2> QED
    BY <2>1 DEF Kept, s
<1>2. CASE ~(budget = 0 /\ "effort" \notin DOMAIN r.opts) /\ budget = 0 /\ p = "converse_opus"
  <2>1. s = adaptive
    BY <1>2 DEF ConverseReasoning
  <2>2. /\ Shaped(adaptive) /\ adaptive.warned = r.warned /\ DOMAIN adaptive.opts = DOMAIN r.opts \cup {"thinking"}
        /\ \A f \in DOMAIN r.opts \ {"thinking"} : adaptive.opts[f] = r.opts[f]
    BY PutFacts
  <2> HIDE DEF s, adaptive
  <2> QED
    BY <2>1, <2>2 DEF Kept, s
<1>3. CASE ~(budget = 0 /\ "effort" \notin DOMAIN r.opts) /\ ~(budget = 0 /\ p = "converse_opus")
  <2> DEFINE given == ReasoningBudget(budget, Effort(r))
  <2>1. s = [cut EXCEPT !.budget = given]
    BY <1>3 DEF ConverseReasoning
  <2>2. /\ Shaped(on) /\ on.warned = r.warned /\ DOMAIN on.opts = DOMAIN r.opts \cup {"thinking"}
        /\ \A f \in DOMAIN r.opts \ {"thinking"} : on.opts[f] = r.opts[f]
    BY PutFacts
  <2> HIDE DEF on
  <2>3. Thinner(on, cut, {"effort"}) /\ cut.warned = on.warned /\ DOMAIN cut.opts = DOMAIN on.opts \ {"effort"}
    BY <2>2, IgnoreFacts
  <2> HIDE DEF cut, s, given
  <2>4. Shaped(s) /\ s.warned = cut.warned /\ s.opts = cut.opts
    BY <2>1, <2>3 DEF Thinner, Shaped
  <2> QED
    BY <2>2, <2>3, <2>4 DEF Thinner, Kept, s
<1> QED
  BY <1>1, <1>2, <1>3

\* What Converse gets of a request's options.
LEMMA ConverseFacts ==
  ASSUME NEW p \in {"converse", "converse_opus"}, NEW q, "thinking" \notin DOMAIN q.opts
  PROVE  LET w == EncodeConverse(p, q) IN
         \A f \in DOMAIN q.opts \cap ApiFields(p) :
           \/ Kept(q, w, f)
           \/ f = "effort" /\ "thinking" \in DOMAIN w.opts
           \/ f = "tool_choice" /\ "tools" \notin DOMAIN w.opts
           \/ f = "tools" /\ OptionIs(q, "tool_choice", {"none"})
<1> DEFINE foreign == {"format", "seed", "user", "parallel", "cache"}
           bare == Ignore(Encoded(q), ExtensionFields)
           usable == WarnUnusable(bare)
           parts == Ignore(usable, foreign)
           reasons == q.budget > 0 \/ "effort" \in DOMAIN q.opts
           tooled == ConverseTools(parts, reasons)
           r == ConverseReasoning(p, tooled, q.budget)
           contents(role) == FlattenSeq([i \in DOMAIN q.messages |->
                               IF q.messages[i].role = role THEN q.messages[i].content ELSE <<>>])
           apart == Select(q.instructions, {"text"}) \o Select(contents("system"), {"text"})
           inOrder == FlattenSeq([i \in DOMAIN q.messages |-> ConverseMessages(q.messages[i])])
           taken1 == Take(r, contents("user"), {"text"})
           taken2 == Take(taken1, contents("assistant"), {"text", "reasoning"})
           taken3 == Take(taken2, contents("system"), {"text"})
           taken4 == Take(taken3, q.instructions, {"text"})
           sentAs == WithBody(taken4, apart, inOrder)
           w == EncodeConverse(p, q)
<1>1. w = sentAs
  BY DEF EncodeConverse, WithBody
<1>2. Shaped(Encoded(q)) /\ Encoded(q).opts = q.opts
  BY EncodedFacts
<1>3. \A f \in foreign \cup ExtensionFields : f \notin ApiFields(p)
  BY DEF ExtensionFields, ApiFields, Family
<1> HIDE DEF foreign
<1>4. Thinner(Encoded(q), bare, ExtensionFields)
  BY <1>2, IgnoreFacts
<1> HIDE DEF bare
<1>5. Thinner(bare, usable, {})
  BY <1>4, WarnUnusableFacts DEF Thinner
<1> HIDE DEF usable
<1>6. Thinner(usable, parts, foreign)
  BY <1>5, IgnoreFacts DEF Thinner
<1> HIDE DEF parts
<1>7. Thinner(Encoded(q), parts, (ExtensionFields \cup {}) \cup foreign)
  <2>1. Thinner(Encoded(q), usable, ExtensionFields \cup {})
    BY <1>4, <1>5, ThinnerTwice
  <2> QED
    BY <2>1, <1>6, ThinnerTwice
<1> HIDE DEF reasons
<1>8. /\ Shaped(tooled) /\ parts.warned \subseteq tooled.warned
      /\ DOMAIN tooled.opts \subseteq DOMAIN parts.opts \cup {"tool_choice"}
      /\ \A f \in DOMAIN parts.opts :
           \/ Kept(parts, tooled, f)
           \/ f = "tool_choice" /\ "tools" \notin DOMAIN tooled.opts
           \/ f = "tools" /\ OptionIs(parts, "tool_choice", {"none"})
  BY <1>7, ConverseToolsFacts DEF Thinner
<1> HIDE DEF tooled
<1>9. /\ Shaped(r) /\ tooled.warned \subseteq r.warned /\ DOMAIN r.opts \subseteq DOMAIN tooled.opts \cup {"thinking"}
      /\ \A f \in DOMAIN tooled.opts \ {"thinking"} :
           Kept(tooled, r, f) \/ (f = "effort" /\ "thinking" \in DOMAIN r.opts)
  BY <1>8, ConverseReasoningFacts
<1> HIDE DEF r
<1>10. Shaped(taken1) /\ taken1.warned = r.warned /\ taken1.opts = r.opts
  BY <1>9, TakeFacts
<1> HIDE DEF taken1
<1>11. Shaped(taken2) /\ taken2.warned = taken1.warned /\ taken2.opts = taken1.opts
  BY <1>10, TakeFacts
<1> HIDE DEF taken2
<1>12. Shaped(taken3) /\ taken3.warned = taken2.warned /\ taken3.opts = taken2.opts
  BY <1>11, TakeFacts
<1> HIDE DEF taken3
<1>13. Shaped(taken4) /\ taken4.warned = taken3.warned /\ taken4.opts = taken3.opts
  BY <1>12, TakeFacts
<1> HIDE DEF taken4, apart, inOrder
<1>14. Shaped(sentAs) /\ SameLimits(taken4, sentAs) /\ sentAs.warned = taken4.warned /\ sentAs.opts = taken4.opts
  BY <1>13, BodyFacts
<1> HIDE DEF sentAs, w
<1>15. w.warned = r.warned /\ w.opts = r.opts
  BY <1>1, <1>10, <1>11, <1>12, <1>13, <1>14
<1>16. ASSUME NEW f \in DOMAIN q.opts \cap ApiFields(p)
       PROVE  \/ Kept(q, w, f)
              \/ f = "effort" /\ "thinking" \in DOMAIN w.opts
              \/ f = "tool_choice" /\ "tools" \notin DOMAIN w.opts
              \/ f = "tools" /\ OptionIs(q, "tool_choice", {"none"})
  <2>1. (f \in DOMAIN parts.opts /\ parts.opts[f] = q.opts[f]) \/ f \in parts.warned
    BY <1>2, <1>3, <1>7 DEF Thinner
  <2>2. parts.warned \subseteq tooled.warned /\ tooled.warned \subseteq w.warned
    BY <1>8, <1>9, <1>15
  <2>3. \A v : OptionIs(parts, "tool_choice", v) => OptionIs(q, "tool_choice", v)
    BY <1>2, <1>7 DEF Thinner, OptionIs
  <2>4. f # "thinking" /\ ("tools" \in DOMAIN w.opts => "tools" \in DOMAIN tooled.opts)
    BY <1>9, <1>15
  <2>5. CASE f \in parts.warned
    BY <2>2, <2>5 DEF Kept
  <2>6. CASE f \in DOMAIN parts.opts /\ parts.opts[f] = q.opts[f] /\ f \notin parts.warned
    <3>1. CASE Kept(parts, tooled, f)
      BY <1>9, <1>15, <2>2, <2>4, <2>6, <3>1 DEF Kept
    <3>2. CASE f = "tool_choice" /\ "tools" \notin DOMAIN tooled.opts
      BY <2>4, <3>2
    <3>3. CASE f = "tools" /\ OptionIs(parts, "tool_choice", {"none"})
      BY <2>3, <3>3
    <3> QED
      BY <1>8, <2>6, <3>1, <3>2, <3>3
  <2> QED
    BY <2>1, <2>5, <2>6
<1> QED
  BY <1>16 DEF w

-----------------------------------------------------------------------------
(* The endpoints, and all the encoders together. *)

AsDecoded(c, b) == IF c = "library" THEN AsUnified(b) ELSE DecodeRequest(c, b)

ReadBy(c, opts) == DOMAIN opts \cap WireFields(c)
UnknownTo(c, opts) == Unknown(c, Restrict(opts, ReadBy(c, opts)))

\* An endpoint reads the options that its API has, but for the values it does not know.
LEMMA DecodeOptionsFacts ==
  ASSUME NEW c, NEW opts
  PROVE  /\ DOMAIN DecodeOptions(c, opts) = ReadBy(c, opts) \ UnknownTo(c, opts)
         /\ \A f \in DOMAIN DecodeOptions(c, opts) :
              DecodeOptions(c, opts)[f] = IF f = "tools" THEN "function" ELSE opts[f]
<1> DEFINE read == ReadBy(c, opts)
           first == Restrict(opts, read)
           unknown == UnknownTo(c, opts)
           known == Restrict(first, DOMAIN first \ unknown)
           s == DecodeOptions(c, opts)
<1>1. s = [f \in DOMAIN known |-> IF f = "tools" THEN "function" ELSE known[f]]
  BY DEF DecodeOptions, ReadBy, UnknownTo
<1>2. first = [f \in read |-> opts[f]]
  BY DEF Restrict
<1> HIDE DEF first, read, unknown
<1>3. known = [f \in read \ unknown |-> opts[f]]
  BY <1>2 DEF Restrict
<1> HIDE DEF known, s
<1>4. DOMAIN s = read \ unknown /\ \A f \in DOMAIN s : s[f] = IF f = "tools" THEN "function" ELSE opts[f]
  BY <1>1, <1>3
<1> QED
  BY <1>4 DEF s, unknown, first, read

\* What is decoded of a request's options.
LEMMA DecodedFacts ==
  ASSUME NEW c \in {"messages", "chat", "responses", "library"}, NEW b,
         "tools" \in DOMAIN b.opts => b.opts["tools"] \in {"function", "server"}
  PROVE  LET q == AsDecoded(c, b) IN
         /\ q.max = b.max /\ q.budget \in {0, b.budget} /\ DOMAIN q.opts \subseteq DOMAIN b.opts
         /\ \A f \in DOMAIN q.opts \ {"tools"} : q.opts[f] = b.opts[f]
         /\ \A f \in DOMAIN b.opts :
              (c = "library" \/ f \in WireFields(c))
                => \/ f \in DOMAIN q.opts /\ q.opts[f] = b.opts[f]
                   \/ f \in q.warned
                   \/ f = "tools" /\ c = "messages"
<1> DEFINE q == AsDecoded(c, b)
<1>1. CASE c = "library"
  <2>1. q.max = b.max /\ q.budget = b.budget /\ q.opts = b.opts
    BY <1>1 DEF AsDecoded, AsUnified
  <2> HIDE DEF q
  <2> QED
    BY <1>1, <2>1 DEF q
<1>2. CASE c # "library"
  <2> DEFINE read == ReadBy(c, b.opts)
             first == Restrict(b.opts, read)
             unknown == UnknownTo(c, b.opts)
  <2>1. q.max = b.max /\ q.budget = 0 /\ q.opts = DecodeOptions(c, b.opts) /\ q.warned = unknown
    BY <1>2 DEF AsDecoded, DecodeRequest, ReadBy, UnknownTo
  <2>2. /\ DOMAIN q.opts = read \ unknown
        /\ \A f \in DOMAIN q.opts : q.opts[f] = IF f = "tools" THEN "function" ELSE b.opts[f]
    <3> DEFINE opts == b.opts
    <3> HIDE DEF opts, q, read, unknown
    <3>1. DOMAIN DecodeOptions(c, opts) = ReadBy(c, opts) \ UnknownTo(c, opts)
      BY DecodeOptionsFacts
    <3>2. \A f \in DOMAIN DecodeOptions(c, opts) :
            DecodeOptions(c, opts)[f] = IF f = "tools" THEN "function" ELSE opts[f]
      BY DecodeOptionsFacts
    <3> QED
      BY <2>1, <3>1, <3>2 DEF opts, read, unknown
  <2>3. "tools" \in read /\ b.opts["tools"] = "server" /\ c # "messages" => "tools" \in unknown
    <3>1. DOMAIN first = read /\ \A f \in read : first[f] = b.opts[f]
      BY DEF Restrict
    <3>2. unknown = Unknown(c, first)
      BY DEF UnknownTo
    <3> HIDE DEF first, read, unknown
    <3> QED
      BY <3>1, <3>2 DEF Unknown
  <2> HIDE DEF q, unknown
  <2>4. \A f \in DOMAIN b.opts :
           (c = "library" \/ f \in WireFields(c))
             => \/ f \in DOMAIN q.opts /\ q.opts[f] = b.opts[f]
                \/ f \in q.warned
                \/ f = "tools" /\ c = "messages"
    BY <1>2, <2>1, <2>2, <2>3 DEF ReadBy
  <2> QED
    BY <2>1, <2>2, <2>4 DEF q, ReadBy
<1> QED
  BY <1>1, <1>2

-----------------------------------------------------------------------------
(* The inductive invariant: what is asked is what the client asks, what is    *)
(* sent is an encoding of what is decoded of it, and a client without         *)
(* extensions never has metadata of a route left behind.                      *)

BodyAsked ==
  phase \in {"asking", "decoded", "sent"} =>
    body.opts = client.ask.opts /\ body.max = client.ask.max /\ body.budget = client.ask.budget

ReqDecoded == phase \in {"decoded", "sent"} => req = AsDecoded(ep, body)

SentEncoded ==
  phase = "sent" =>
    /\ attempt \in 1..Len(routes)
    /\ sent = Encode(Provider, req, used \ NoMetadata)
    /\ sent.refused \notin {"unsupported", "error"}

Unextended == DOMAIN client.ask.opts \cap ExtensionFields = {}

NothingLeftBehind ==
  Unextended =>
    /\ metadata = NoMetadata /\ ~HasExtensions(req)
    /\ phase = "sent" => used \in OwnMetadata(routes[attempt])

Routed ==
  /\ client \in Clients /\ attempt \in Nat
  /\ BodyAsked /\ ReqDecoded /\ SentEncoded /\ NothingLeftBehind

\* What a client of a set of clients is.
LEMMA ClientFacts ==
  ASSUME client \in Clients
  PROVE  /\ ep \in {"messages", "chat", "responses", "library"}
         /\ routes \in Seq([provider : Providers, resolved : Metadatas, builtIn : Metadatas])
         /\ Len(routes) \in Nat /\ \A i \in 1..Len(routes) : routes[i].provider \in Providers
         /\ client.ask.max \in Nat /\ client.ask.budget \in Nat
         /\ "thinking" \notin DOMAIN client.ask.opts
         /\ "tools" \in DOMAIN client.ask.opts => client.ask.opts["tools"] \in {"function", "server"}
<1>1. /\ client.ep \in {"messages", "chat", "responses", "library"}
      /\ client.routes \in Seq([provider : Providers, resolved : Metadatas, builtIn : Metadatas])
      /\ client.ask.max \in Nat /\ client.ask.budget \in Nat
      /\ "thinking" \notin DOMAIN client.ask.opts
      /\ "tools" \in DOMAIN client.ask.opts => client.ask.opts["tools"] \in {"function", "server"}
  BY ClientsAsk
<1>2. routes \in Seq([provider : Providers, resolved : Metadatas, builtIn : Metadatas])
  BY <1>1 DEF routes
<1>3. Len(routes) \in Nat /\ \A i \in 1..Len(routes) : routes[i].provider \in Providers
  <2> DEFINE R == [provider : Providers, resolved : Metadatas, builtIn : Metadatas]
  <2>1. \A r \in R : r.provider \in Providers
    OBVIOUS
  <2> HIDE DEF R
  <2>2. routes \in Seq(R)
    BY <1>2 DEF R
  <2>3. Len(routes) \in Nat /\ \A i \in 1..Len(routes) : routes[i] \in R
    BY <2>2
  <2> QED
    BY <2>1, <2>3
<1> QED
  BY <1>1, <1>2, <1>3 DEF ep

\* Nothing has been asked, and no metadata put anywhere, in the initial states.
LEMMA RoutedInit == Init => Routed
<1> SUFFICES ASSUME Init PROVE Routed
  OBVIOUS
<1>1. DOMAIN req.opts = {}
  BY DEF Init, NoRequest, NoBody, AsUnified
<1>2. ~HasExtensions(req)
  BY <1>1 DEF HasExtensions
<1> QED
  BY <1>2 DEF Init, Routed, BodyAsked, ReqDecoded, SentEncoded, NothingLeftBehind

\* Steps that leave the request and its metadata alone keep what is said of them.
LEMMA RoutedKept ==
  ASSUME Routed, UNCHANGED <<client, req, metadata>>
  PROVE  /\ client' \in Clients /\ Unextended' = Unextended /\ ep' = ep /\ routes' = routes
         /\ Unextended => metadata' = NoMetadata /\ ~HasExtensions(req')
BY DEF Routed, NothingLeftBehind, Unextended, ep, routes

\* A client asks, an endpoint decodes, a route is encoded for: each step makes its own part.
LEMMA RoutedNext == Routed /\ [Next]_vars => Routed'
<1> SUFFICES ASSUME Routed, [Next]_vars PROVE Routed'
  OBVIOUS
<1> USE DEF conversation, forwarded
<1>1. ASSUME NEW said \in client.says, Say(said) PROVE Routed'
  <2>1. UNCHANGED <<client, req, metadata, attempt>> /\ phase' = "asking"
    BY <1>1 DEF Say
  <2>2. BodyAsked'
    <3>1. body' = Written(ep, client.ask, history')
      BY <1>1 DEF Say
    <3> QED
      BY <2>1, <3>1 DEF BodyAsked, Written
  <2> QED
    BY <2>1, <2>2, RoutedKept DEF Routed, ReqDecoded, SentEncoded, NothingLeftBehind
<1>2. CASE Decode
  <2>1. UNCHANGED <<client, body>> /\ phase = "asking" /\ phase' \in {"over", "decoded"} /\ attempt' = 0
    BY <1>2 DEF Decode
  <2>2. BodyAsked'
    BY <2>1 DEF Routed, BodyAsked
  <2>3. ep' = ep /\ (phase' = "over" => req' = NoRequest) /\ (phase' = "decoded" => req' = AsDecoded(ep, body))
    BY <1>2 DEF Decode, AsDecoded, ep
  <2>4. ReqDecoded'
    BY <2>1, <2>3 DEF ReqDecoded
  <2>5. ASSUME Unextended PROVE metadata' = NoMetadata /\ ~HasExtensions(req')
    <3>1. metadata' = NoMetadata
      BY <1>2, <2>5 DEF Decode, Routed, NothingLeftBehind
    <3>2. CASE phase' = "over"
      <4>1. DOMAIN req'.opts = {}
        BY <2>3, <3>2 DEF NoRequest, NoBody, AsUnified
      <4> QED
        BY <3>1, <4>1 DEF HasExtensions
    <3>3. CASE phase' = "decoded"
      <4>1. body.opts = client.ask.opts
        BY <2>1 DEF Routed, BodyAsked
      <4>2. "tools" \in DOMAIN body.opts => body.opts["tools"] \in {"function", "server"}
        BY <4>1, ClientFacts DEF Routed
      <4>3. DOMAIN req'.opts \subseteq DOMAIN body.opts
        BY <2>3, <3>3, <4>2, ClientFacts, DecodedFacts DEF Routed
      <4> QED
        BY <2>5, <3>1, <4>1, <4>3 DEF HasExtensions, Unextended
    <3> QED
      BY <2>1, <3>2, <3>3
  <2>6. NothingLeftBehind' /\ SentEncoded'
    BY <2>1, <2>5 DEF NothingLeftBehind, SentEncoded, Unextended
  <2> QED
    BY <2>1, <2>2, <2>4, <2>6 DEF Routed
<1>3. CASE Attempt
  <2> DEFINE route == routes[attempt + 1]
             seen == MetadataSeen(route)
             wire == Encode(route.provider, req, seen \ NoMetadata)
  <2>1. /\ UNCHANGED <<client, body, req>> /\ phase = "decoded" /\ attempt < Len(routes)
        /\ attempt' = attempt + 1 /\ used' = seen /\ sent' = wire
        /\ metadata' = IF HasExtensions(req) THEN seen ELSE metadata
        /\ phase' = CASE wire.refused = "unsupported" -> "over"
                      [] wire.refused = "error" -> "decoded"
                      [] OTHER -> "sent"
    BY <1>3 DEF Attempt
  <2> HIDE DEF wire
  <2>2. phase' \in {"over", "decoded", "sent"} /\ (phase' = "sent" => wire.refused \notin {"unsupported", "error"})
    BY <2>1
  <2>3. ep' = ep /\ routes' = routes /\ Unextended' = Unextended /\ client \in Clients
    BY <2>1 DEF ep, routes, Unextended, Routed
  <2>4. BodyAsked' /\ ReqDecoded'
    BY <2>1, <2>2, <2>3 DEF Routed, BodyAsked, ReqDecoded
  <2>5. attempt' \in 1..Len(routes)
    BY <2>1, <2>3, ClientFacts DEF Routed
  <2>6. SentEncoded'
    <3>1. Provider' = route.provider
      BY <2>1, <2>3 DEF Provider
    <3> QED
      BY <2>1, <2>2, <2>3, <2>5, <3>1 DEF SentEncoded, wire
  <2>7. NothingLeftBehind'
    <3> SUFFICES ASSUME Unextended
                 PROVE  metadata' = NoMetadata /\ ~HasExtensions(req') /\ used' \in OwnMetadata(routes'[attempt'])
      BY <2>3 DEF NothingLeftBehind
    <3>1. metadata = NoMetadata /\ ~HasExtensions(req)
      BY DEF Routed, NothingLeftBehind
    <3>2. seen \in OwnMetadata(route)
      BY <3>1 DEF MetadataSeen, MetadataFor, OwnMetadata
    <3> HIDE DEF seen, route
    <3>3. routes'[attempt'] = route
      BY <2>1, <2>3 DEF route
    <3> QED
      BY <2>1, <3>1, <3>2, <3>3
  <2> QED
    BY <2>3, <2>1, <2>4, <2>5, <2>6, <2>7 DEF Routed
<1>4. CASE GiveUp
  <2>1. UNCHANGED <<client, req, metadata, attempt>> /\ phase' = "over"
    BY <1>4 DEF GiveUp
  <2> QED
    BY <2>1, RoutedKept DEF Routed, BodyAsked, ReqDecoded, SentEncoded, NothingLeftBehind
<1>5. CASE Fail
  <2>1. /\ UNCHANGED <<client, body, req, metadata, attempt>>
        /\ phase = "sent" /\ phase' \in {"decoded", "over"}
    BY <1>5 DEF Fail
  <2> QED
    BY <2>1, RoutedKept DEF Routed, BodyAsked, ReqDecoded, SentEncoded, NothingLeftBehind
<1>6. ASSUME NEW kinds \in Answers, Answer(kinds) PROVE Routed'
  <2>1. UNCHANGED <<client, req, metadata, attempt>> /\ phase' = "talk"
    BY <1>6 DEF Answer
  <2> QED
    BY <2>1, RoutedKept DEF Routed, BodyAsked, ReqDecoded, SentEncoded, NothingLeftBehind
<1>7. CASE UNCHANGED vars
  BY <1>7 DEF vars, Routed, BodyAsked, ReqDecoded, SentEncoded, NothingLeftBehind, Unextended, ep, routes, Provider
<1> QED
  BY <1>1, <1>2, <1>3, <1>4, <1>5, <1>6, <1>7 DEF Next

\* A request that is sent is the client's, decoded and encoded.
LEMMA RoutedAlways == Spec => []Routed
BY RoutedInit, RoutedNext, PTL DEF Spec

-----------------------------------------------------------------------------

\* What a request that was sent was made from.
LEMMA SentFacts ==
  ASSUME Routed, phase = "sent"
  PROVE  /\ Provider \in Providers
         /\ sent = Encode(Provider, req, used \ NoMetadata) /\ sent.refused \notin {"unsupported", "error"}
         /\ req = AsDecoded(ep, body) /\ req.max \in Nat /\ req.budget \in Nat
         /\ "thinking" \notin DOMAIN req.opts /\ DOMAIN req.opts \subseteq DOMAIN body.opts
         /\ \A f \in DOMAIN req.opts \ {"tools"} : req.opts[f] = body.opts[f]
         /\ \A f \in DOMAIN body.opts :
              (ep = "library" \/ f \in WireFields(ep))
                => \/ f \in DOMAIN req.opts /\ req.opts[f] = body.opts[f]
                   \/ f \in req.warned
                   \/ f = "tools" /\ ep = "messages"
<1>1. /\ body.opts = client.ask.opts /\ body.max = client.ask.max /\ body.budget = client.ask.budget
      /\ req = AsDecoded(ep, body)
  BY DEF Routed, BodyAsked, ReqDecoded
<1>2. /\ ep \in {"messages", "chat", "responses", "library"}
      /\ \A i \in 1..Len(routes) : routes[i].provider \in Providers
      /\ client.ask.max \in Nat /\ client.ask.budget \in Nat
      /\ "thinking" \notin DOMAIN client.ask.opts
      /\ "tools" \in DOMAIN client.ask.opts => client.ask.opts["tools"] \in {"function", "server"}
  BY ClientFacts DEF Routed
<1>3. "tools" \in DOMAIN body.opts => body.opts["tools"] \in {"function", "server"}
  BY <1>1, <1>2
<1>4. /\ req.max = body.max /\ req.budget \in {0, body.budget} /\ DOMAIN req.opts \subseteq DOMAIN body.opts
      /\ \A f \in DOMAIN req.opts \ {"tools"} : req.opts[f] = body.opts[f]
      /\ \A f \in DOMAIN body.opts :
           (ep = "library" \/ f \in WireFields(ep))
             => \/ f \in DOMAIN req.opts /\ req.opts[f] = body.opts[f]
                \/ f \in req.warned
                \/ f = "tools" /\ ep = "messages"
  BY <1>1, <1>2, <1>3, DecodedFacts
<1>5. req.max \in Nat /\ req.budget \in Nat /\ "thinking" \notin DOMAIN req.opts
  BY <1>1, <1>2, <1>4
<1>6. /\ sent = Encode(Provider, req, used \ NoMetadata) /\ sent.refused \notin {"unsupported", "error"}
      /\ Provider \in Providers
  BY <1>2 DEF Routed, SentEncoded, Provider
<1> QED
  BY <1>1, <1>4, <1>5, <1>6

\* A request that was sent in the Messages API is an encoding for it.
LEMMA SentAsMessages ==
  ASSUME Routed, phase = "sent", Family(Provider) = "messages"
  PROVE  /\ Thinks(sent) => FitsLimits(sent)
         /\ \A f \in DOMAIN req.opts \cap ApiFields(Provider) :
              \/ Kept(req, sent, f)
              \/ f = "effort" /\ "thinking" \in DOMAIN sent.opts
              \/ f = "cache" /\ req.opts[f] = "off"
              \/ f = "format" /\ req.opts[f] = "text"
<1>1. /\ Provider \in Providers /\ sent = Encode(Provider, req, used \ NoMetadata)
      /\ sent.refused \notin {"unsupported", "error"}
      /\ req.max \in Nat /\ req.budget \in Nat /\ "thinking" \notin DOMAIN req.opts
  BY SentFacts
<1>2. Provider \in {"anthropic", "openrouter_messages", "bedrock_messages"}
  BY <1>1 DEF Providers, Family
<1>3. sent = EncodeMessages(Provider, req, used \ NoMetadata)
  BY <1>1 DEF Encode
<1> DEFINE meta == used \ NoMetadata
           w == EncodeMessages(Provider, req, meta)
<1> HIDE DEF meta
<1>4. w.refused \notin {"unsupported", "error"} =>
        /\ Thinks(w) => FitsLimits(w)
        /\ \A f \in DOMAIN req.opts \cap ApiFields(Provider) :
             \/ Kept(req, w, f)
             \/ f = "effort" /\ "thinking" \in DOMAIN w.opts
             \/ f = "cache" /\ req.opts[f] = "off"
             \/ f = "format" /\ req.opts[f] = "text"
  BY <1>1, <1>2, MessagesFacts
<1>5. sent = w
  BY <1>3 DEF meta
<1> HIDE DEF w
<1> QED
  BY <1>1, <1>4, <1>5

\* Whatever a client asks for, what a Messages API gets of thinking is what it takes: the
\* budget, the limit, the temperature and top_k that applyReasoning and thinkingBudget of
\* providers/anthropic/messages/codec.go leave.
THEOREM ThinkingCorrect == Spec => []ThinkingFits
<1>1. Routed => ThinkingFits
  <2> SUFFICES ASSUME Routed, phase = "sent", Family(Provider) = "messages", OptionIs(sent, "thinking", {"enabled"})
               PROVE  /\ sent.budget >= 1024 /\ sent.budget < sent.max
                      /\ OptionIs(sent, "temperature", {"one"})
                      /\ "top_k" \notin DOMAIN sent.opts
    BY DEF ThinkingFits
  <2>1. Thinks(sent) => FitsLimits(sent)
    BY SentAsMessages
  <2> QED
    BY <2>1 DEF Thinks, FitsLimits
<1> QED
  BY <1>1, RoutedAlways, PTL

\* A request without extensions goes to each of its routes with the metadata of that
\* route's model, whatever was tried before it and whatever the client did before
\* (RequestForRoute, AttachResolvedModelMetadata).
THEOREM MetadataCorrect == Spec => []PlainMetadataOfRoute
<1>1. Routed => PlainMetadataOfRoute
  <2> SUFFICES ASSUME Routed, phase = "sent", DOMAIN body.opts \cap ExtensionFields = {}
               PROVE  used \in OwnMetadata(routes[attempt])
    BY DEF PlainMetadataOfRoute
  <2>1. Unextended
    BY DEF Routed, BodyAsked, Unextended
  <2> QED
    BY <2>1 DEF Routed, NothingLeftBehind
<1> QED
  BY <1>1, RoutedAlways, PTL

\* An option that the client's API and the provider's API both have arrives as it was asked
\* for, or a warning names it, or its absence says the same (the codecs of the endpoints and
\* of the providers, one after the other).
THEOREM OptionsCorrect == Spec => []OptionsAccounted
<1>1. Routed => OptionsAccounted
  <2> SUFFICES ASSUME Routed, phase = "sent", NEW f \in DOMAIN body.opts, f \in ApiFields(Provider),
                      ep = "library" \/ f \in WireFields(ep)
               PROVE  \/ f \in DOMAIN sent.opts /\ sent.opts[f] = body.opts[f]
                      \/ f \in req.warned \cup sent.warned
                      \/ Immaterial(f, body.opts[f])
    BY DEF OptionsAccounted
  <2>1. /\ Provider \in Providers /\ sent = Encode(Provider, req, used \ NoMetadata)
        /\ sent.refused \notin {"unsupported", "error"} /\ "thinking" \notin DOMAIN req.opts
        /\ \A g \in DOMAIN req.opts \ {"tools"} : req.opts[g] = body.opts[g]
        /\ \/ f \in DOMAIN req.opts /\ req.opts[f] = body.opts[f]
           \/ f \in req.warned
           \/ f = "tools" /\ ep = "messages"
    BY SentFacts
  <2>2. CASE f \in req.warned
    BY <2>2
  <2>3. CASE f = "tools" /\ ep = "messages"
    BY <2>3 DEF Immaterial
  <2>4. CASE f \in DOMAIN req.opts /\ req.opts[f] = body.opts[f]
    <3>1. Kept(req, sent, f) => (f \in DOMAIN sent.opts /\ sent.opts[f] = body.opts[f]) \/ f \in sent.warned
      BY <2>4 DEF Kept
    <3>2. CASE Provider \in {"anthropic", "openrouter_messages", "bedrock_messages"}
      <4>1. Family(Provider) = "messages"
        BY <3>2 DEF Family
      <4>2. \/ Kept(req, sent, f)
            \/ f = "effort" /\ "thinking" \in DOMAIN sent.opts
            \/ f = "cache" /\ req.opts[f] = "off"
            \/ f = "format" /\ req.opts[f] = "text"
        BY <2>4, <4>1, SentAsMessages
      <4> QED
        BY <2>4, <3>1, <4>2 DEF Immaterial
    <3>3. CASE Provider \in {"openai_chat", "openrouter_chat"}
      <4>1. sent = EncodeChat(Provider, req)
        BY <2>1, <3>3 DEF Encode, Family
      <4>2. \/ Kept(req, sent, f)
            \/ f = "tool_choice" /\ (req.opts[f] = "unknown" \/ "tools" \notin DOMAIN sent.opts)
        BY <2>4, <3>3, <4>1, ChatFacts
      <4> QED
        BY <2>4, <3>1, <4>2 DEF Immaterial
    <3>4. CASE Provider \in {"openai_responses", "openrouter_responses", "bedrock_responses", "codex"}
      <4>1. sent = EncodeResponses(Provider, req) /\ Family(Provider) = "responses"
        BY <2>1, <3>4 DEF Encode, Family
      <4>2. \/ Kept(req, sent, f)
            \/ f = "tool_choice" /\ req.opts[f] = "unknown"
            \/ f = "cache" /\ req.opts[f] \in {"on", "off"}
            \/ Provider = "codex" /\ f \in {"temperature", "top_p", "top_k", "store"}
        BY <2>1, <2>4, <3>4, <4>1, ResponsesFacts
      <4> QED
        BY <2>4, <3>1, <4>1, <4>2 DEF Immaterial
    <3>5. CASE Provider \in {"converse", "converse_opus"}
      <4>1. sent = EncodeConverse(Provider, req)
        BY <2>1, <3>5 DEF Encode, Family
      <4>2. \/ Kept(req, sent, f)
            \/ f = "effort" /\ "thinking" \in DOMAIN sent.opts
            \/ f = "tool_choice" /\ "tools" \notin DOMAIN sent.opts
            \/ f = "tools" /\ OptionIs(req, "tool_choice", {"none"})
        BY <2>1, <2>4, <3>5, <4>1, ConverseFacts
      <4>3. SUFFICES ASSUME f = "tools", OptionIs(req, "tool_choice", {"none"})
                     PROVE  OptionIs(body, "tool_choice", {"none"})
        BY <2>4, <3>1, <4>2 DEF Immaterial
      <4>4. /\ "tool_choice" \in DOMAIN req.opts /\ req.opts["tool_choice"] = "none"
            /\ body.opts["tool_choice"] = "none"
        BY <2>1, <4>3 DEF OptionIs
      <4>5. DOMAIN req.opts \subseteq DOMAIN body.opts
        BY SentFacts
      <4> QED
        BY <4>4, <4>5 DEF OptionIs
    <3> QED
      BY <2>1, <3>2, <3>3, <3>4, <3>5 DEF Providers
  <2> QED
    BY <2>1, <2>2, <2>3, <2>4
<1> QED
  BY <1>1, RoutedAlways, PTL

-----------------------------------------------------------------------------
(* Numbers. *)

\* Every non-empty set of numbers has a least.
LEMMA LeastNumber ==
  ASSUME NEW T \in SUBSET Nat, T # {}
  PROVE  \E x \in T : \A y \in T : x <= y
<1>1. IsWellFoundedOn(OpToRel(<, Nat), Nat)
  BY NatLessThanWellFounded
<1>2. PICK x \in T : \A y \in T : ~ (<<y, x>> \in OpToRel(<, Nat))
  BY <1>1, WFMin
<1>3. \A y \in T : ~ (<<y, x>> \in {ss \in Nat \X Nat : ss[1] < ss[2]})
  BY <1>2, Zenon DEF OpToRel
<1>4. \A y \in T : ~ (y < x)
  <2>1. TAKE y \in T
  <2> DEFINE p == <<y, x>>
  <2>2. p \in Nat \X Nat /\ p[1] = y /\ p[2] = x
    OBVIOUS
  <2>3. p \notin {ss \in Nat \X Nat : ss[1] < ss[2]}
    BY <1>3
  <2> HIDE DEF p
  <2> QED
    BY <2>2, <2>3
<1> QED
  BY <1>4

\* A set of numbers that has 0, and the next of each of its own, has them all.
LEMMA Induction ==
  ASSUME NEW T \in SUBSET Nat, 0 \in T, \A n \in T : n + 1 \in T
  PROVE  T = Nat
<1>1. SUFFICES ASSUME Nat \ T # {} PROVE FALSE
  OBVIOUS
<1>2. PICK x \in Nat \ T : \A y \in Nat \ T : x <= y
  BY <1>1, LeastNumber
<1>3. x # 0 /\ x - 1 \in Nat /\ x - 1 \in T
  BY <1>2
<1> QED
  BY <1>2, <1>3

-----------------------------------------------------------------------------
(* Sequences: what they have (Members), and what is said of every two places  *)
(* (Paired); concatenation, flattening and picking in these terms.            *)

\* What a sequence has; that every two of its places, in their order, are related.
Members(s) == {s[i] : i \in DOMAIN s}
Paired(s, R) == \A j, k \in DOMAIN s : j < k => <<s[j], s[k]>> \in R

\* Members are of the sequence's type, and where they are.
LEMMA MemberFacts ==
  ASSUME NEW S, NEW s \in Seq(S)
  PROVE  /\ Len(s) \in Nat /\ DOMAIN s = 1..Len(s)
         /\ \A i \in DOMAIN s : s[i] \in S /\ s[i] \in Members(s)
         /\ Members(s) \subseteq S /\ s \in Seq(Members(s))
         /\ Members(s) = {} <=> s = <<>>
<1>1. Len(s) \in Nat /\ DOMAIN s = 1..Len(s) /\ \A i \in DOMAIN s : s[i] \in S
  OBVIOUS
<1>2. \A i \in DOMAIN s : s[i] \in Members(s)
  BY DEF Members
<1>3. Members(s) \subseteq S
  BY <1>1 DEF Members
<1>4. s \in Seq(Members(s))
  <2>1. \A T : (\A i \in 1..Len(s) : s[i] \in T) => s \in Seq(T)
    OBVIOUS
  <2> QED
    BY <1>1, <1>2, <2>1
<1>5. Members(s) = {} <=> s = <<>>
  <2>1. s = <<>> => DOMAIN s = {}
    OBVIOUS
  <2>2. DOMAIN s = {} => s = <<>>
    <3>1. Len(s) = 0 => s = <<>>
      OBVIOUS
    <3> QED
      BY <1>1, <3>1
  <2> QED
    BY <2>1, <2>2 DEF Members
<1> QED
  BY <1>1, <1>2, <1>3, <1>4, <1>5

\* A concatenation has what its parts have; of a pair in it, both are in a part or one in each.
LEMMA ConcatFacts ==
  ASSUME NEW S, NEW s \in Seq(S), NEW t \in Seq(S), NEW R
  PROVE  /\ s \o t \in Seq(S) /\ Members(s \o t) = Members(s) \cup Members(t)
         /\ Paired(s \o t, R) <=> /\ Paired(s, R) /\ Paired(t, R)
                                  /\ \A x \in Members(s), y \in Members(t) : <<x, y>> \in R
<1> DEFINE u == s \o t
           m == Len(s)
           n == Len(t)
<1>1. /\ u \in Seq(S) /\ DOMAIN u = 1..(m + n) /\ m \in Nat /\ n \in Nat
      /\ DOMAIN s = 1..m /\ DOMAIN t = 1..n
      /\ \A i \in 1..m : u[i] = s[i]
      /\ \A i \in 1..n : u[m + i] = t[i]
  OBVIOUS
<1> HIDE DEF u, m, n
<1>2. \A i \in 1..(m + n) : i \in 1..m \/ (i - m \in 1..n /\ i = m + (i - m))
  BY <1>1
<1>3. \A i \in 1..m : i \in 1..(m + n)
  BY <1>1
<1>4. \A i \in 1..n : m + i \in 1..(m + n)
  BY <1>1
<1>5. Members(u) = Members(s) \cup Members(t)
  <2>1. Members(u) \subseteq Members(s) \cup Members(t)
    <3> SUFFICES ASSUME NEW i \in DOMAIN u PROVE u[i] \in Members(s) \cup Members(t)
      BY DEF Members
    <3>1. CASE i \in 1..m
      BY <1>1, <3>1 DEF Members
    <3>2. CASE i - m \in 1..n /\ i = m + (i - m)
      BY <1>1, <3>2 DEF Members
    <3> QED
      BY <1>1, <1>2, <3>1, <3>2
  <2>2. Members(s) \subseteq Members(u)
    BY <1>1, <1>3 DEF Members
  <2>3. Members(t) \subseteq Members(u)
    BY <1>1, <1>4 DEF Members
  <2> QED
    BY <2>1, <2>2, <2>3
<1>6. ASSUME Paired(u, R)
      PROVE  Paired(s, R) /\ Paired(t, R) /\ \A x \in Members(s), y \in Members(t) : <<x, y>> \in R
  <2>1. Paired(s, R)
    BY <1>1, <1>3, <1>6 DEF Paired
  <2>2. Paired(t, R)
    <3> SUFFICES ASSUME NEW j \in 1..n, NEW k \in 1..n, j < k PROVE <<t[j], t[k]>> \in R
      BY <1>1 DEF Paired
    <3>1. m + j < m + k /\ m + j \in DOMAIN u /\ m + k \in DOMAIN u
      BY <1>1, <1>4
    <3>2. <<u[m + j], u[m + k]>> \in R
      BY <1>6, <3>1 DEF Paired
    <3> QED
      BY <1>1, <3>2
  <2>3. \A x \in Members(s), y \in Members(t) : <<x, y>> \in R
    <3> SUFFICES ASSUME NEW j \in 1..m, NEW k \in 1..n PROVE <<s[j], t[k]>> \in R
      BY <1>1 DEF Members
    <3>1. j < m + k /\ j \in DOMAIN u /\ m + k \in DOMAIN u
      BY <1>1, <1>3, <1>4
    <3>2. <<u[j], u[m + k]>> \in R
      BY <1>6, <3>1 DEF Paired
    <3> QED
      BY <1>1, <3>2
  <2> QED
    BY <2>1, <2>2, <2>3
<1>7. ASSUME Paired(s, R), Paired(t, R), \A x \in Members(s), y \in Members(t) : <<x, y>> \in R
      PROVE  Paired(u, R)
  <2> SUFFICES ASSUME NEW j \in DOMAIN u, NEW k \in DOMAIN u, j < k PROVE <<u[j], u[k]>> \in R
    BY DEF Paired
  <2>1. CASE j \in 1..m /\ k \in 1..m
    BY <1>1, <1>7, <2>1 DEF Paired
  <2>2. CASE j \in 1..m /\ k \notin 1..m
    <3>1. k - m \in 1..n /\ u[k] = t[k - m]
      BY <1>1, <1>2, <2>2
    <3>2. s[j] \in Members(s) /\ t[k - m] \in Members(t) /\ u[j] = s[j]
      BY <1>1, <2>2, <3>1 DEF Members
    <3> QED
      BY <1>7, <3>1, <3>2
  <2>3. CASE j \notin 1..m
    <3>1. j - m \in 1..n /\ u[j] = t[j - m]
      BY <1>1, <1>2, <2>3
    <3>2. k \notin 1..m
      BY <1>1, <2>3
    <3>3. k - m \in 1..n /\ u[k] = t[k - m] /\ j - m < k - m
      BY <1>1, <1>2, <3>2
    <3> QED
      BY <1>1, <1>7, <3>1, <3>3 DEF Paired
  <2> QED
    BY <2>1, <2>2, <2>3
<1> QED
  BY <1>1, <1>5, <1>6, <1>7 DEF u

-----------------------------------------------------------------------------
\* The first k values of FlattenSeq's function.
Flattens(f, ss, k) == f = [i \in 1..k |-> IF i = 1 THEN ss[i] ELSE f[i - 1] \o ss[i]]

\* What is put together of the first k sequences, for every k.
LEMMA FlattensExist ==
  ASSUME NEW ss
  PROVE  \A k \in Nat : \E f : Flattens(f, ss, k)
<1> DEFINE T == {k \in Nat : \E f : Flattens(f, ss, k)}
<1>1. 0 \in T
  <2>1. Flattens([i \in 1..0 |-> <<>>], ss, 0)
    BY DEF Flattens
  <2> QED
    BY <2>1
<1>2. ASSUME NEW k \in T PROVE k + 1 \in T
  <2>1. PICK f : Flattens(f, ss, k)
    OBVIOUS
  <2> DEFINE g == [i \in 1..(k + 1) |-> IF i = 1 THEN ss[i] ELSE f[i - 1] \o ss[i]]
  <2>2. k \in Nat
    OBVIOUS
  <2>3. \A i \in 1..k : g[i] = f[i]
    <3> TAKE i \in 1..k
    <3>1. i \in 1..(k + 1)
      BY <2>2
    <3>2. g[i] = IF i = 1 THEN ss[i] ELSE f[i - 1] \o ss[i]
      BY <3>1
    <3>3. f[i] = IF i = 1 THEN ss[i] ELSE f[i - 1] \o ss[i]
      BY <2>1 DEF Flattens
    <3> HIDE DEF g
    <3> QED
      BY <3>2, <3>3
  <2>4. \A i \in 1..(k + 1) : i # 1 => i - 1 \in 1..k
    BY <2>2
  <2>5. g = [i \in 1..(k + 1) |-> IF i = 1 THEN ss[i] ELSE g[i - 1] \o ss[i]]
    <3>1. \A i \in 1..(k + 1) : g[i] = IF i = 1 THEN ss[i] ELSE g[i - 1] \o ss[i]
      <4> TAKE i \in 1..(k + 1)
      <4>1. g[i] = IF i = 1 THEN ss[i] ELSE f[i - 1] \o ss[i]
        OBVIOUS
      <4> HIDE DEF g
      <4> QED
        BY <2>3, <2>4, <4>1
    <3>2. g = [i \in 1..(k + 1) |-> g[i]]
      OBVIOUS
    <3> HIDE DEF g
    <3> QED
      BY <3>1, <3>2
  <2>6. Flattens(g, ss, k + 1)
    <3> HIDE DEF g
    <3> QED
      BY <2>5 DEF Flattens
  <2> QED
    BY <2>2, <2>6
<1> HIDE DEF T
<1>3. T = Nat
  <2>1. T \in SUBSET Nat
    BY DEF T
  <2> QED
    BY <1>1, <1>2, <2>1, Induction
<1> QED
  BY <1>3 DEF T

\* What f has at k is the first k sequences.
Flattened(f, ss, S, R, k) ==
  /\ f[k] \in Seq(S)
  /\ Members(f[k]) = UNION {Members(ss[i]) : i \in 1..k}
  /\ Paired(f[k], R) <=>
       /\ \A i \in 1..k : Paired(ss[i], R)
       /\ \A i, j \in 1..k : i < j => \A x \in Members(ss[i]), y \in Members(ss[j]) : <<x, y>> \in R

\* One more sequence, flattened.
LEMMA FlattensOn ==
  ASSUME NEW f, NEW ss, NEW S, NEW R, NEW k \in Nat,
         1..(k + 2) = 1..(k + 1) \cup {k + 2}, \A i \in 1..(k + 1) : i < k + 2 /\ i # k + 2,
         Flattened(f, ss, S, R, k + 1), f[k + 2] \in Seq(S),
         Members(f[k + 2]) = Members(f[k + 1]) \cup Members(ss[k + 2]),
         Paired(f[k + 2], R) <=>
            /\ Paired(f[k + 1], R) /\ Paired(ss[k + 2], R)
            /\ \A x \in Members(f[k + 1]), y \in Members(ss[k + 2]) : <<x, y>> \in R
  PROVE  Flattened(f, ss, S, R, k + 2)
<1>1. Members(f[k + 1]) = UNION {Members(ss[i]) : i \in 1..(k + 1)}
  BY DEF Flattened
<1>2. Members(f[k + 2]) = UNION {Members(ss[i]) : i \in 1..(k + 2)}
  BY <1>1
<1> DEFINE Before(x, y) == \A a \in Members(x), b \in Members(y) : <<a, b>> \in R
           All == \A i, j \in 1..(k + 2) : i < j => Before(ss[i], ss[j])
           Fore == \A i, j \in 1..(k + 1) : i < j => Before(ss[i], ss[j])
           Past == Before(f[k + 1], ss[k + 2])
<1>3. All => Fore
  BY Zenon
<1>4. All => Past
  <2> SUFFICES ASSUME All, NEW a \in Members(f[k + 1]), NEW b \in Members(ss[k + 2]) PROVE <<a, b>> \in R
    OBVIOUS
  <2>1. PICK i \in 1..(k + 1) : a \in Members(ss[i])
    BY <1>1
  <2>2. i \in 1..(k + 2) /\ k + 2 \in 1..(k + 2) /\ i < k + 2
    OBVIOUS
  <2> QED
    BY <2>1, <2>2
<1>5. Fore /\ Past => All
  <2> SUFFICES ASSUME Fore, Past, NEW i \in 1..(k + 2), NEW j \in 1..(k + 2), i < j,
                      NEW a \in Members(ss[i]), NEW b \in Members(ss[j])
               PROVE  <<a, b>> \in R
    OBVIOUS
  <2>1. i \in 1..(k + 1)
    OBVIOUS
  <2>2. CASE j \in 1..(k + 1)
    BY <2>1, <2>2
  <2>3. CASE j = k + 2
    <3>1. a \in Members(f[k + 1])
      BY <1>1, <2>1
    <3> QED
      BY <2>3, <3>1
  <2> QED
    BY <2>2, <2>3
<1>6. (\A i \in 1..(k + 2) : Paired(ss[i], R)) <=> (\A i \in 1..(k + 1) : Paired(ss[i], R)) /\ Paired(ss[k + 2], R)
  OBVIOUS
<1>7. Paired(f[k + 1], R) <=> (\A i \in 1..(k + 1) : Paired(ss[i], R)) /\ Fore
  BY DEF Flattened
<1>8. Paired(f[k + 2], R) <=> Paired(f[k + 1], R) /\ Paired(ss[k + 2], R) /\ Past
  OBVIOUS
<1> HIDE DEF All, Fore, Past
<1>9. Paired(f[k + 2], R) <=> (\A i \in 1..(k + 2) : Paired(ss[i], R)) /\ All
  BY <1>3, <1>4, <1>5, <1>6, <1>7, <1>8
<1> QED
  BY <1>2, <1>9 DEF All, Flattened

\* FlattenSeq keeps what the sequences have, in their order.
LEMMA FlattenFacts ==
  ASSUME NEW S, NEW ss \in Seq(Seq(S)), NEW R
  PROVE  /\ FlattenSeq(ss) \in Seq(S)
         /\ Members(FlattenSeq(ss)) = UNION {Members(ss[i]) : i \in DOMAIN ss}
         /\ Paired(FlattenSeq(ss), R) <=>
              /\ \A i \in DOMAIN ss : Paired(ss[i], R)
              /\ \A i, k \in DOMAIN ss : i < k => \A x \in Members(ss[i]), y \in Members(ss[k]) : <<x, y>> \in R
<1> DEFINE n == Len(ss)
<1>1. n \in Nat /\ DOMAIN ss = 1..n /\ \A i \in 1..n : ss[i] \in Seq(S)
  OBVIOUS
<1>2. CASE n = 0
  <2>1. ss = <<>> /\ DOMAIN ss = {}
    BY <1>1, <1>2
  <2>2. FlattenSeq(ss) = ss
    BY <1>2 DEF FlattenSeq
  <2>3. ss \in Seq(S) /\ Members(ss) = {} /\ Paired(ss, R)
    BY <2>1 DEF Members, Paired
  <2> QED
    BY <2>1, <2>2, <2>3
<1>3. CASE n # 0
  <2> DEFINE f == CHOOSE f : f = [i \in 1..n |-> IF i = 1 THEN ss[i] ELSE f[i - 1] \o ss[i]]
  <2>1. Flattens(f, ss, n)
    BY <1>1, FlattensExist DEF Flattens
  <2>2. FlattenSeq(ss) = f[n]
    BY <1>3 DEF FlattenSeq
  <2> HIDE DEF f, n
  <2>3. \A i \in 1..n : f[i] = IF i = 1 THEN ss[i] ELSE f[i - 1] \o ss[i]
    BY <2>1 DEF Flattens
  <2> DEFINE T == {k \in Nat : k + 1 <= n => Flattened(f, ss, S, R, k + 1)}
  <2>4. 0 \in T
    <3>1. f[1] = ss[1] /\ ss[1] \in Seq(S) /\ 1..1 = {1} /\ 0 + 1 = 1
      BY <1>1, <1>3, <2>3
    <3>2. Flattened(f, ss, S, R, 1)
      BY <3>1 DEF Flattened
    <3> QED
      BY <3>1, <3>2
  <2>5. ASSUME NEW k \in T PROVE k + 1 \in T
    <3>1. k \in Nat /\ (k + 1 <= n => Flattened(f, ss, S, R, k + 1))
      OBVIOUS
    <3>2. CASE k + 2 <= n
      <4>1. /\ k + 1 \in 1..n /\ k + 2 \in 1..n /\ k + 2 # 1 /\ (k + 2) - 1 = k + 1
        BY <1>1, <3>1, <3>2
      <4>2. 1..(k + 2) = 1..(k + 1) \cup {k + 2} /\ \A i \in 1..(k + 1) : i < k + 2 /\ i # k + 2
        BY <3>1
      <4>3. Flattened(f, ss, S, R, k + 1) /\ ss[k + 2] \in Seq(S)
        BY <1>1, <3>1, <4>1
      <4>4. f[k + 2] = f[k + 1] \o ss[k + 2]
        BY <2>3, <4>1
      <4>5. f[k + 1] \in Seq(S)
        BY <4>3 DEF Flattened
      <4>6. /\ f[k + 2] \in Seq(S) /\ Members(f[k + 2]) = Members(f[k + 1]) \cup Members(ss[k + 2])
            /\ Paired(f[k + 2], R) <=>
                 /\ Paired(f[k + 1], R) /\ Paired(ss[k + 2], R)
                 /\ \A x \in Members(f[k + 1]), y \in Members(ss[k + 2]) : <<x, y>> \in R
        <5> DEFINE a == f[k + 1]
                   b == ss[k + 2]
        <5>1. a \in Seq(S) /\ b \in Seq(S) /\ f[k + 2] = a \o b
          BY <4>3, <4>4, <4>5
        <5> HIDE DEF a, b
        <5>2. /\ a \o b \in Seq(S) /\ Members(a \o b) = Members(a) \cup Members(b)
              /\ Paired(a \o b, R) <=> /\ Paired(a, R) /\ Paired(b, R)
                                       /\ \A x \in Members(a), y \in Members(b) : <<x, y>> \in R
          BY <5>1, ConcatFacts
        <5> QED
          BY <5>1, <5>2 DEF a, b
      <4>7. Flattened(f, ss, S, R, k + 2)
        BY <3>1, <4>2, <4>3, <4>6, FlattensOn
      <4>8. (k + 1) + 1 = k + 2 /\ k + 1 \in Nat
        BY <3>1
      <4> QED
        BY <4>7, <4>8
    <3>3. CASE ~(k + 2 <= n)
      <4>1. k + 1 \in Nat /\ ~((k + 1) + 1 <= n)
        BY <1>1, <3>1, <3>3
      <4> QED
        BY <4>1
    <3> QED
      BY <3>2, <3>3
  <2> HIDE DEF T
  <2>6. T = Nat
    <3>1. T \in SUBSET Nat
      BY DEF T
    <3> QED
      BY <2>4, <2>5, <3>1, Induction
  <2>7. n - 1 \in Nat /\ (n - 1) + 1 = n
    BY <1>1, <1>3
  <2>8. Flattened(f, ss, S, R, n)
    <3>1. n - 1 \in T
      BY <2>6, <2>7
    <3>2. (n - 1) + 1 <= n => Flattened(f, ss, S, R, (n - 1) + 1)
      BY <3>1 DEF T
    <3> QED
      BY <1>1, <2>7, <3>2
  <2> QED
    BY <1>1, <2>2, <2>8 DEF Flattened
<1> QED
  BY <1>2, <1>3

\* Short sequences.
LEMMA ShortFacts ==
  ASSUME NEW S, NEW R
  PROVE  /\ <<>> \in Seq(S) /\ Members(<<>>) = {} /\ Paired(<<>>, R) /\ DOMAIN <<>> = {}
         /\ \A x \in S : /\ <<x>> \in Seq(S) /\ Members(<<x>>) = {x} /\ Paired(<<x>>, R)
                         /\ Len(<<x>>) = 1 /\ <<x>>[1] = x
<1>1. <<>> \in Seq(S) /\ DOMAIN <<>> = {}
  OBVIOUS
<1>2. Members(<<>>) = {} /\ Paired(<<>>, R)
  BY <1>1 DEF Members, Paired
<1>3. ASSUME NEW x \in S
      PROVE  <<x>> \in Seq(S) /\ Members(<<x>>) = {x} /\ Paired(<<x>>, R) /\ Len(<<x>>) = 1 /\ <<x>>[1] = x
  <2>1. <<x>> \in Seq(S) /\ DOMAIN <<x>> = {1} /\ <<x>>[1] = x /\ Len(<<x>>) = 1
    OBVIOUS
  <2> DEFINE s == <<x>>
  <2>2. s \in Seq(S) /\ DOMAIN s = {1} /\ s[1] = x /\ Len(s) = 1
    BY <2>1
  <2> HIDE DEF s
  <2>3. Members(s) = {x} /\ Paired(s, R)
    BY <2>2 DEF Members, Paired
  <2> QED
    BY <2>2, <2>3 DEF s
<1> QED
  BY <1>1, <1>2, <1>3

\* What is picked keeps its order.
LEMMA PickedFacts ==
  ASSUME NEW S, NEW s \in Seq(S), NEW places, NEW R
  PROVE  /\ Picked(s, places) \in Seq(S)
         /\ Members(Picked(s, places)) = {s[i] : i \in DOMAIN s \cap places}
         /\ Paired(Picked(s, places), R) <=> \A i, k \in DOMAIN s \cap places : i < k => <<s[i], s[k]>> \in R
<1> DEFINE ss == [i \in DOMAIN s |-> IF i \in places THEN <<s[i]>> ELSE <<>>]
<1>1. /\ DOMAIN s = 1..Len(s) /\ Len(s) \in Nat /\ \A i \in DOMAIN s : s[i] \in S
  OBVIOUS
<1>2. \A i \in DOMAIN s : ss[i] = IF i \in places THEN <<s[i]>> ELSE <<>>
  OBVIOUS
<1>3. DOMAIN ss = DOMAIN s
  OBVIOUS
<1>4. ss = [i \in 1..Len(s) |-> ss[i]]
  BY <1>1
<1> HIDE DEF ss
<1>5. \A i \in DOMAIN s : /\ ss[i] \in Seq(S) /\ Paired(ss[i], R)
                          /\ Members(ss[i]) = IF i \in places THEN {s[i]} ELSE {}
  <2> TAKE i \in DOMAIN s
  <2>1. CASE i \in places
    <3> DEFINE x == s[i]
    <3>1. x \in S /\ ss[i] = <<x>>
      BY <1>1, <1>2, <2>1
    <3> HIDE DEF x
    <3>2. <<x>> \in Seq(S) /\ Members(<<x>>) = {x} /\ Paired(<<x>>, R)
      BY <3>1, ShortFacts
    <3> QED
      BY <2>1, <3>1, <3>2 DEF x
  <2>2. CASE i \notin places
    <3>1. ss[i] = <<>>
      BY <1>2, <2>2
    <3>2. <<>> \in Seq(S) /\ Members(<<>>) = {} /\ Paired(<<>>, R)
      BY ShortFacts
    <3> QED
      BY <2>2, <3>1, <3>2
  <2> QED
    BY <2>1, <2>2
<1>6. ss \in Seq(Seq(S))
  BY <1>1, <1>4, <1>5
<1>7. Picked(s, places) = FlattenSeq(ss)
  BY DEF Picked, ss
<1>8. /\ FlattenSeq(ss) \in Seq(S)
      /\ Members(FlattenSeq(ss)) = UNION {Members(ss[i]) : i \in DOMAIN ss}
      /\ Paired(FlattenSeq(ss), R) <=>
           /\ \A i \in DOMAIN ss : Paired(ss[i], R)
           /\ \A i, k \in DOMAIN ss : i < k => \A x \in Members(ss[i]), y \in Members(ss[k]) : <<x, y>> \in R
  BY <1>6, FlattenFacts
<1>9. UNION {Members(ss[i]) : i \in DOMAIN ss} = {s[i] : i \in DOMAIN s \cap places}
  BY <1>3, <1>5
<1>10. (\A i, k \in DOMAIN ss : i < k => \A x \in Members(ss[i]), y \in Members(ss[k]) : <<x, y>> \in R)
         <=> \A i, k \in DOMAIN s \cap places : i < k => <<s[i], s[k]>> \in R
  BY <1>3, <1>5
<1> QED
  BY <1>3, <1>5, <1>7, <1>8, <1>9, <1>10

\* What is selected has the kinds asked for, in the order it had.
LEMMA SelectFacts ==
  ASSUME NEW S, NEW items \in Seq(S), NEW kinds
  PROVE  /\ Select(items, kinds) \in Seq(S)
         /\ Members(Select(items, kinds)) = {x \in Members(items) : x.kind \in kinds}
         /\ \A R : Paired(items, R) => Paired(Select(items, kinds), R)
<1> DEFINE places == {i \in DOMAIN items : items[i].kind \in kinds}
<1>1. /\ Select(items, kinds) \in Seq(S)
      /\ Members(Select(items, kinds)) = {items[i] : i \in DOMAIN items \cap places}
  BY PickedFacts DEF Select
<1>2. ASSUME NEW R, Paired(items, R) PROVE Paired(Select(items, kinds), R)
  <2>1. \A i, k \in DOMAIN items \cap places : i < k => <<items[i], items[k]>> \in R
    BY <1>2 DEF Paired
  <2> HIDE DEF places
  <2>2. Paired(Picked(items, places), R)
    BY <2>1, PickedFacts
  <2> QED
    BY <2>2 DEF Select, places
<1>3. {items[i] : i \in DOMAIN items \cap places} = {x \in Members(items) : x.kind \in kinds}
  BY DEF Members
<1> QED
  BY <1>1, <1>2, <1>3

\* The numbers of a sequence are those of its members.
LEMMA IdsFacts ==
  ASSUME NEW s
  PROVE  Ids(s) = {x.id : x \in Members(s)}
BY DEF Ids, Members

\* A part of a sequence.
LEMMA PartFacts ==
  ASSUME NEW S, NEW s \in Seq(S), NEW b \in 1..Len(s), NEW e \in b..Len(s)
  PROVE  /\ SubSeq(s, b, e) \in Seq(S) /\ Len(SubSeq(s, b, e)) = e - b + 1
         /\ Members(SubSeq(s, b, e)) = {s[i] : i \in b..e}
         /\ \A R : (\A i, k \in b..e : i < k => <<s[i], s[k]>> \in R) => Paired(SubSeq(s, b, e), R)
<1> DEFINE t == SubSeq(s, b, e)
<1>1. /\ t \in Seq(S) /\ Len(t) = e - b + 1 /\ DOMAIN t = 1..(e - b + 1) /\ DOMAIN s = 1..Len(s)
      /\ b \in Nat /\ e \in Nat /\ Len(s) \in Nat /\ b >= 1 /\ e <= Len(s) /\ b <= e
      /\ \A i \in 1..(e - b + 1) : t[i] = s[b + i - 1]
  OBVIOUS
<1> HIDE DEF t
<1>2. \A i \in 1..(e - b + 1) : b + i - 1 \in b..e
  BY <1>1
<1>3. \A i \in b..e : i - b + 1 \in 1..(e - b + 1) /\ b + (i - b + 1) - 1 = i /\ i \in 1..Len(s)
  BY <1>1
<1>4. Members(t) = {s[i] : i \in b..e}
  <2>1. Members(t) \subseteq {s[i] : i \in b..e}
    BY <1>1, <1>2 DEF Members
  <2>2. ASSUME NEW i \in b..e PROVE s[i] \in Members(t)
    <3>1. t[i - b + 1] = s[i] /\ i - b + 1 \in DOMAIN t
      BY <1>1, <1>3
    <3> QED
      BY <3>1 DEF Members
  <2> QED
    BY <2>1, <2>2
<1>5. ASSUME NEW R, \A i, k \in b..e : i < k => <<s[i], s[k]>> \in R PROVE Paired(t, R)
  <2> SUFFICES ASSUME NEW i \in 1..(e - b + 1), NEW j \in 1..(e - b + 1), i < j PROVE <<t[i], t[j]>> \in R
    BY <1>1 DEF Paired
  <2>1. b + i - 1 \in b..e /\ b + j - 1 \in b..e /\ b + i - 1 < b + j - 1
    BY <1>1
  <2>2. <<s[b + i - 1], s[b + j - 1]>> \in R
    BY <1>5, <2>1
  <2> QED
    BY <1>1, <2>2
<1> QED
  BY <1>1, <1>4, <1>5 DEF t

-----------------------------------------------------------------------------
(* Sequences of things that each have a sequence, h[w]: the messages of a     *)
(* request and their items.                                                   *)

\* The items along ws; which two may follow each other; what gives sequences.
Along(ws, h) == FlattenSeq([i \in DOMAIN ws |-> h[ws[i]]])
Across(W, h, R) == {p \in W \X W : \A x \in Members(h[p[1]]), y \in Members(h[p[2]]) : <<x, y>> \in R}

Gives(h, W, S) == h \in [W -> Seq(S)]

\* Two that may follow each other are two whose items may.
LEMMA AcrossFacts ==
  ASSUME NEW W, NEW h, NEW R, NEW v \in W, NEW w \in W
  PROVE  <<v, w>> \in Across(W, h, R) <=> \A x \in Members(h[v]), y \in Members(h[w]) : <<x, y>> \in R
BY DEF Across

\* The items along a sequence: of its members, in its order.
LEMMA AlongFacts ==
  ASSUME NEW S, NEW W, NEW h, Gives(h, W, S), NEW ws \in Seq(W), NEW R
  PROVE  /\ Along(ws, h) \in Seq(S)
         /\ Members(Along(ws, h)) = UNION {Members(h[w]) : w \in Members(ws)}
         /\ Paired(Along(ws, h), R) <=> (\A w \in Members(ws) : Paired(h[w], R)) /\ Paired(ws, Across(W, h, R))
<1> DEFINE ss == [i \in DOMAIN ws |-> h[ws[i]]]
<1>1. Len(ws) \in Nat /\ DOMAIN ws = 1..Len(ws) /\ \A i \in DOMAIN ws : ws[i] \in W /\ ws[i] \in Members(ws)
  BY MemberFacts
<1>2. \A i \in DOMAIN ws : h[ws[i]] \in Seq(S)
  BY <1>1 DEF Gives
<1>3. ss \in Seq(Seq(S))
  BY <1>1, <1>2
<1>4. DOMAIN ss = DOMAIN ws /\ \A i \in DOMAIN ws : ss[i] = h[ws[i]]
  OBVIOUS
<1>5. Along(ws, h) = FlattenSeq(ss)
  BY DEF Along
<1> HIDE DEF ss
<1>6. /\ FlattenSeq(ss) \in Seq(S)
      /\ Members(FlattenSeq(ss)) = UNION {Members(ss[i]) : i \in DOMAIN ss}
      /\ Paired(FlattenSeq(ss), R) <=>
           /\ \A i \in DOMAIN ss : Paired(ss[i], R)
           /\ \A i, k \in DOMAIN ss : i < k => \A x \in Members(ss[i]), y \in Members(ss[k]) : <<x, y>> \in R
  BY <1>3, FlattenFacts
<1>7. UNION {Members(ss[i]) : i \in DOMAIN ss} = UNION {Members(h[w]) : w \in Members(ws)}
  BY <1>4 DEF Members
<1>8. (\A i \in DOMAIN ss : Paired(ss[i], R)) <=> \A w \in Members(ws) : Paired(h[w], R)
  BY <1>4 DEF Members
<1>9. (\A i, k \in DOMAIN ss : i < k => \A x \in Members(ss[i]), y \in Members(ss[k]) : <<x, y>> \in R)
        <=> Paired(ws, Across(W, h, R))
  <2>1. \A i, k \in DOMAIN ws : <<ws[i], ws[k]>> \in Across(W, h, R) <=>
                                  \A x \in Members(ss[i]), y \in Members(ss[k]) : <<x, y>> \in R
    <3> TAKE i, k \in DOMAIN ws
    <3> DEFINE v == ws[i]
               w == ws[k]
    <3>1. v \in W /\ w \in W /\ ss[i] = h[v] /\ ss[k] = h[w]
      BY <1>1, <1>4
    <3> HIDE DEF v, w
    <3>2. <<v, w>> \in Across(W, h, R) <=> \A x \in Members(h[v]), y \in Members(h[w]) : <<x, y>> \in R
      BY <3>1, AcrossFacts
    <3> QED
      BY <3>1, <3>2 DEF v, w
  <2> QED
    BY <1>4, <2>1 DEF Paired
<1> QED
  BY <1>5, <1>6, <1>7, <1>8, <1>9

\* Whatever relates all of two sequences of things relates all that they have.
LEMMA AcrossAll ==
  ASSUME NEW S, NEW W, NEW h, Gives(h, W, S), NEW R, NEW u \in Seq(W), NEW v \in Seq(W)
  PROVE  (\A a \in Members(u), b \in Members(v) : <<a, b>> \in Across(W, h, R)) <=>
           \A x \in Members(Along(u, h)), y \in Members(Along(v, h)) : <<x, y>> \in R
<1>1. Members(Along(u, h)) = UNION {Members(h[a]) : a \in Members(u)}
  BY AlongFacts
<1>2. Members(Along(v, h)) = UNION {Members(h[b]) : b \in Members(v)}
  BY AlongFacts
<1>3. Members(u) \subseteq W /\ Members(v) \subseteq W
  BY MemberFacts
<1>4. \A a \in Members(u), b \in Members(v) :
        <<a, b>> \in Across(W, h, R) <=> \A x \in Members(h[a]), y \in Members(h[b]) : <<x, y>> \in R
  BY <1>3, AcrossFacts
<1> QED
  BY <1>1, <1>2, <1>4

\* The items along a flattened sequence are those along its parts.
LEMMA AlongFlat ==
  ASSUME NEW S, NEW W, NEW h, Gives(h, W, S), NEW ee \in Seq(Seq(W)), NEW R
  PROVE  /\ FlattenSeq(ee) \in Seq(W)
         /\ Members(Along(FlattenSeq(ee), h)) = UNION {Members(Along(ee[i], h)) : i \in DOMAIN ee}
         /\ Paired(Along(FlattenSeq(ee), h), R) <=>
              /\ \A i \in DOMAIN ee : Paired(Along(ee[i], h), R)
              /\ \A i, k \in DOMAIN ee :
                   i < k => \A x \in Members(Along(ee[i], h)), y \in Members(Along(ee[k], h)) : <<x, y>> \in R
<1> DEFINE A == Across(W, h, R)
           ws == FlattenSeq(ee)
<1>1. DOMAIN ee = 1..Len(ee) /\ \A i \in DOMAIN ee : ee[i] \in Seq(W)
  OBVIOUS
<1>2. /\ ws \in Seq(W)
      /\ Members(ws) = UNION {Members(ee[i]) : i \in DOMAIN ee}
      /\ Paired(ws, A) <=>
           /\ \A i \in DOMAIN ee : Paired(ee[i], A)
           /\ \A i, k \in DOMAIN ee : i < k => \A a \in Members(ee[i]), b \in Members(ee[k]) : <<a, b>> \in A
  BY FlattenFacts
<1> HIDE DEF ws
<1>3. /\ Members(Along(ws, h)) = UNION {Members(h[w]) : w \in Members(ws)}
      /\ Paired(Along(ws, h), R) <=> (\A w \in Members(ws) : Paired(h[w], R)) /\ Paired(ws, A)
  BY <1>2, AlongFacts
<1>4. \A i \in DOMAIN ee :
        /\ Members(Along(ee[i], h)) = UNION {Members(h[w]) : w \in Members(ee[i])}
        /\ Paired(Along(ee[i], h), R) <=> (\A w \in Members(ee[i]) : Paired(h[w], R)) /\ Paired(ee[i], A)
  BY <1>1, AlongFacts
<1>5. \A i, k \in DOMAIN ee :
        (\A a \in Members(ee[i]), b \in Members(ee[k]) : <<a, b>> \in A) <=>
           \A x \in Members(Along(ee[i], h)), y \in Members(Along(ee[k], h)) : <<x, y>> \in R
  BY <1>1, AcrossAll
<1>6. UNION {Members(h[w]) : w \in Members(ws)} = UNION {Members(Along(ee[i], h)) : i \in DOMAIN ee}
  BY <1>2, <1>4
<1>7. (\A w \in Members(ws) : Paired(h[w], R)) <=> \A i \in DOMAIN ee : \A w \in Members(ee[i]) : Paired(h[w], R)
  BY <1>2
<1> HIDE DEF A
<1>8. Paired(Along(ws, h), R) <=>
              /\ \A i \in DOMAIN ee : Paired(Along(ee[i], h), R)
              /\ \A i, k \in DOMAIN ee :
                   i < k => \A x \in Members(Along(ee[i], h)), y \in Members(Along(ee[k], h)) : <<x, y>> \in R
  BY <1>2, <1>3, <1>4, <1>5, <1>7
<1> QED
  BY <1>2, <1>3, <1>6, <1>8 DEF ws

\* The items along a concatenation are those along its parts.
LEMMA AlongConcat ==
  ASSUME NEW S, NEW W, NEW h, Gives(h, W, S), NEW u \in Seq(W), NEW v \in Seq(W), NEW R
  PROVE  /\ u \o v \in Seq(W)
         /\ Members(Along(u \o v, h)) = Members(Along(u, h)) \cup Members(Along(v, h))
         /\ Paired(Along(u \o v, h), R) <=>
              /\ Paired(Along(u, h), R) /\ Paired(Along(v, h), R)
              /\ \A x \in Members(Along(u, h)), y \in Members(Along(v, h)) : <<x, y>> \in R
<1> DEFINE A == Across(W, h, R)
           ws == u \o v
<1>1. /\ ws \in Seq(W) /\ Members(ws) = Members(u) \cup Members(v)
      /\ Paired(ws, A) <=> /\ Paired(u, A) /\ Paired(v, A)
                           /\ \A a \in Members(u), b \in Members(v) : <<a, b>> \in A
  BY ConcatFacts
<1> HIDE DEF ws
<1>2. /\ Members(Along(ws, h)) = UNION {Members(h[w]) : w \in Members(ws)}
      /\ Paired(Along(ws, h), R) <=> (\A w \in Members(ws) : Paired(h[w], R)) /\ Paired(ws, A)
  BY <1>1, AlongFacts
<1>3. /\ Members(Along(u, h)) = UNION {Members(h[w]) : w \in Members(u)}
      /\ Paired(Along(u, h), R) <=> (\A w \in Members(u) : Paired(h[w], R)) /\ Paired(u, A)
  BY AlongFacts
<1>4. /\ Members(Along(v, h)) = UNION {Members(h[w]) : w \in Members(v)}
      /\ Paired(Along(v, h), R) <=> (\A w \in Members(v) : Paired(h[w], R)) /\ Paired(v, A)
  BY AlongFacts
<1>5. (\A a \in Members(u), b \in Members(v) : <<a, b>> \in A) <=>
           \A x \in Members(Along(u, h)), y \in Members(Along(v, h)) : <<x, y>> \in R
  BY AcrossAll
<1>6. Members(Along(ws, h)) = Members(Along(u, h)) \cup Members(Along(v, h))
  BY <1>1, <1>2, <1>3, <1>4
<1>7. (\A w \in Members(ws) : Paired(h[w], R)) <=>
        (\A w \in Members(u) : Paired(h[w], R)) /\ (\A w \in Members(v) : Paired(h[w], R))
  BY <1>1
<1> HIDE DEF A
<1>8. Paired(Along(ws, h), R) <=>
              /\ Paired(Along(u, h), R) /\ Paired(Along(v, h), R)
              /\ \A x \in Members(Along(u, h)), y \in Members(Along(v, h)) : <<x, y>> \in R
  BY <1>1, <1>2, <1>3, <1>4, <1>5, <1>7
<1> QED
  BY <1>1, <1>6, <1>8 DEF ws

\* One thing has what it has, and none has nothing.
LEMMA AlongShort ==
  ASSUME NEW S, NEW W, NEW h, Gives(h, W, S), NEW R
  PROVE  /\ <<>> \in Seq(W) /\ Members(Along(<<>>, h)) = {} /\ Paired(Along(<<>>, h), R)
         /\ \A w \in W : /\ <<w>> \in Seq(W) /\ Members(Along(<<w>>, h)) = Members(h[w])
                         /\ Paired(Along(<<w>>, h), R) <=> Paired(h[w], R)
<1> DEFINE A == Across(W, h, R)
           none == <<>>
<1>1. none \in Seq(W) /\ Members(none) = {} /\ Paired(none, A)
  BY ShortFacts
<1>2. <<>> \in Seq(W) /\ Members(Along(<<>>, h)) = {} /\ Paired(Along(<<>>, h), R)
  <2> HIDE DEF none
  <2>1. /\ Members(Along(none, h)) = UNION {Members(h[w]) : w \in Members(none)}
        /\ Paired(Along(none, h), R) <=> (\A w \in Members(none) : Paired(h[w], R)) /\ Paired(none, A)
    BY <1>1, AlongFacts
  <2>2. none \in Seq(W) /\ Members(Along(none, h)) = {} /\ Paired(Along(none, h), R)
    BY <1>1, <2>1
  <2> QED
    BY <2>2 DEF none
<1>3. ASSUME NEW w \in W
      PROVE  /\ <<w>> \in Seq(W) /\ Members(Along(<<w>>, h)) = Members(h[w])
             /\ Paired(Along(<<w>>, h), R) <=> Paired(h[w], R)
  <2> DEFINE one == <<w>>
  <2>1. one \in Seq(W) /\ Members(one) = {w} /\ Paired(one, A)
    BY ShortFacts
  <2> HIDE DEF one
  <2>2. /\ Members(Along(one, h)) = UNION {Members(h[v]) : v \in Members(one)}
        /\ Paired(Along(one, h), R) <=> (\A v \in Members(one) : Paired(h[v], R)) /\ Paired(one, A)
    BY <2>1, AlongFacts
  <2>3. one \in Seq(W) /\ Members(Along(one, h)) = Members(h[w]) /\ (Paired(Along(one, h), R) <=> Paired(h[w], R))
    BY <2>1, <2>2
  <2> QED
    BY <2>3 DEF one
<1> QED
  BY <1>2, <1>3

\* A sequence spread over things that each have one of it: the things have what it has, in its
\* order.
LEMMA AlongOnes ==
  ASSUME NEW S, NEW W, NEW h, Gives(h, W, S), NEW s \in Seq(S), NEW ws, DOMAIN ws = DOMAIN s,
         ws = [i \in DOMAIN s |-> ws[i]],
         \A i \in DOMAIN s : ws[i] \in W /\ Members(h[ws[i]]) = {s[i]} /\ Len(h[ws[i]]) <= 1, NEW R
  PROVE  /\ ws \in Seq(W) /\ Members(Along(ws, h)) = Members(s)
         /\ Paired(Along(ws, h), R) <=> Paired(s, R)
<1>1. Len(s) \in Nat /\ DOMAIN s = 1..Len(s)
  OBVIOUS
<1>2. ws \in Seq(W)
  BY <1>1
<1>3. /\ Members(Along(ws, h)) = UNION {Members(h[w]) : w \in Members(ws)}
      /\ Paired(Along(ws, h), R) <=> (\A w \in Members(ws) : Paired(h[w], R)) /\ Paired(ws, Across(W, h, R))
  BY <1>2, AlongFacts
<1>4. UNION {Members(h[w]) : w \in Members(ws)} = Members(s)
  <2>1. Members(ws) = {ws[i] : i \in DOMAIN s} /\ Members(s) = {s[i] : i \in DOMAIN s}
    BY DEF Members
  <2> DEFINE t == Members(s)
             v == Members(ws)
  <2>2. \A w \in v : Members(h[w]) \subseteq t
    <3> TAKE w \in v
    <3>1. PICK i \in DOMAIN s : w = ws[i]
      BY <2>1
    <3>2. Members(h[w]) = {s[i]} /\ s[i] \in t
      BY <2>1, <3>1
    <3> QED
      BY <3>2
  <2>3. \A x \in t : \E w \in v : x \in Members(h[w])
    <3> TAKE x \in t
    <3>1. PICK i \in DOMAIN s : x = s[i]
      BY <2>1
    <3>2. ws[i] \in v /\ x \in Members(h[ws[i]])
      BY <2>1, <3>1
    <3> QED
      BY <3>2
  <2> HIDE DEF t, v
  <2>4. UNION {Members(h[w]) : w \in v} = t
    BY <2>2, <2>3
  <2> QED
    BY <2>4 DEF t, v
<1>5. \A w \in Members(ws) : Paired(h[w], R)
  <2> SUFFICES ASSUME NEW i \in DOMAIN s PROVE Paired(h[ws[i]], R)
    BY DEF Members
  <2> DEFINE t == h[ws[i]]
  <2>1. t \in Seq(S) /\ Len(t) <= 1
    BY DEF Gives
  <2> HIDE DEF t
  <2>2. DOMAIN t = 1..Len(t) /\ Len(t) \in Nat
    BY <2>1
  <2>3. \A j, k \in DOMAIN t : ~(j < k)
    BY <2>1, <2>2
  <2>4. Paired(t, R)
    BY <2>3 DEF Paired
  <2> QED
    BY <2>4 DEF t
<1>6. \A i, k \in DOMAIN s : <<ws[i], ws[k]>> \in Across(W, h, R) <=> <<s[i], s[k]>> \in R
  <2> TAKE i, k \in DOMAIN s
  <2>1. <<ws[i], ws[k]>> \in Across(W, h, R) <=> \A x \in Members(h[ws[i]]), y \in Members(h[ws[k]]) : <<x, y>> \in R
    BY AcrossFacts
  <2> QED
    BY <2>1
<1>7. Paired(ws, Across(W, h, R)) <=> Paired(s, R)
  BY <1>6 DEF Paired
<1> QED
  BY <1>2, <1>3, <1>4, <1>5, <1>7

\* Things that each have one of a sequence.
OneEach(ws, h, W, s) ==
  /\ DOMAIN ws = DOMAIN s /\ ws = [i \in DOMAIN s |-> ws[i]]
  /\ \A i \in DOMAIN s : ws[i] \in W /\ Members(h[ws[i]]) = {s[i]} /\ Len(h[ws[i]]) <= 1

\* The same of things that OneEach names.
LEMMA AlongSingles ==
  ASSUME NEW S, NEW W, NEW h, Gives(h, W, S), NEW s \in Seq(S), NEW ws, OneEach(ws, h, W, s), NEW R
  PROVE  /\ ws \in Seq(W) /\ Members(Along(ws, h)) = Members(s)
         /\ Paired(Along(ws, h), R) <=> Paired(s, R)
<1>1. DOMAIN ws = DOMAIN s
  BY DEF OneEach
<1>2. ws = [i \in DOMAIN s |-> ws[i]]
  BY DEF OneEach
<1>3. \A i \in DOMAIN s : ws[i] \in W /\ Members(h[ws[i]]) = {s[i]} /\ Len(h[ws[i]]) <= 1
  BY DEF OneEach
<1> QED
  BY <1>1, <1>2, <1>3, AlongOnes

-----------------------------------------------------------------------------
(* The conversation, and how its items may follow each other. *)

\* The items there can be, and the kinds that each speaker has.
Kinds == Contents \cup {"call", "result"}
Things == [id : Nat, by : {"system", "user", "assistant", "tool"}, kind : Kinds, call : Nat]
Sensible(x) ==
  /\ x.by = "system" => x.kind = "text"
  /\ x.by = "user" => x.kind \in Contents
  /\ x.by = "assistant" => x.kind \in {"text", "reasoning", "call"}
  /\ x.by = "tool" <=> x.kind = "result"

\* A part of the inductive invariant: items are numbered, and of their speaker's kinds.
Told == history \in Seq(Things) /\ \A i \in DOMAIN history : history[i].id = i /\ Sensible(history[i])

TheItems == Members(history)

\* Said earlier; said earlier in the same message; allowed to come earlier.
Earlier == {p \in TheItems \X TheItems : p[1].id < p[2].id}
Beside(x, y) == \A i \in x.id..y.id : Side(history[i].by) = Side(y.by) \/ history[i].by = "system"
Near == {p \in TheItems \X TheItems : p[1].id < p[2].id /\ Beside(p[1], p[2])}
MayPrecede(x, y) ==
  /\ x.id # y.id
  /\ x.id > y.id => "system" \in {x.by, y.by} \/ MayPass(x, y)
Allowed == {p \in TheItems \X TheItems : MayPrecede(p[1], p[2])}

\* The relations, by what they say of two items.
LEMMA RelationFacts ==
  ASSUME NEW x, NEW y
  PROVE  /\ <<x, y>> \in Earlier <=> x \in TheItems /\ y \in TheItems /\ x.id < y.id
         /\ <<x, y>> \in Near <=> x \in TheItems /\ y \in TheItems /\ x.id < y.id /\ Beside(x, y)
         /\ <<x, y>> \in Allowed <=> x \in TheItems /\ y \in TheItems /\ MayPrecede(x, y)
<1>1. <<x, y>> \in Earlier <=> x \in TheItems /\ y \in TheItems /\ x.id < y.id
  BY DEF Earlier
<1>2. <<x, y>> \in Near <=> x \in TheItems /\ y \in TheItems /\ x.id < y.id /\ Beside(x, y)
  BY DEF Near
<1>3. <<x, y>> \in Allowed <=> x \in TheItems /\ y \in TheItems /\ MayPrecede(x, y)
  BY DEF Allowed
<1> QED
  BY <1>1, <1>2, <1>3

\* An item of the conversation is the one at its number.
LEMMA ItemFacts ==
  ASSUME Told
  PROVE  /\ Len(history) \in Nat /\ DOMAIN history = 1..Len(history) /\ history \in Seq(TheItems)
         /\ \A i \in DOMAIN history : history[i] \in TheItems /\ history[i].id = i
         /\ \A x \in TheItems : /\ x \in Things /\ Sensible(x) /\ x.id \in Nat
                                /\ x.id \in DOMAIN history /\ history[x.id] = x
<1>1. history \in Seq(Things)
  BY DEF Told
<1>2. /\ Len(history) \in Nat /\ DOMAIN history = 1..Len(history) /\ history \in Seq(TheItems)
      /\ \A i \in DOMAIN history : history[i] \in TheItems /\ history[i] \in Things
  BY <1>1, MemberFacts DEF TheItems
<1>3. \A i \in DOMAIN history : history[i].id = i /\ Sensible(history[i])
  BY DEF Told
<1>4. ASSUME NEW x \in TheItems
      PROVE  x \in Things /\ Sensible(x) /\ x.id \in Nat /\ x.id \in DOMAIN history /\ history[x.id] = x
  <2>1. PICK i \in DOMAIN history : x = history[i]
    BY DEF TheItems, Members
  <2>2. x \in Things /\ Sensible(x) /\ x.id = i
    BY <1>2, <1>3, <2>1
  <2> QED
    BY <2>1, <2>2, <1>2
<1> QED
  BY <1>2, <1>3, <1>4

\* What is nearer may be said: the orders include each other.
LEMMA OrderFacts ==
  ASSUME Told
  PROVE  Near \subseteq Earlier /\ Earlier \subseteq Allowed
<1>1. Near \subseteq Earlier
  BY DEF Near, Earlier
<1>2. Earlier \subseteq Allowed
  <2> SUFFICES ASSUME NEW p \in TheItems \X TheItems, p[1].id < p[2].id PROVE MayPrecede(p[1], p[2])
    BY DEF Earlier, Allowed
  <2>1. p[1].id \in Nat /\ p[2].id \in Nat
    BY ItemFacts
  <2> QED
    BY <2>1 DEF MayPrecede
<1> QED
  BY <1>1, <1>2

\* A relation that says less holds of every pair that one that says more does.
LEMMA PairedMore ==
  ASSUME NEW s, NEW R, NEW Q, R \subseteq Q, Paired(s, R)
  PROVE  Paired(s, Q)
BY DEF Paired

-----------------------------------------------------------------------------
(* The messages of a client. *)

\* Who calls, in which role its API has an item, and messages as they are on the wire.
Callers == {"messages", "chat", "responses", "library"}
RoleOf(c, x) == IF c = "messages" THEN Side(x.by) ELSE x.by
Roles == {"system", "user", "assistant", "tool"}
ItemSeqs == [role : Roles \cup {"call", "result"}, items : Seq(TheItems)]
ItemsOf == [w \in ItemSeqs |-> w.items]

\* The first place of the message that an item is in.
LEMMA BeginFacts ==
  ASSUME NEW c, NEW items, Len(items) \in Nat, DOMAIN items = 1..Len(items), NEW p \in DOMAIN items
  PROVE  \E b \in Begins(c, items) : b <= p /\ \A k \in (b + 1)..p : k \notin Begins(c, items)
<1> DEFINE B == Begins(c, items)
           T == {d \in Nat : d < p /\ p - d \in B}
<1>1. B \subseteq 1..Len(items) /\ (1 \in DOMAIN items => 1 \in B)
  BY DEF Begins
<1> HIDE DEF B
<1>2. p \in 1..Len(items) /\ p \in Nat /\ p - 1 \in Nat /\ p - 1 < p /\ p - (p - 1) = 1 /\ 1 \in DOMAIN items
  OBVIOUS
<1>3. p - 1 \in T
  BY <1>1, <1>2
<1>4. PICK d \in T : \A e \in T : d <= e
  <2>1. T \in SUBSET Nat /\ T # {}
    BY <1>3
  <2> HIDE DEF T
  <2> QED
    BY <2>1, LeastNumber
<1>5. p - d \in B /\ p - d \in Nat /\ p - d <= p /\ d \in Nat
  BY <1>1, <1>2
<1>6. ASSUME NEW k \in (p - d + 1)..p, k \in B PROVE FALSE
  <2>1. p - k \in Nat /\ p - k < d /\ p - (p - k) = k /\ p - k < p
    BY <1>1, <1>2, <1>5, <1>6
  <2>2. p - k \in T
    BY <1>6, <2>1
  <2> QED
    BY <1>4, <1>5, <2>1, <2>2
<1> QED
  BY <1>5, <1>6 DEF B

\* The last place of a message.
LEMMA EndFacts ==
  ASSUME NEW c, NEW items, Len(items) \in Nat, DOMAIN items = 1..Len(items), NEW b \in DOMAIN items
  PROVE  Ends(c, items, b) # {}
<1> DEFINE B == Begins(c, items)
           n == Len(items)
           T == {e \in b..n : e = n \/ e + 1 \in B}
<1>1. b \in 1..n /\ n \in Nat /\ b \in Nat /\ n \in T
  OBVIOUS
<1> HIDE DEF B, n
<1>2. PICK e \in T : \A k \in T : e <= k
  <2>1. T \in SUBSET Nat /\ T # {}
    BY <1>1
  <2> HIDE DEF T
  <2> QED
    BY <2>1, LeastNumber
<1>3. e \in b..n /\ e \in Nat /\ (e = n \/ e + 1 \in B)
  BY <1>1, <1>2
<1>4. ASSUME NEW k \in (b + 1)..e, k \in B PROVE FALSE
  <2>1. k - 1 \in b..n /\ (k - 1) + 1 = k /\ k - 1 < e /\ k - 1 \in Nat
    BY <1>1, <1>3
  <2>2. k - 1 \in T
    BY <1>4, <2>1
  <2> QED
    BY <1>2, <1>3, <2>1, <2>2
<1>5. e \in Ends(c, items, b)
  BY <1>3, <1>4 DEF Ends, B, n
<1> QED
  BY <1>5

\* What a client writes of its conversation, all of it or what is not the system's.
Arranged(c, items) ==
  /\ items \in Seq(TheItems) /\ Paired(items, Earlier)
  /\ \A x \in TheItems : x \notin Members(items) => x.by = "system"
  /\ c = "messages" => \A x \in Members(items) : x.by # "system"

\* A message of a client: one speaker's, one after the other.
GroupsOf(c) ==
  {g \in ItemSeqs : /\ g.role \in Roles /\ Paired(g.items, Near)
                    /\ \A x \in Members(g.items) : RoleOf(c, x) = g.role
                    /\ c = "responses" => Len(g.items) = 1}

\* Items between two of a message are by its speaker, or the system's.
LEMMA BesideFacts ==
  ASSUME Told, NEW c \in Callers, NEW items, Arranged(c, items),
         NEW b \in DOMAIN items, NEW e \in DOMAIN items, NEW role,
         \A k \in b..e : RoleOf(c, items[k]) = role,
         NEW j \in b..e, NEW k \in b..e, j < k
  PROVE  <<items[j], items[k]>> \in Near
<1> DEFINE x == items[j]
           y == items[k]
<1>1. Len(items) \in Nat /\ DOMAIN items = 1..Len(items) /\ \A i \in DOMAIN items : items[i] \in TheItems
  BY DEF Arranged
<1>2. j \in DOMAIN items /\ k \in DOMAIN items /\ j \in Nat /\ k \in Nat /\ b \in Nat /\ e \in Nat
  BY <1>1
<1>3. x \in TheItems /\ y \in TheItems /\ x.id < y.id
  <2>1. <<x, y>> \in Earlier
    BY <1>2 DEF Arranged, Paired
  <2> QED
    BY <2>1, RelationFacts
<1>4. Side(x.by) = Side(y.by) /\ RoleOf(c, y) = role
  BY DEF RoleOf
<1> HIDE DEF x, y
<1>5. ASSUME NEW i \in x.id..y.id, history[i].by # "system" PROVE Side(history[i].by) = Side(y.by)
  <2>1. /\ x.id \in DOMAIN history /\ y.id \in DOMAIN history /\ DOMAIN history = 1..Len(history)
        /\ Len(history) \in Nat /\ \A n \in DOMAIN history : history[n] \in TheItems /\ history[n].id = n
    BY <1>3, ItemFacts
  <2>2. i \in DOMAIN history /\ i \in Nat
    BY <2>1
  <2>3. PICK p \in DOMAIN items : items[p] = history[i]
    BY <1>5, <2>1, <2>2 DEF Arranged, Members
  <2>4. items[p].id = i /\ p \in Nat /\ x.id \in Nat /\ y.id \in Nat
    BY <1>1, <2>1, <2>2, <2>3
  <2>5. ~(p < j)
    <3> SUFFICES ASSUME p < j PROVE FALSE
      OBVIOUS
    <3>1. <<items[p], items[j]>> \in Earlier
      BY <1>2 DEF Arranged, Paired
    <3>2. items[p].id < items[j].id
      BY <3>1, RelationFacts
    <3> QED
      BY <2>2, <2>4, <3>2 DEF x
  <2>6. ~(k < p)
    <3> SUFFICES ASSUME k < p PROVE FALSE
      OBVIOUS
    <3>1. <<items[k], items[p]>> \in Earlier
      BY <1>2 DEF Arranged, Paired
    <3>2. items[k].id < items[p].id
      BY <3>1, RelationFacts
    <3> QED
      BY <2>2, <2>4, <3>2 DEF y
  <2>7. p \in b..e
    BY <1>1, <1>2, <2>4, <2>5, <2>6
  <2>8. RoleOf(c, items[p]) = RoleOf(c, y)
    BY <1>4, <2>7
  <2> QED
    BY <2>3, <2>8 DEF RoleOf
<1>6. Beside(x, y)
  BY <1>5 DEF Beside
<1>7. <<x, y>> \in Near
  BY <1>3, <1>6, RelationFacts
<1> QED
  BY <1>7 DEF x, y

\* The items of a message are by one speaker.
LEMMA SpeakerFacts ==
  ASSUME NEW c \in Callers, NEW items,
         NEW b \in Nat, NEW e \in Nat,
         \A k \in (b + 1)..e : Together(c, items[k - 1], items[k])
  PROVE  \A k \in b..e : RoleOf(c, items[k]) = RoleOf(c, items[b])
<1> DEFINE T == {d \in Nat : b + d <= e => RoleOf(c, items[b + d]) = RoleOf(c, items[b])}
<1>1. 0 \in T
  <2>1. b + 0 = b
    OBVIOUS
  <2> QED
    BY <2>1
<1>2. ASSUME NEW d \in T PROVE d + 1 \in T
  <2>1. d \in Nat /\ (b + d <= e => RoleOf(c, items[b + d]) = RoleOf(c, items[b]))
    OBVIOUS
  <2>2. ASSUME b + (d + 1) <= e PROVE RoleOf(c, items[b + (d + 1)]) = RoleOf(c, items[b])
    <3>1. b + (d + 1) \in (b + 1)..e /\ (b + (d + 1)) - 1 = b + d /\ b + d <= e
      BY <2>1, <2>2
    <3>2. Together(c, items[b + d], items[b + (d + 1)])
      BY <3>1
    <3>3. RoleOf(c, items[b + d]) = RoleOf(c, items[b + (d + 1)])
      BY <3>2 DEF Together, RoleOf, Callers
    <3> QED
      BY <2>1, <3>1, <3>3
  <2>3. d + 1 \in Nat
    BY <2>1
  <2> QED
    BY <2>2, <2>3
<1>3. T = Nat
  <2>1. T \in SUBSET Nat
    OBVIOUS
  <2> HIDE DEF T
  <2> QED
    BY <1>1, <1>2, <2>1, Induction
<1>4. ASSUME NEW k \in b..e PROVE RoleOf(c, items[k]) = RoleOf(c, items[b])
  <2>1. k - b \in Nat /\ b + (k - b) = k /\ k <= e
    OBVIOUS
  <2>2. k - b \in T
    BY <1>3, <2>1
  <2>3. b + (k - b) <= e => RoleOf(c, items[b + (k - b)]) = RoleOf(c, items[b])
    BY <2>2
  <2> QED
    BY <2>1, <2>3
<1> QED
  BY <1>4

\* A message has the items from where it begins to where it ends.
LEMMA GroupFacts ==
  ASSUME Told, NEW c \in Callers, NEW items, Arranged(c, items),
         NEW b \in DOMAIN items
  PROVE  /\ GroupAt(c, items, b) \in GroupsOf(c)
         /\ \E e \in Ends(c, items, b) : Members(GroupAt(c, items, b).items) = {items[i] : i \in b..e}
<1> DEFINE e == CHOOSE e \in Ends(c, items, b) : TRUE
           part == SubSeq(items, b, e)
           role == RoleOf(c, items[b])
           g == GroupAt(c, items, b)
<1>1. /\ Len(items) \in Nat /\ DOMAIN items = 1..Len(items) /\ items \in Seq(TheItems)
      /\ \A i \in DOMAIN items : items[i] \in TheItems
  BY DEF Arranged
<1>2. b \in DOMAIN items
  OBVIOUS
<1>3. e \in Ends(c, items, b)
  BY <1>1, <1>2, EndFacts
<1> HIDE DEF e
<1>4. e \in b..Len(items) /\ \A k \in (b + 1)..e : k \notin Begins(c, items)
  BY <1>3 DEF Ends
<1>5. b \in Nat /\ e \in Nat /\ e \in DOMAIN items /\ b \in 1..Len(items)
  BY <1>1, <1>2, <1>4
<1>6. ASSUME NEW k \in (b + 1)..e PROVE Together(c, items[k - 1], items[k])
  <2>1. k \in DOMAIN items /\ k # 1
    BY <1>1, <1>4, <1>5
  <2>2. k \notin Begins(c, items)
    BY <1>4
  <2> QED
    BY <2>1, <2>2 DEF Begins
<1>7. \A k \in b..e : RoleOf(c, items[k]) = role
  <2>1. \A k \in (b + 1)..e : Together(c, items[k - 1], items[k])
    BY <1>6
  <2>2. b \in Nat /\ e \in Nat
    BY <1>5
  <2> HIDE DEF role, part, g
  <2>3. \A k \in b..e : RoleOf(c, items[k]) = RoleOf(c, items[b])
    BY <2>1, <2>2, SpeakerFacts
  <2> QED
    BY <2>3 DEF role
<1>8. g = [role |-> role, items |-> part]
  BY DEF GroupAt, RoleOf, e
<1>9. role \in Roles
  BY <1>1, <1>2, ItemFacts DEF RoleOf, Side, Things, Roles
<1> HIDE DEF role
<1>10. \A j, k \in b..e : j < k => <<items[j], items[k]>> \in Near
  BY <1>2, <1>5, <1>7, BesideFacts
<1>11. /\ part \in Seq(TheItems) /\ Len(part) = e - b + 1
       /\ Members(part) = {items[i] : i \in b..e} /\ Paired(part, Near)
  BY <1>1, <1>4, <1>5, <1>10, PartFacts
<1> HIDE DEF part
<1>12. \A x \in Members(part) : RoleOf(c, x) = role
  BY <1>7, <1>11
<1>13. c = "responses" => Len(part) = 1
  <2> SUFFICES ASSUME c = "responses" PROVE e = b
    BY <1>5, <1>11
  <2>1. CASE b + 1 <= e
    <3>1. b + 1 \in (b + 1)..e
      BY <1>5, <2>1
    <3>2. Together(c, items[(b + 1) - 1], items[b + 1])
      BY <1>6, <3>1
    <3> QED
      BY <3>2 DEF Together
  <2> QED
    BY <1>4, <1>5, <2>1
<1> HIDE DEF g
<1>14. g \in ItemSeqs /\ g.items = part /\ g.role = role
  BY <1>8, <1>9, <1>11 DEF ItemSeqs
<1>15. g \in GroupsOf(c)
  BY <1>9, <1>11, <1>12, <1>13, <1>14 DEF GroupsOf
<1> QED
  BY <1>3, <1>11, <1>14, <1>15 DEF g

\* ItemsOf gives the items of a message.
LEMMA ItemsOfFacts ==
  /\ Gives(ItemsOf, ItemSeqs, TheItems)
  /\ \A g \in ItemSeqs : ItemsOf[g] = g.items /\ g.items \in Seq(TheItems)
BY DEF Gives, ItemsOf, ItemSeqs

\* The messages of a client have the items it writes, in their order.
LEMMA GroupedFacts ==
  ASSUME Told, NEW c \in Callers, NEW items, Arranged(c, items)
  PROVE  /\ Grouped(c, items) \in Seq(ItemSeqs) /\ Members(Grouped(c, items)) \subseteq GroupsOf(c)
         /\ Members(Along(Grouped(c, items), ItemsOf)) = Members(items)
         /\ Paired(Along(Grouped(c, items), ItemsOf), Earlier)
<1> DEFINE B == Begins(c, items)
           n == Len(items)
           at == [i \in DOMAIN items |-> GroupAt(c, items, i)]
           gs == Grouped(c, items)
           A == Across(ItemSeqs, ItemsOf, Earlier)
<1>1. /\ n \in Nat /\ DOMAIN items = 1..n /\ items \in Seq(TheItems) /\ Paired(items, Earlier)
      /\ \A i \in DOMAIN items : items[i] \in TheItems
  BY DEF Arranged
<1>2. B \subseteq DOMAIN items
  BY DEF Begins
<1>3. \A b \in DOMAIN items :
        /\ at[b] \in GroupsOf(c) /\ at[b] \in ItemSeqs
        /\ \E e \in Ends(c, items, b) : Members(at[b].items) = {items[i] : i \in b..e}
  <2> TAKE b \in DOMAIN items
  <2>1. at[b] = GroupAt(c, items, b)
    OBVIOUS
  <2>2. /\ GroupAt(c, items, b) \in GroupsOf(c)
        /\ \E e \in Ends(c, items, b) : Members(GroupAt(c, items, b).items) = {items[i] : i \in b..e}
    BY Zenon, GroupFacts
  <2> HIDE DEF at
  <2> QED
    BY <2>1, <2>2 DEF GroupsOf
<1>4. gs = Picked(at, B) /\ at = [i \in 1..n |-> at[i]] /\ DOMAIN at = 1..n
  BY <1>1 DEF Grouped
<1> HIDE DEF at, gs, B, n
<1>5. at \in Seq(ItemSeqs)
  BY <1>1, <1>3, <1>4
<1>6. /\ gs \in Seq(ItemSeqs) /\ Members(gs) = {at[b] : b \in 1..n \cap B}
      /\ Paired(gs, A) <=> \A b, d \in 1..n \cap B : b < d => <<at[b], at[d]>> \in A
  <2>1. /\ Picked(at, B) \in Seq(ItemSeqs) /\ Members(Picked(at, B)) = {at[b] : b \in DOMAIN at \cap B}
        /\ Paired(Picked(at, B), A) <=> \A b, d \in DOMAIN at \cap B : b < d => <<at[b], at[d]>> \in A
    BY ONLY <1>5, PickedFacts
  <2> QED
    BY ONLY <1>4, <2>1
<1>7. 1..n \cap B = B
  BY <1>1, <1>2
<1>8. /\ Members(Along(gs, ItemsOf)) = UNION {Members(ItemsOf[g]) : g \in Members(gs)}
      /\ Paired(Along(gs, ItemsOf), Earlier) <=> (\A g \in Members(gs) : Paired(ItemsOf[g], Earlier)) /\ Paired(gs, A)
  BY <1>6, ItemsOfFacts, AlongFacts
<1>9. \A b \in B : ItemsOf[at[b]] = at[b].items /\ Paired(at[b].items, Earlier)
  <2> TAKE b \in B
  <2>1. at[b] \in GroupsOf(c) /\ at[b] \in ItemSeqs
    BY <1>2, <1>3
  <2>2. Paired(at[b].items, Near)
    BY <2>1 DEF GroupsOf
  <2> QED
    BY <2>1, <2>2, ItemsOfFacts, OrderFacts, PairedMore
<1>10. UNION {Members(ItemsOf[g]) : g \in Members(gs)} = UNION {Members(at[b].items) : b \in B}
  BY <1>6, <1>7, <1>9
<1>11. UNION {Members(at[b].items) : b \in B} = Members(items)
  <2>1. ASSUME NEW b \in B PROVE Members(at[b].items) \subseteq Members(items)
    <3>1. PICK e \in Ends(c, items, b) : Members(at[b].items) = {items[i] : i \in b..e}
      BY <1>2, <1>3
    <3>2. e \in b..n /\ b \in 1..n
      BY <1>1, <1>2, <3>1 DEF Ends, n
    <3>3. b..e \subseteq DOMAIN items
      BY <1>1, <3>2
    <3> QED
      BY <3>1, <3>3 DEF Members
  <2>2. ASSUME NEW p \in DOMAIN items PROVE \E b \in B : items[p] \in Members(at[b].items)
    <3>1. PICK b \in B : b <= p /\ \A k \in (b + 1)..p : k \notin B
      BY <1>1, BeginFacts DEF B, n
    <3>2. PICK e \in Ends(c, items, b) : Members(at[b].items) = {items[i] : i \in b..e}
      BY <1>2, <1>3, <3>1
    <3>3. e \in b..n /\ b \in 1..n /\ p \in 1..n /\ (e = n \/ e + 1 \in B)
      BY <1>1, <1>2, <3>1, <3>2 DEF Ends, B, n
    <3>4. b \in Nat /\ p \in Nat /\ e \in Nat /\ b <= p /\ p <= n
      BY <1>1, <3>1, <3>3
    <3>5. e < p => e + 1 \in B /\ e + 1 \in (b + 1)..p
      BY <1>1, <3>3, <3>4
    <3>6. p \in b..e
      BY <3>1, <3>4, <3>5
    <3> QED
      BY <3>1, <3>2, <3>6
  <2>3. UNION {Members(at[b].items) : b \in B} \subseteq Members(items)
    BY ONLY <2>1
  <2>4. \A x \in Members(items) : \E b \in B : x \in Members(at[b].items)
    BY <2>2 DEF Members
  <2> QED
    BY ONLY <2>3, <2>4
<1>12. Paired(gs, A)
  <2> SUFFICES ASSUME NEW b \in B, NEW d \in B, b < d PROVE <<at[b], at[d]>> \in A
    BY <1>6, <1>7
  <2>1. PICK e \in Ends(c, items, b) : Members(at[b].items) = {items[i] : i \in b..e}
    BY <1>2, <1>3
  <2>2. PICK f \in Ends(c, items, d) : Members(at[d].items) = {items[i] : i \in d..f}
    BY <1>2, <1>3
  <2>3. /\ e \in b..n /\ b \in 1..n /\ d \in 1..n /\ f \in d..n /\ \A k \in (b + 1)..e : k \notin B
    BY <1>1, <1>2, <2>1, <2>2 DEF Ends, B, n
  <2>4. e < d
    BY <1>1, <2>3
  <2>5. \A i \in b..e, j \in d..f : i \in DOMAIN items /\ j \in DOMAIN items /\ i < j
    BY <1>1, <2>3, <2>4
  <2>6. \A i \in b..e, j \in d..f : <<items[i], items[j]>> \in Earlier
    BY <1>1, <2>5 DEF Paired
  <2>7. \A x \in Members(at[b].items), y \in Members(at[d].items) : <<x, y>> \in Earlier
    BY <2>1, <2>2, <2>6
  <2>8. at[b] \in ItemSeqs /\ at[d] \in ItemSeqs
    BY <1>2, <1>3
  <2>9. <<at[b], at[d]>> \in A <=> \A x \in Members(ItemsOf[at[b]]), y \in Members(ItemsOf[at[d]]) : <<x, y>> \in Earlier
    BY <2>8, AcrossFacts
  <2> QED
    BY <1>9, <2>7, <2>9
<1>13. \A g \in Members(gs) : Paired(ItemsOf[g], Earlier)
  BY <1>6, <1>7, <1>9
<1>14. Members(gs) \subseteq GroupsOf(c)
  BY <1>2, <1>3, <1>6, <1>7
<1> QED
  BY <1>6, <1>8, <1>10, <1>11, <1>12, <1>13, <1>14 DEF gs

-----------------------------------------------------------------------------
(* Messages of a unified request. *)

\* A message with its three lists, and all of its items.
MessageSeqs == [role : Roles, content : Seq(TheItems), calls : Seq(TheItems), results : Seq(TheItems)]
Spread(m) == (m.content \o m.calls) \o m.results
SpreadOf == [m \in MessageSeqs |-> Spread(m)]

\* What each of the lists has, and in which messages there is something.
Proper(m) ==
  /\ \A x \in Members(m.content) : x.kind \in Contents /\ (m.role = "system" => x.by = "system")
  /\ \A x \in Members(m.calls) : x.kind = "call"
  /\ \A x \in Members(m.results) : x.kind = "result"
  /\ m.role = "tool" => m.content = <<>>
  /\ m.role # "tool" => m.results = <<>>
  /\ m.role # "assistant" => m.calls = <<>>

\* What a message spreads: content, then calls, then results.
LEMMA SpreadFacts ==
  ASSUME NEW m \in MessageSeqs
  PROVE  /\ Spread(m) \in Seq(TheItems) /\ SpreadOf[m] = Spread(m)
         /\ Members(Spread(m)) = Members(m.content) \cup Members(m.calls) \cup Members(m.results)
         /\ \A R : Paired(Spread(m), R) <=>
              /\ Paired(m.content, R) /\ Paired(m.calls, R) /\ Paired(m.results, R)
              /\ \A x \in Members(m.content), y \in Members(m.calls) : <<x, y>> \in R
              /\ \A x \in Members(m.content) \cup Members(m.calls), y \in Members(m.results) : <<x, y>> \in R
<1> DEFINE a == m.content
           b == m.calls
           d == m.results
           f == a \o b
<1>1. a \in Seq(TheItems) /\ b \in Seq(TheItems) /\ d \in Seq(TheItems)
  BY DEF MessageSeqs
<1> HIDE DEF a, b, d
<1>2. f \in Seq(TheItems) /\ Members(f) = Members(a) \cup Members(b)
  BY <1>1, ConcatFacts
<1>3. \A R : Paired(f, R) <=> /\ Paired(a, R) /\ Paired(b, R)
                              /\ \A x \in Members(a), y \in Members(b) : <<x, y>> \in R
  BY <1>1, ConcatFacts
<1> HIDE DEF f
<1>4. f \o d \in Seq(TheItems) /\ Members(f \o d) = Members(f) \cup Members(d)
  BY <1>1, <1>2, ConcatFacts
<1>5. \A R : Paired(f \o d, R) <=> /\ Paired(f, R) /\ Paired(d, R)
                                   /\ \A x \in Members(f), y \in Members(d) : <<x, y>> \in R
  BY <1>1, <1>2, ConcatFacts
<1>6. Spread(m) = f \o d /\ SpreadOf[m] = Spread(m)
  BY DEF Spread, SpreadOf, f, a, b, d
<1>7. \A R : Paired(Spread(m), R) <=>
              /\ Paired(a, R) /\ Paired(b, R) /\ Paired(d, R)
              /\ \A x \in Members(a), y \in Members(b) : <<x, y>> \in R
              /\ \A x \in Members(a) \cup Members(b), y \in Members(d) : <<x, y>> \in R
  BY <1>2, <1>3, <1>5, <1>6
<1> QED
  BY <1>2, <1>4, <1>6, <1>7 DEF a, b, d

\* SpreadOf gives what a message spreads.
LEMMA SpreadOfFacts ==
  Gives(SpreadOf, MessageSeqs, TheItems)
<1>1. \A m \in MessageSeqs : Spread(m) \in Seq(TheItems)
  BY SpreadFacts
<1> QED
  BY <1>1 DEF Gives, SpreadOf

\* A message has the lists it is made of.
LEMMA MessageFacts ==
  ASSUME NEW role \in Roles, NEW a \in Seq(TheItems), NEW b \in Seq(TheItems), NEW d \in Seq(TheItems)
  PROVE  LET m == Message(role, a, b, d) IN
         m \in MessageSeqs /\ m.role = role /\ m.content = a /\ m.calls = b /\ m.results = d
BY DEF Message, MessageSeqs

-----------------------------------------------------------------------------
(* What an endpoint makes of a message. *)

\* In a message, content may come before calls and results; it has no two of a kind.
LEMMA PassFacts ==
  ASSUME Told, NEW c, NEW g \in GroupsOf(c), NEW x \in Members(g.items), NEW y \in Members(g.items),
         x.kind \in Contents, y.kind \notin Contents
  PROVE  <<x, y>> \in Allowed
<1>1. Paired(g.items, Near)
  BY DEF GroupsOf
<1>2. PICK j \in DOMAIN g.items : x = g.items[j]
  BY DEF Members
<1>3. PICK k \in DOMAIN g.items : y = g.items[k]
  BY DEF Members
<1>4. j \in Int /\ k \in Int /\ j # k
  <2>1. g.items \in Seq(TheItems)
    BY DEF GroupsOf, ItemSeqs
  <2>2. DOMAIN g.items = 1..Len(g.items)
    BY <2>1
  <2> QED
    BY <1>2, <1>3, <2>2
<1>5. CASE j < k
  <2>1. <<x, y>> \in Near
    BY <1>1, <1>2, <1>3, <1>5 DEF Paired
  <2> QED
    BY <2>1, OrderFacts
<1>6. CASE k < j
  <2>1. <<y, x>> \in Near
    BY <1>1, <1>2, <1>3, <1>6 DEF Paired
  <2>2. x \in TheItems /\ y \in TheItems /\ y.id < x.id /\ Beside(y, x)
    BY <2>1, RelationFacts
  <2>3. MayPass(x, y)
    BY <2>2 DEF MayPass, Beside
  <2>4. x.id \in Nat /\ y.id \in Nat
    BY <2>2, ItemFacts
  <2>5. MayPrecede(x, y)
    BY <2>2, <2>3, <2>4 DEF MayPrecede
  <2> QED
    BY <2>2, <2>5, RelationFacts
<1> QED
  BY <1>4, <1>5, <1>6

\* The kinds of items by the role of their message.
LEMMA RoleKinds ==
  ASSUME Told, NEW c \in Callers, NEW g \in GroupsOf(c), NEW x \in Members(g.items)
  PROVE  /\ x \in TheItems /\ x.kind \in Kinds /\ g.items \in Seq(TheItems) /\ g.role \in Roles
         /\ g.role = "user" => x.kind # "call" /\ (c # "messages" => x.kind # "result")
         /\ g.role = "assistant" => x.kind # "result"
         /\ g.role = "tool" => x.kind = "result" /\ c # "messages"
         /\ g.role = "system" => x.kind \in Contents /\ x.by = "system"
<1>1. g.items \in Seq(TheItems) /\ g.role \in Roles /\ RoleOf(c, x) = g.role
  BY DEF GroupsOf, ItemSeqs, Roles
<1>2. x \in TheItems
  BY <1>1, MemberFacts
<1>3. x \in Things /\ Sensible(x)
  BY <1>2, ItemFacts
<1>4. x.by \in {"system", "user", "assistant", "tool"} /\ x.kind \in Kinds
  BY <1>3 DEF Things
<1>5. /\ g.role = "user" => x.kind # "call" /\ (c # "messages" => x.kind # "result")
      /\ g.role = "assistant" => x.kind # "result"
      /\ g.role = "tool" => x.kind = "result" /\ c # "messages"
      /\ g.role = "system" => x.kind \in Contents /\ x.by = "system"
  BY <1>1, <1>3, <1>4 DEF RoleOf, Side, Sensible, Contents
<1> QED
  BY <1>1, <1>2, <1>4, <1>5

\* Of a message, what is picked by its kinds: two sorts of items have an order.
LEMMA SortFacts ==
  ASSUME Told, NEW c \in Callers, NEW g \in GroupsOf(c), NEW kinds
  PROVE  /\ Select(g.items, kinds) \in Seq(TheItems)
         /\ Members(Select(g.items, kinds)) = {x \in Members(g.items) : x.kind \in kinds}
         /\ Paired(Select(g.items, kinds), Allowed)
<1>1. g.items \in Seq(TheItems) /\ Paired(g.items, Near)
  BY DEF GroupsOf, ItemSeqs
<1>2. Paired(g.items, Allowed)
  <2>1. Near \subseteq Allowed
    BY OrderFacts
  <2> QED
    BY <1>1, <2>1, PairedMore
<1> QED
  BY <1>1, <1>2, SelectFacts

\* What is decoded of a message: what of its items, in which order.
Decodes(d, g) ==
  /\ d.messages \in Seq(MessageSeqs) /\ \A m \in Members(d.messages) : Proper(m)
  /\ d.instructions \in Seq(TheItems) /\ \A x \in Members(d.instructions) : x.by = "system"
  /\ \A x \in TheItems : x \in Members(g.items) /\ x.id \notin d.dropped <=>
                           x \in Members(Along(d.messages, SpreadOf)) \cup Members(d.instructions)
  /\ \A n \in d.dropped : \E x \in Members(g.items) : x.id = n
  /\ Paired(Along(d.messages, SpreadOf), Allowed) /\ Paired(d.instructions, Allowed)
  /\ d.instructions = <<>> \/ d.messages = <<>>

\* Items are the same when their numbers are, so what is dropped is dropped by its kind.
LEMMA DroppedFacts ==
  ASSUME Told, NEW s \in Seq(TheItems), NEW kinds
  PROVE  /\ \A x \in TheItems : x.id \in Ids(Select(s, kinds)) <=> x \in Members(s) /\ x.kind \in kinds
         /\ \A n \in Ids(Select(s, kinds)) : \E x \in Members(s) : x.id = n
<1>1. Members(Select(s, kinds)) = {x \in Members(s) : x.kind \in kinds}
  BY SelectFacts
<1>2. Ids(Select(s, kinds)) = {x.id : x \in Members(Select(s, kinds))}
  BY IdsFacts
<1>3. Members(s) \subseteq TheItems
  BY MemberFacts
<1>4. \A x, y \in TheItems : x.id = y.id => x = y
  <2> TAKE x, y \in TheItems
  <2>1. history[x.id] = x /\ history[y.id] = y
    BY ItemFacts
  <2> QED
    BY <2>1
<1> QED
  BY <1>1, <1>2, <1>3, <1>4

\* A message of the items of one message, or a part of them.
Sorted(role, items, kinds) ==
  Message(role, Select(items, kinds), Select(items, {"call"}), Select(items, {"result"}))

\* Sorting a message into its lists keeps its items, and an order that is allowed.
LEMMA SortedFacts ==
  ASSUME Told, NEW c \in Callers, NEW g \in GroupsOf(c), NEW role \in Roles, NEW kinds \in SUBSET Contents
  PROVE  LET m == Sorted(role, g.items, kinds) IN
         /\ m \in MessageSeqs /\ Paired(Spread(m), Allowed)
         /\ Members(Spread(m)) = {x \in Members(g.items) : x.kind \in kinds \cup {"call", "result"}}
<1> DEFINE a == Select(g.items, kinds)
           b == Select(g.items, {"call"})
           d == Select(g.items, {"result"})
           m == Message(role, a, b, d)
<1>1. /\ a \in Seq(TheItems) /\ Members(a) = {x \in Members(g.items) : x.kind \in kinds} /\ Paired(a, Allowed)
      /\ b \in Seq(TheItems) /\ Members(b) = {x \in Members(g.items) : x.kind \in {"call"}} /\ Paired(b, Allowed)
      /\ d \in Seq(TheItems) /\ Members(d) = {x \in Members(g.items) : x.kind \in {"result"}} /\ Paired(d, Allowed)
  BY SortFacts
<1> HIDE DEF a, b, d
<1>2. m \in MessageSeqs /\ m.content = a /\ m.calls = b /\ m.results = d
  BY <1>1, MessageFacts
<1> HIDE DEF m
<1>3. "call" \notin Contents /\ "result" \notin Contents
  BY DEF Contents
<1>4. \A x \in Members(a), y \in Members(b) \cup Members(d) : <<x, y>> \in Allowed
  BY <1>1, <1>3, PassFacts
<1>5. \A x \in Members(b), y \in Members(d) : <<x, y>> \in Allowed
  <2> SUFFICES ASSUME NEW x \in Members(b), NEW y \in Members(d) PROVE FALSE
    OBVIOUS
  <2>1. x \in Members(g.items) /\ x.kind = "call" /\ y \in Members(g.items) /\ y.kind = "result"
    BY <1>1
  <2>2. g.role # "user" /\ g.role # "assistant" /\ g.role # "tool" /\ g.role # "system"
    BY <2>1, RoleKinds, <1>3
  <2>3. g.role \in Roles
    BY <2>1, RoleKinds
  <2> QED
    BY <2>2, <2>3 DEF Roles
<1>6. /\ Members(Spread(m)) = Members(a) \cup Members(b) \cup Members(d)
      /\ Paired(Spread(m), Allowed)
  BY <1>1, <1>2, <1>4, <1>5, SpreadFacts
<1> QED
  BY <1>1, <1>2, <1>6 DEF m, a, b, d, Sorted

\* A message for itself.
LEMMA AloneFacts ==
  ASSUME NEW m \in MessageSeqs
  PROVE  /\ <<m>> \in Seq(MessageSeqs) /\ Members(<<m>>) = {m}
         /\ Members(Along(<<m>>, SpreadOf)) = Members(Spread(m))
         /\ Paired(Along(<<m>>, SpreadOf), Allowed) <=> Paired(Spread(m), Allowed)
<1> DEFINE one == <<m>>
           A == Across(MessageSeqs, SpreadOf, Allowed)
<1>1. SpreadOf[m] = Spread(m) /\ Gives(SpreadOf, MessageSeqs, TheItems)
  BY SpreadFacts, SpreadOfFacts
<1>2. one \in Seq(MessageSeqs) /\ Members(one) = {m} /\ Paired(one, A)
  BY ShortFacts
<1> HIDE DEF one
<1>3. /\ Members(Along(one, SpreadOf)) = UNION {Members(SpreadOf[w]) : w \in Members(one)}
      /\ Paired(Along(one, SpreadOf), Allowed) <=> (\A w \in Members(one) : Paired(SpreadOf[w], Allowed)) /\ Paired(one, A)
  BY <1>1, <1>2, AlongFacts
<1>4. /\ Members(Along(one, SpreadOf)) = Members(Spread(m))
      /\ Paired(Along(one, SpreadOf), Allowed) <=> Paired(Spread(m), Allowed)
  BY <1>1, <1>2, <1>3
<1> QED
  BY <1>2, <1>4 DEF one

\* Nothing at all has no items.
LEMMA NothingFacts ==
  /\ <<>> \in Seq(TheItems) /\ <<>> \in Seq(MessageSeqs) /\ Members(<<>>) = {} /\ Paired(<<>>, Allowed)
  /\ Members(Along(<<>>, SpreadOf)) = {} /\ Paired(Along(<<>>, SpreadOf), Allowed)
<1>1. <<>> \in Seq(TheItems) /\ <<>> \in Seq(MessageSeqs) /\ Members(<<>>) = {} /\ Paired(<<>>, Allowed)
  BY ShortFacts
<1>2. Members(Along(<<>>, SpreadOf)) = {} /\ Paired(Along(<<>>, SpreadOf), Allowed)
  BY SpreadOfFacts, AlongShort
<1> QED
  BY <1>1, <1>2

\* A message whose items are all its own decodes to it when the rest is dropped.
LEMMA OneDecodes ==
  ASSUME Told, NEW c \in Callers, NEW g \in GroupsOf(c), NEW m \in MessageSeqs, Proper(m),
         NEW kinds \in SUBSET Contents, NEW dropped,
         Members(Spread(m)) = {x \in Members(g.items) : x.kind \in kinds \cup {"call", "result"}},
         Paired(Spread(m), Allowed),
         \A x \in Members(g.items) : x.id \in dropped <=> x.kind \in Contents \ kinds,
         \A n \in dropped : \E x \in Members(g.items) : x.id = n
  PROVE  Decodes(Decoded(<<m>>, <<>>, dropped), g)
<1> DEFINE d == Decoded(<<m>>, <<>>, dropped)
           none == <<>>
           one == <<m>>
<1>1. d.messages = one /\ d.instructions = none /\ d.dropped = dropped
  BY DEF Decoded
<1>2. none \in Seq(TheItems) /\ Members(none) = {} /\ Paired(none, Allowed)
  BY NothingFacts
<1>3. /\ one \in Seq(MessageSeqs) /\ Members(one) = {m} /\ Members(Along(one, SpreadOf)) = Members(Spread(m))
      /\ Paired(Along(one, SpreadOf), Allowed)
  BY AloneFacts
<1> HIDE DEF one
<1>4. \A x \in Members(g.items) : x \in TheItems /\ x.kind \in Contents \cup {"call", "result"}
  BY RoleKinds DEF Kinds
<1>5. "call" \notin Contents /\ "result" \notin Contents
  BY DEF Contents
<1>6. \A x \in TheItems : x \in Members(g.items) /\ x.id \notin dropped <=>
                           x \in Members(Along(one, SpreadOf)) \cup Members(none)
  BY <1>2, <1>3, <1>4, <1>5
<1> HIDE DEF d
<1>7. d.instructions = <<>>
  BY <1>1
<1> HIDE DEF none
<1>8. Decodes(d, g)
  BY <1>1, <1>2, <1>3, <1>6, <1>7 DEF Decodes
<1> QED
  BY <1>8 DEF d

\* A list without members is empty.
LEMMA EmptyFacts ==
  ASSUME NEW s \in Seq(TheItems), Members(s) = {}
  PROVE  s = <<>>
BY MemberFacts

\* The message of a message's items, its lists by their kinds.
LEMMA ProperFacts ==
  ASSUME Told, NEW c \in Callers, NEW g \in GroupsOf(c), NEW kinds \in SUBSET Contents,
         c = "messages" => Select(g.items, {"result"}) = <<>>
  PROVE  Proper(Sorted(g.role, g.items, kinds))
<1> DEFINE a == Select(g.items, kinds)
           b == Select(g.items, {"call"})
           d == Select(g.items, {"result"})
           m == Message(g.role, a, b, d)
<1>1. /\ a \in Seq(TheItems) /\ Members(a) = {x \in Members(g.items) : x.kind \in kinds}
      /\ b \in Seq(TheItems) /\ Members(b) = {x \in Members(g.items) : x.kind \in {"call"}}
      /\ d \in Seq(TheItems) /\ Members(d) = {x \in Members(g.items) : x.kind \in {"result"}}
      /\ c = "messages" => d = <<>>
  BY SortFacts
<1>2. g.role \in Roles
  BY DEF GroupsOf, ItemSeqs, Roles
<1> HIDE DEF a, b, d
<1>3. m.role = g.role /\ m.content = a /\ m.calls = b /\ m.results = d
  BY <1>1, <1>2, MessageFacts
<1> HIDE DEF m
<1>4. "call" \notin Contents /\ "result" \notin Contents
  BY DEF Contents
<1>5. \A x \in Members(a) : x.kind \in Contents /\ (g.role = "system" => x.by = "system")
  BY <1>1, RoleKinds
<1>6. g.role = "tool" => a = <<>>
  <2> SUFFICES ASSUME g.role = "tool" PROVE Members(a) = {}
    BY <1>1, EmptyFacts
  <2> QED
    BY <1>1, <1>4, RoleKinds
<1>7. g.role # "tool" => d = <<>>
  <2> SUFFICES ASSUME g.role # "tool", c # "messages" PROVE Members(d) = {}
    BY <1>1, EmptyFacts
  <2> SUFFICES ASSUME NEW x \in Members(g.items), x.kind = "result" PROVE FALSE
    BY <1>1
  <2>1. g.role # "user" /\ g.role # "assistant" /\ g.role # "system"
    BY <1>4, RoleKinds
  <2> QED
    BY <1>2, <2>1 DEF Roles
<1>8. g.role # "assistant" => b = <<>>
  <2> SUFFICES ASSUME g.role # "assistant" PROVE Members(b) = {}
    BY <1>1, EmptyFacts
  <2> SUFFICES ASSUME NEW x \in Members(g.items), x.kind = "call" PROVE FALSE
    BY <1>1
  <2>1. g.role # "user" /\ g.role # "tool" /\ g.role # "system"
    BY <1>4, RoleKinds
  <2> QED
    BY <1>2, <2>1 DEF Roles
<1>9. Proper(m)
  BY <1>1, <1>3, <1>5, <1>6, <1>7, <1>8 DEF Proper
<1> QED
  BY <1>9 DEF m, a, b, d, Sorted

\* A message that is kept in one, but for the kinds of content its API has no form for.
LEMMA KeptDecodes ==
  ASSUME Told, NEW c \in Callers, NEW g \in GroupsOf(c), NEW kinds \in SUBSET Contents,
         NEW others, others \cap Contents = Contents \ kinds, others \subseteq Contents,
         c = "messages" => Select(g.items, {"result"}) = <<>>
  PROVE  Decodes(Decoded(<<Sorted(g.role, g.items, kinds)>>, <<>>, Ids(Select(g.items, others))), g)
<1> DEFINE m == Sorted(g.role, g.items, kinds)
           dropped == Ids(Select(g.items, others))
<1>1. Proper(m)
  BY ProperFacts
<1>2. g.role \in Roles /\ g.items \in Seq(TheItems)
  BY DEF GroupsOf, ItemSeqs, Roles
<1>3. /\ m \in MessageSeqs /\ Paired(Spread(m), Allowed)
      /\ Members(Spread(m)) = {x \in Members(g.items) : x.kind \in kinds \cup {"call", "result"}}
  <2> DEFINE role == g.role
  <2>1. role \in Roles /\ m = Sorted(role, g.items, kinds)
    BY <1>2
  <2> HIDE DEF m, role
  <2>2. LET w == Sorted(role, g.items, kinds) IN
        /\ w \in MessageSeqs /\ Paired(Spread(w), Allowed)
        /\ Members(Spread(w)) = {x \in Members(g.items) : x.kind \in kinds \cup {"call", "result"}}
    BY <2>1, SortedFacts
  <2> QED
    BY <2>1, <2>2
<1> HIDE DEF m
<1>4. Members(g.items) \subseteq TheItems
  BY <1>2, MemberFacts
<1>5. /\ \A x \in Members(g.items) : x.id \in dropped <=> x.kind \in Contents \ kinds
      /\ \A n \in dropped : \E x \in Members(g.items) : x.id = n
  BY <1>2, <1>4, DroppedFacts
<1> HIDE DEF dropped
<1>6. Decodes(Decoded(<<m>>, <<>>, dropped), g)
  BY <1>1, <1>3, <1>5, OneDecodes
<1> QED
  BY <1>6 DEF m, dropped

\* Nothing is added by nothing.
LEMMA ConcatNothing ==
  ASSUME NEW S, NEW s \in Seq(S)
  PROVE  s \o <<>> = s
OBVIOUS

\* What the Messages endpoint makes of a message has its items, or names them as dropped.
LEMMA AnthropicDecodes ==
  ASSUME Told, NEW g \in GroupsOf("messages")
  PROVE  Decodes(DecodeAnthropicMessage(g), g)
<1> DEFINE kinds == {"text", "reasoning", "image_url", "image_base64"}
           others == {"image_file", "document"}
           kept == Select(g.items, kinds)
           calls == Select(g.items, {"call"})
           results == Select(g.items, {"result"})
           dropped == Ids(Select(g.items, others))
           d == DecodeAnthropicMessage(g)
<1>1. /\ kept \in Seq(TheItems) /\ Members(kept) = {x \in Members(g.items) : x.kind \in kinds} /\ Paired(kept, Allowed)
      /\ calls \in Seq(TheItems) /\ Members(calls) = {x \in Members(g.items) : x.kind \in {"call"}}
      /\ results \in Seq(TheItems) /\ Members(results) = {x \in Members(g.items) : x.kind \in {"result"}}
      /\ Paired(results, Allowed) /\ "messages" \in Callers /\ g.items \in Seq(TheItems) /\ g.role \in Roles
  <2>1. "messages" \in Callers /\ g.items \in Seq(TheItems) /\ g.role \in Roles
    BY DEF Callers, GroupsOf, ItemSeqs, Roles
  <2> QED
    BY <2>1, SortFacts
<1>2. others \cap Contents = Contents \ kinds /\ others \subseteq Contents /\ kinds \in SUBSET Contents
      /\ "call" \notin Contents /\ "result" \notin Contents
  BY DEF Contents
<1>3. CASE results = <<>> \/ g.role # "user"
  <2>1. results = <<>>
    <3> SUFFICES ASSUME g.role # "user" PROVE Members(results) = {}
      BY <1>1, <1>3, EmptyFacts
    <3> SUFFICES ASSUME NEW x \in Members(g.items), x.kind = "result" PROVE FALSE
      BY <1>1
    <3>1. g.role # "user" /\ g.role # "assistant" /\ g.role # "tool" /\ g.role # "system"
      BY <1>1, <1>2, RoleKinds
    <3> QED
      BY <1>1, <3>1 DEF Roles
  <2> DEFINE m == Message(g.role, kept, calls, results)
             one == <<m>>
  <2>2. Decodes(Decoded(one, <<>>, dropped), g)
    <3>1. m = Sorted(g.role, g.items, kinds)
      BY DEF Sorted
    <3> HIDE DEF m, others, kinds
    <3> QED
      BY <1>1, <1>2, <2>1, <3>1, KeptDecodes
  <2>3. one \in Seq({m})
    OBVIOUS
  <2>4. m = Message(g.role, kept, calls, <<>>)
    BY <2>1
  <2> HIDE DEF kept, calls, results
  <2>5. one \o <<>> = one
    <3> HIDE DEF one, m
    <3> QED
      BY <2>3, ConcatNothing
  <2>6. d = Decoded(one, <<>>, dropped)
    BY <2>1, <2>4, <2>5 DEF DecodeAnthropicMessage, kept, calls, results
  <2> QED
    BY <2>2, <2>6
<1>4. CASE results # <<>> /\ g.role = "user"
  <2> DEFINE u == Message("user", kept, calls, <<>>)
             t == Message("tool", <<>>, <<>>, results)
             rest == IF kept = <<>> /\ calls = <<>> THEN <<>> ELSE <<u>>
             last == <<t>>
             none == <<>>
  <2>1. calls = <<>>
    <3> SUFFICES ASSUME NEW x \in Members(g.items), x.kind = "call" PROVE FALSE
      BY <1>1, EmptyFacts
    <3> QED
      BY <1>1, <1>4, RoleKinds
  <2>2. d.messages = rest \o last /\ d.instructions = none /\ d.dropped = dropped
    BY <1>4 DEF DecodeAnthropicMessage, Decoded
  <2> HIDE DEF d, kept, calls, results
  <2>3. none \in Seq(TheItems) /\ none \in Seq(MessageSeqs) /\ Members(none) = {} /\ Paired(none, Allowed)
        /\ Members(Along(none, SpreadOf)) = {} /\ Paired(Along(none, SpreadOf), Allowed)
    BY NothingFacts
  <2>4. /\ u \in MessageSeqs /\ u.role = "user" /\ u.content = kept /\ u.calls = none /\ u.results = none
        /\ t \in MessageSeqs /\ t.role = "tool" /\ t.content = none /\ t.calls = none /\ t.results = results
    <3>1. "user" \in Roles /\ "tool" \in Roles /\ calls = none
      BY <2>1 DEF Roles
    <3>2. u = Message("user", kept, calls, none) /\ t = Message("tool", none, none, results)
      OBVIOUS
    <3> HIDE DEF u, t, none
    <3>3. u \in MessageSeqs /\ u.role = "user" /\ u.content = kept /\ u.calls = calls /\ u.results = none
      BY <1>1, <2>3, <3>1, <3>2, MessageFacts
    <3>4. t \in MessageSeqs /\ t.role = "tool" /\ t.content = none /\ t.calls = none /\ t.results = results
      BY <1>1, <2>3, <3>1, <3>2, MessageFacts
    <3> QED
      BY <3>1, <3>3, <3>4
  <2>5. Proper(u) /\ Proper(t)
    <3>1. none = <<>>
      OBVIOUS
    <3> HIDE DEF u, t, none
    <3> QED
      BY <1>1, <1>2, <2>3, <2>4, <3>1 DEF Proper
  <2> HIDE DEF u, t
  <2>6. /\ Members(Spread(u)) = Members(kept) /\ Paired(Spread(u), Allowed)
        /\ Members(Spread(t)) = Members(results) /\ Paired(Spread(t), Allowed)
    <3> HIDE DEF none
    <3>1. \A m \in {u, t} :
            /\ Members(Spread(m)) = Members(m.content) \cup Members(m.calls) \cup Members(m.results)
            /\ Paired(Spread(m), Allowed) <=>
                 /\ Paired(m.content, Allowed) /\ Paired(m.calls, Allowed) /\ Paired(m.results, Allowed)
                 /\ \A x \in Members(m.content), y \in Members(m.calls) : <<x, y>> \in Allowed
                 /\ \A x \in Members(m.content) \cup Members(m.calls), y \in Members(m.results) : <<x, y>> \in Allowed
      BY <2>4, SpreadFacts
    <3> QED
      BY <1>1, <2>3, <2>4, <3>1
  <2>7. /\ last \in Seq(MessageSeqs) /\ Members(last) = {t} /\ Members(Along(last, SpreadOf)) = Members(results)
        /\ Paired(Along(last, SpreadOf), Allowed)
    BY <2>4, <2>6, AloneFacts
  <2>8. /\ rest \in Seq(MessageSeqs) /\ Members(rest) \subseteq {u} /\ Members(Along(rest, SpreadOf)) = Members(kept)
        /\ Paired(Along(rest, SpreadOf), Allowed)
    <3>1. CASE kept = <<>>
      <4>1. rest = none /\ kept = none
        BY <2>1, <3>1
      <4> HIDE DEF rest, none
      <4> QED
        BY <2>3, <4>1
    <3>2. CASE kept # <<>>
      <4>1. rest = <<u>>
        BY <3>2
      <4> HIDE DEF rest
      <4> QED
        BY <2>4, <2>6, <4>1, AloneFacts
    <3> QED
      BY <3>1, <3>2
  <2> HIDE DEF rest, last
  <2>9. /\ d.messages \in Seq(MessageSeqs) /\ Members(d.messages) \subseteq {u, t}
        /\ Members(Along(d.messages, SpreadOf)) = Members(kept) \cup Members(results)
        /\ Paired(Along(d.messages, SpreadOf), Allowed)
    <3>1. /\ rest \o last \in Seq(MessageSeqs) /\ Members(rest \o last) = Members(rest) \cup Members(last)
      BY <2>7, <2>8, ConcatFacts
    <3>2. \A x \in Members(kept), y \in Members(results) : <<x, y>> \in Allowed
      BY <1>1, <1>2, PassFacts
    <3>3. /\ Members(Along(rest \o last, SpreadOf)) = Members(Along(rest, SpreadOf)) \cup Members(Along(last, SpreadOf))
          /\ Paired(Along(rest \o last, SpreadOf), Allowed) <=>
               /\ Paired(Along(rest, SpreadOf), Allowed) /\ Paired(Along(last, SpreadOf), Allowed)
               /\ \A x \in Members(Along(rest, SpreadOf)), y \in Members(Along(last, SpreadOf)) : <<x, y>> \in Allowed
      BY <2>7, <2>8, SpreadOfFacts, AlongConcat
    <3> QED
      BY <2>2, <2>7, <2>8, <3>1, <3>2, <3>3
  <2>10. /\ \A x \in TheItems : x.id \in dropped <=> x \in Members(g.items) /\ x.kind \in others
         /\ \A n \in dropped : \E x \in Members(g.items) : x.id = n
    BY <1>1, DroppedFacts
  <2> HIDE DEF dropped
  <2>11. \A x \in TheItems : x \in Members(g.items) /\ x.id \notin dropped <=>
                               x \in Members(Along(d.messages, SpreadOf)) \cup Members(none)
    <3>1. \A x \in Members(g.items) : x.kind \in Contents \cup {"result"}
      BY <1>1, <1>4, RoleKinds DEF Kinds
    <3> QED
      BY <1>1, <1>2, <2>3, <2>9, <2>10, <3>1
  <2>12. d.instructions = <<>>
    BY <2>2
  <2> HIDE DEF none
  <2> QED
    BY <2>2, <2>3, <2>5, <2>9, <2>10, <2>11, <2>12 DEF Decodes, d
<1> QED
  BY <1>3, <1>4

\* What the Chat Completions endpoint makes of a message has its items, or names them as dropped.
LEMMA ChatDecodes ==
  ASSUME Told, NEW g \in GroupsOf("chat")
  PROVE  Decodes(DecodeChatMessage(g), g)
<1> DEFINE kinds == {"text", "image_url"}
           others == Contents \ kinds
           kept == Select(g.items, kinds)
           calls == Select(g.items, {"call"})
           results == Select(g.items, {"result"})
           dropped == Ids(Select(g.items, others))
           d == DecodeChatMessage(g)
<1>1. /\ "chat" \in Callers /\ "chat" # "messages" /\ g.items \in Seq(TheItems) /\ g.role \in Roles
      /\ kinds \in SUBSET Contents /\ others \cap Contents = Contents \ kinds /\ others \subseteq Contents
      /\ Contents \in SUBSET Contents /\ "result" \notin Contents
  BY DEF Callers, GroupsOf, ItemSeqs, Roles, Contents
<1>2. /\ kept \in Seq(TheItems) /\ Members(kept) = {x \in Members(g.items) : x.kind \in kinds} /\ Paired(kept, Allowed)
  BY <1>1, SortFacts
<1>3. Decodes(Decoded(<<Sorted(g.role, g.items, kinds)>>, <<>>, dropped), g)
  <2> HIDE DEF kinds, others
  <2> QED
    BY <1>1, KeptDecodes
<1>4. Proper(Sorted(g.role, g.items, kinds)) /\ Proper(Sorted(g.role, g.items, Contents))
  <2> HIDE DEF kinds
  <2> QED
    BY <1>1, ProperFacts
<1>5. \A k : /\ Sorted(g.role, g.items, k).role = g.role /\ Sorted(g.role, g.items, k).content = Select(g.items, k)
             /\ Sorted(g.role, g.items, k).results = results
  BY DEF Sorted, Message
<1>6. CASE g.role = "system"
  <2> DEFINE none == <<>>
  <2>1. d.messages = none /\ d.instructions = kept /\ d.dropped = dropped
    BY <1>6 DEF DecodeChatMessage, Decoded
  <2>2. /\ \A x \in TheItems : x.id \in dropped <=> x \in Members(g.items) /\ x.kind \in others
        /\ \A n \in dropped : \E x \in Members(g.items) : x.id = n
    BY <1>1, DroppedFacts
  <2>3. /\ none \in Seq(MessageSeqs) /\ Members(none) = {}
        /\ Members(Along(none, SpreadOf)) = {} /\ Paired(Along(none, SpreadOf), Allowed)
    BY NothingFacts
  <2>4. \A x \in Members(g.items) : x \in TheItems /\ x.kind \in Contents /\ x.by = "system"
    BY <1>1, <1>6, RoleKinds
  <2>5. d.messages = <<>>
    BY <2>1
  <2> HIDE DEF d, kept, dropped, none
  <2>6. \A x \in TheItems : x \in Members(g.items) /\ x.id \notin dropped <=>
                               x \in Members(Along(none, SpreadOf)) \cup Members(kept)
    BY <1>1, <1>2, <2>2, <2>3, <2>4
  <2> HIDE DEF others
  <2>7. Decodes(d, g)
    BY <1>2, <2>1, <2>2, <2>3, <2>4, <2>5, <2>6 DEF Decodes
  <2> QED
    BY <2>7 DEF d
<1>7. CASE g.role = "tool"
  <2>1. Select(g.items, kinds) = <<>> /\ Select(g.items, Contents) = <<>>
    BY <1>4, <1>5, <1>7 DEF Proper
  <2>2. Sorted(g.role, g.items, kinds) = MessageOf("tool", g.items)
    BY <1>7, <2>1 DEF Sorted, MessageOf
  <2>3. d = Decoded(<<Sorted(g.role, g.items, kinds)>>, <<>>, dropped)
    BY <1>7, <2>2 DEF DecodeChatMessage
  <2> QED
    BY <1>3, <2>3
<1>8. CASE g.role # "system" /\ g.role # "tool"
  <2>1. results = <<>>
    BY <1>4, <1>5, <1>8 DEF Proper
  <2>2. Sorted(g.role, g.items, kinds) = Message(g.role, kept, calls, <<>>)
    BY <2>1 DEF Sorted
  <2>3. d = Decoded(<<Sorted(g.role, g.items, kinds)>>, <<>>, dropped)
    BY <1>8, <2>2 DEF DecodeChatMessage
  <2> QED
    BY <1>3, <2>3
<1> QED
  BY <1>6, <1>7, <1>8

\* A message that an item of the Responses API is.
LEMMA InputDecodes ==
  ASSUME Told, NEW g \in GroupsOf("responses")
  PROVE  Decodes(DecodeInputItem(g), g)
<1> DEFINE item == g.items[1]
           one == <<item>>
           none == <<>>
           d == DecodeInputItem(g)
<1>1. /\ "responses" \in Callers /\ "responses" # "messages" /\ g.items \in Seq(TheItems) /\ g.role \in Roles
      /\ Len(g.items) = 1 /\ Contents \in SUBSET Contents /\ "call" \notin Contents /\ "result" \notin Contents
      /\ "reasoning" \in Contents /\ "assistant" \in Roles /\ "tool" \in Roles
  BY DEF Callers, GroupsOf, ItemSeqs, Roles, Contents
<1>2. item \in TheItems /\ g.items = one
  BY <1>1
<1>3. one \in Seq(TheItems) /\ Members(one) = {item} /\ Paired(one, Allowed) /\ one # <<>>
  BY <1>2, ShortFacts
<1>4. none \in Seq(TheItems) /\ Members(none) = {} /\ Paired(none, Allowed)
      /\ none \in Seq(MessageSeqs) /\ Members(Along(none, SpreadOf)) = {} /\ Paired(Along(none, SpreadOf), Allowed)
  BY NothingFacts
<1>5. item.kind \in Kinds
  BY <1>2, <1>3, <1>1, RoleKinds
<1>6. d = CASE item.kind = "call" -> Decoded(<<Message("assistant", <<>>, one, <<>>)>>, <<>>, {})
            [] item.kind = "result" -> Decoded(<<Message("tool", <<>>, <<>>, one)>>, <<>>, {})
            [] item.kind = "reasoning" -> Decoded(<<>>, <<>>, {item.id})
            [] OTHER -> Decoded(<<Message(g.role, Select(one, {"text", "image_url", "image_file"}), <<>>, <<>>)>>,
                                <<>>, Ids(Select(one, {"image_base64", "document"})))
  BY DEF DecodeInputItem
<1>7. Members(g.items) = {item}
  BY <1>2, <1>3
<1>8. CASE item.kind = "call"
  <2> DEFINE m == Message("assistant", none, one, none)
             dropped == {}
  <2>1. d = Decoded(<<m>>, <<>>, dropped)
    BY <1>6, <1>8
  <2> HIDE DEF one
  <2>2. none = <<>>
    OBVIOUS
  <2> HIDE DEF none
  <2>3. m \in MessageSeqs /\ m.role = "assistant" /\ m.content = none /\ m.calls = one /\ m.results = none
    BY <1>1, <1>3, <1>4, MessageFacts
  <2> HIDE DEF m
  <2>4. Proper(m)
    BY <1>3, <1>4, <1>8, <2>2, <2>3 DEF Proper
  <2>5. Members(Spread(m)) = {item} /\ Paired(Spread(m), Allowed)
    BY <1>3, <1>4, <2>3, SpreadFacts
  <2> HIDE DEF item
  <2>6. /\ Members(Spread(m)) = {x \in Members(g.items) : x.kind \in Contents \cup {"call", "result"}}
        /\ \A x \in Members(g.items) : x.id \in dropped <=> x.kind \in Contents \ Contents
        /\ \A n \in dropped : \E x \in Members(g.items) : x.id = n
    BY <1>7, <1>8, <2>5
  <2> HIDE DEF dropped, d
  <2>7. Decodes(Decoded(<<m>>, <<>>, dropped), g)
    BY <1>1, <2>3, <2>4, <2>5, <2>6, OneDecodes
  <2> QED
    BY <2>1, <2>7 DEF d
<1>9. CASE item.kind = "result"
  <2> DEFINE m == Message("tool", none, none, one)
             dropped == {}
  <2>1. d = Decoded(<<m>>, <<>>, dropped)
    BY <1>6, <1>9
  <2> HIDE DEF one
  <2>2. none = <<>>
    OBVIOUS
  <2> HIDE DEF none
  <2>3. m \in MessageSeqs /\ m.role = "tool" /\ m.content = none /\ m.calls = none /\ m.results = one
    BY <1>1, <1>3, <1>4, MessageFacts
  <2> HIDE DEF m
  <2>4. Proper(m)
    BY <1>3, <1>4, <1>9, <2>2, <2>3 DEF Proper
  <2>5. Members(Spread(m)) = {item} /\ Paired(Spread(m), Allowed)
    BY <1>3, <1>4, <2>3, SpreadFacts
  <2> HIDE DEF item
  <2>6. /\ Members(Spread(m)) = {x \in Members(g.items) : x.kind \in Contents \cup {"call", "result"}}
        /\ \A x \in Members(g.items) : x.id \in dropped <=> x.kind \in Contents \ Contents
        /\ \A n \in dropped : \E x \in Members(g.items) : x.id = n
    BY <1>7, <1>9, <2>5
  <2> HIDE DEF dropped, d
  <2>7. Decodes(Decoded(<<m>>, <<>>, dropped), g)
    BY <1>1, <2>3, <2>4, <2>5, <2>6, OneDecodes
  <2> QED
    BY <2>1, <2>7 DEF d
<1>10. CASE item.kind = "reasoning"
  <2>1. d.messages = none /\ d.instructions = none /\ d.dropped = {item.id} /\ d.instructions = <<>>
    BY <1>6, <1>10 DEF Decoded
  <2>2. \A x \in TheItems : x.id = item.id => x = item
    <3> TAKE x \in TheItems
    <3>1. history[x.id] = x /\ history[item.id] = item
      BY <1>2, ItemFacts
    <3> QED
      BY <3>1
  <2> HIDE DEF d, none, item
  <2>3. Decodes(d, g)
    BY <1>2, <1>4, <1>7, <2>1, <2>2 DEF Decodes
  <2> QED
    BY <2>3 DEF d
<1>11. CASE item.kind \notin {"call", "result", "reasoning"}
  <2> DEFINE kinds == {"text", "reasoning", "image_url", "image_file"}
             others == {"image_base64", "document"}
             m == Sorted(g.role, g.items, kinds)
             dropped == Ids(Select(g.items, others))
  <2>1. kinds \in SUBSET Contents /\ others \cap Contents = Contents \ kinds /\ others \subseteq Contents
    BY DEF Contents
  <2>2. Decodes(Decoded(<<m>>, <<>>, dropped), g)
    <3> HIDE DEF kinds, others
    <3> QED
      BY <1>1, <2>1, KeptDecodes
  <2>3. Select(g.items, {"call"}) = <<>> /\ Select(g.items, {"result"}) = <<>>
    <3>1. /\ Select(g.items, {"call"}) \in Seq(TheItems) /\ Select(g.items, {"result"}) \in Seq(TheItems)
          /\ Members(Select(g.items, {"call"})) = {x \in Members(g.items) : x.kind \in {"call"}}
          /\ Members(Select(g.items, {"result"})) = {x \in Members(g.items) : x.kind \in {"result"}}
      BY <1>1, SortFacts
    <3> HIDE DEF item
    <3>2. Members(Select(g.items, {"call"})) = {} /\ Members(Select(g.items, {"result"})) = {}
      BY <1>7, <1>11, <3>1
    <3> QED
      BY <3>1, <3>2, EmptyFacts
  <2>4. Select(g.items, {"text", "image_url", "image_file"}) = Select(g.items, kinds)
    <3>1. \A i \in DOMAIN g.items : g.items[i].kind # "reasoning"
      BY <1>7, <1>11 DEF Members
    <3>2. {i \in DOMAIN g.items : g.items[i].kind \in {"text", "image_url", "image_file"}}
            = {i \in DOMAIN g.items : g.items[i].kind \in kinds}
      BY <3>1
    <3> QED
      BY <3>2 DEF Select
  <2>5. m = Message(g.role, Select(g.items, {"text", "image_url", "image_file"}), <<>>, <<>>)
    BY <2>3, <2>4 DEF Sorted
  <2>6. d = Decoded(<<Message(g.role, Select(one, {"text", "image_url", "image_file"}), <<>>, <<>>)>>,
                                <<>>, Ids(Select(one, {"image_base64", "document"})))
    BY <1>6, <1>11
  <2>7. d = Decoded(<<m>>, <<>>, dropped)
    BY <1>2, <2>5, <2>6
  <2> QED
    BY <2>2, <2>7
<1> QED
  BY <1>8, <1>9, <1>10, <1>11

-----------------------------------------------------------------------------
(* What an endpoint makes of a body: all of its messages together.            *)

\* What a unified request has of a conversation's items, which are: all but those that it
\* says were dropped, each once, in an order that is allowed.
Carries(messages, instructions, dropped, items) ==
  /\ messages \in Seq(MessageSeqs) /\ \A m \in Members(messages) : Proper(m)
  /\ instructions \in Seq(TheItems) /\ \A x \in Members(instructions) : x.by = "system"
  /\ \A x \in TheItems : x \in items /\ x.id \notin dropped <=>
                           x \in Members(Along(messages, SpreadOf)) \cup Members(instructions)
  /\ \A n \in dropped : \E x \in items : x.id = n
  /\ Members(Along(messages, SpreadOf)) \cap Members(instructions) = {}
  /\ Paired(Along(messages, SpreadOf), Allowed) /\ Paired(instructions, Allowed)

\* Items of different messages of a client are different, and those of the first earlier.
LEMMA GroupsApart ==
  ASSUME Told, NEW gs \in Seq(ItemSeqs), Paired(Along(gs, ItemsOf), Earlier)
  PROVE  /\ \A i, k \in DOMAIN gs : i < k => \A x \in Members(gs[i].items), y \in Members(gs[k].items) : <<x, y>> \in Earlier
         /\ \A i, k \in DOMAIN gs : \A x \in Members(gs[i].items), y \in Members(gs[k].items) : x.id = y.id => i = k
<1> DEFINE A == Across(ItemSeqs, ItemsOf, Earlier)
<1>1. Paired(gs, A)
  BY ItemsOfFacts, AlongFacts
<1>2. DOMAIN gs = 1..Len(gs) /\ Len(gs) \in Nat /\ \A i \in DOMAIN gs : gs[i] \in ItemSeqs
  OBVIOUS
<1>3. \A i, k \in DOMAIN gs : i < k => \A x \in Members(gs[i].items), y \in Members(gs[k].items) : <<x, y>> \in Earlier
  <2> SUFFICES ASSUME NEW i \in DOMAIN gs, NEW k \in DOMAIN gs, i < k
               PROVE  \A x \in Members(gs[i].items), y \in Members(gs[k].items) : <<x, y>> \in Earlier
    OBVIOUS
  <2> DEFINE g == gs[i]
             h == gs[k]
  <2>1. g \in ItemSeqs /\ h \in ItemSeqs /\ <<g, h>> \in A
    BY <1>1, <1>2 DEF Paired
  <2> HIDE DEF g, h
  <2>2. \A x \in Members(ItemsOf[g]), y \in Members(ItemsOf[h]) : <<x, y>> \in Earlier
    BY <2>1, AcrossFacts
  <2>3. \A x \in Members(g.items), y \in Members(h.items) : <<x, y>> \in Earlier
    BY <2>1, <2>2, ItemsOfFacts
  <2> QED
    BY <2>3 DEF g, h
<1>4. \A i, k \in DOMAIN gs : \A x \in Members(gs[i].items), y \in Members(gs[k].items) : x.id = y.id => i = k
  <2> TAKE i, k \in DOMAIN gs
  <2> TAKE x \in Members(gs[i].items), y \in Members(gs[k].items)
  <2>1. i < k => x.id < y.id /\ x \in TheItems /\ y \in TheItems
    BY <1>3, RelationFacts
  <2>2. k < i => y.id < x.id /\ x \in TheItems /\ y \in TheItems
    BY <1>3, RelationFacts
  <2>3. \A z \in TheItems : z.id \in Nat
    BY ItemFacts
  <2>4. i < k \/ k < i \/ i = k
    BY <1>2
  <2> QED
    BY <2>1, <2>2, <2>3, <2>4
<1> QED
  BY <1>3, <1>4

\* Messages decoded one by one make a request that carries what they have.
LEMMA DecodedTogether ==
  ASSUME Told, NEW gs \in Seq(ItemSeqs), Paired(Along(gs, ItemsOf), Earlier),
         NEW d, \A i \in DOMAIN gs : Decodes(d[i], gs[i])
  PROVE  Carries(FlattenSeq([i \in DOMAIN gs |-> d[i].messages]), FlattenSeq([i \in DOMAIN gs |-> d[i].instructions]),
                 UNION {d[i].dropped : i \in DOMAIN gs}, Members(Along(gs, ItemsOf)))
<1> DEFINE N == DOMAIN gs
           ms == [i \in N |-> d[i].messages]
           is == [i \in N |-> d[i].instructions]
           M == FlattenSeq(ms)
           J == FlattenSeq(is)
           D == UNION {d[i].dropped : i \in N}
           G == Members(Along(gs, ItemsOf))
<1>1. N = 1..Len(gs) /\ Len(gs) \in Nat /\ \A i \in N : gs[i] \in ItemSeqs
  OBVIOUS
<1>2. \A i \in N :
        /\ d[i].messages \in Seq(MessageSeqs) /\ \A m \in Members(d[i].messages) : Proper(m)
        /\ d[i].instructions \in Seq(TheItems) /\ \A x \in Members(d[i].instructions) : x.by = "system"
        /\ \A x \in TheItems : x \in Members(gs[i].items) /\ x.id \notin d[i].dropped <=>
                                 x \in Members(Along(d[i].messages, SpreadOf)) \cup Members(d[i].instructions)
        /\ \A n \in d[i].dropped : \E x \in Members(gs[i].items) : x.id = n
        /\ Paired(Along(d[i].messages, SpreadOf), Allowed) /\ Paired(d[i].instructions, Allowed)
        /\ d[i].instructions = <<>> \/ d[i].messages = <<>>
  BY DEF Decodes
<1>3. /\ \A i, k \in N : i < k => \A x \in Members(gs[i].items), y \in Members(gs[k].items) : <<x, y>> \in Earlier
      /\ \A i, k \in N : \A x \in Members(gs[i].items), y \in Members(gs[k].items) : x.id = y.id => i = k
  BY GroupsApart
<1>4. G = UNION {Members(gs[i].items) : i \in N} /\ G \subseteq TheItems
  <2>1. G = UNION {Members(ItemsOf[g]) : g \in Members(gs)} /\ Along(gs, ItemsOf) \in Seq(TheItems)
    BY ItemsOfFacts, AlongFacts
  <2>2. \A i \in N : ItemsOf[gs[i]] = gs[i].items
    BY <1>1, ItemsOfFacts
  <2>3. Members(gs) = {gs[i] : i \in N}
    BY DEF Members
  <2>4. G \subseteq TheItems
    BY <2>1, MemberFacts
  <2> QED
    BY <2>1, <2>2, <2>3, <2>4
<1>5. /\ ms \in Seq(Seq(MessageSeqs)) /\ DOMAIN ms = N /\ \A i \in N : ms[i] = d[i].messages
      /\ is \in Seq(Seq(TheItems)) /\ DOMAIN is = N /\ \A i \in N : is[i] = d[i].instructions
  BY <1>1, <1>2
<1> HIDE DEF N, ms, is, M, J, D, G
<1>6. \A i \in N : /\ Members(Along(ms[i], SpreadOf)) \subseteq Members(gs[i].items)
                   /\ Members(is[i]) \subseteq Members(gs[i].items)
  <2> TAKE i \in N
  <2> DEFINE a == Along(ms[i], SpreadOf)
             b == is[i]
  <2>1. ms[i] \in Seq(MessageSeqs) /\ b \in Seq(TheItems)
    BY <1>2, <1>5
  <2>2. a \in Seq(TheItems)
    BY <2>1, SpreadOfFacts, AlongFacts
  <2>3. Members(a) \subseteq TheItems /\ Members(b) \subseteq TheItems
    BY <2>1, <2>2, MemberFacts
  <2>4. \A x \in TheItems : x \in Members(gs[i].items) /\ x.id \notin d[i].dropped <=> x \in Members(a) \cup Members(b)
    BY <1>2, <1>5
  <2> HIDE DEF a, b
  <2>5. Members(a) \subseteq Members(gs[i].items) /\ Members(b) \subseteq Members(gs[i].items)
    BY <2>3, <2>4
  <2> QED
    BY <2>5 DEF a, b
<1>7. /\ M \in Seq(MessageSeqs)
      /\ Members(Along(M, SpreadOf)) = UNION {Members(Along(ms[i], SpreadOf)) : i \in N}
      /\ Paired(Along(M, SpreadOf), Allowed) <=>
              /\ \A i \in N : Paired(Along(ms[i], SpreadOf), Allowed)
              /\ \A i, k \in N :
                   i < k => \A x \in Members(Along(ms[i], SpreadOf)), y \in Members(Along(ms[k], SpreadOf)) : <<x, y>> \in Allowed
  BY <1>5, SpreadOfFacts, AlongFlat DEF M
<1>8. Members(M) = UNION {Members(ms[i]) : i \in N}
  BY <1>5, FlattenFacts DEF M
<1>9. /\ J \in Seq(TheItems) /\ Members(J) = UNION {Members(is[i]) : i \in N}
      /\ Paired(J, Allowed) <=>
           /\ \A i \in N : Paired(is[i], Allowed)
           /\ \A i, k \in N : i < k => \A x \in Members(is[i]), y \in Members(is[k]) : <<x, y>> \in Allowed
  BY <1>5, FlattenFacts DEF J
<1>10. Paired(Along(M, SpreadOf), Allowed) /\ Paired(J, Allowed)
  <2>1. \A i, k \in N : i < k => \A x \in Members(gs[i].items), y \in Members(gs[k].items) : <<x, y>> \in Allowed
    BY <1>3, OrderFacts
  <2>2. \A i \in N : Paired(Along(ms[i], SpreadOf), Allowed) /\ Paired(is[i], Allowed)
    BY <1>2, <1>5
  <2> QED
    BY <1>6, <1>7, <1>9, <2>1, <2>2
<1>11. \A m \in Members(M) : Proper(m)
  <2>1. \A i \in N : \A m \in Members(d[i].messages) : Proper(m)
    BY <1>2
  <2>2. \A i \in N : \A m \in Members(ms[i]) : Proper(m)
    BY <1>5, <2>1
  <2> QED
    BY <1>8, <2>2
<1>12. \A x \in Members(J) : x.by = "system"
  <2>1. \A i \in N : \A x \in Members(d[i].instructions) : x.by = "system"
    BY <1>2
  <2>2. \A i \in N : \A x \in Members(is[i]) : x.by = "system"
    BY <1>5, <2>1
  <2> QED
    BY <1>9, <2>2
<1>13. \A n \in D : \E x \in G : x.id = n
  BY <1>2, <1>4 DEF D
<1>14. Members(Along(M, SpreadOf)) \cap Members(J) = {}
  <2>0. /\ Members(Along(M, SpreadOf)) = UNION {Members(Along(ms[i], SpreadOf)) : i \in N}
        /\ Members(J) = UNION {Members(is[i]) : i \in N}
    BY <1>7, <1>9
  <2>1. ASSUME NEW i \in N, NEW k \in N, NEW x \in Members(Along(ms[i], SpreadOf)), x \in Members(is[k]) PROVE FALSE
    <3>1. i = k
      BY <1>3, <1>6, <2>1
    <3>2. is[i] = <<>> \/ ms[i] = <<>>
      BY <1>2, <1>5
    <3>3. Members(<<>>) = {} /\ Members(Along(<<>>, SpreadOf)) = {}
      BY NothingFacts
    <3> QED
      BY <2>1, <3>1, <3>2, <3>3
  <2>2. ASSUME NEW x \in Members(Along(M, SpreadOf)), x \in Members(J) PROVE FALSE
    <3>1. PICK i \in N : x \in Members(Along(ms[i], SpreadOf))
      BY <2>0, <2>2
    <3>2. PICK k \in N : x \in Members(is[k])
      BY <2>0, <2>2
    <3> QED
      BY <2>1, <3>1, <3>2
  <2> QED
    BY <2>2
<1>15. ASSUME NEW x \in TheItems
       PROVE  x \in G /\ x.id \notin D <=> x \in Members(Along(M, SpreadOf)) \cup Members(J)
  <2>1. ASSUME x \in G, x.id \notin D PROVE x \in Members(Along(M, SpreadOf)) \cup Members(J)
    <3>1. PICK i \in N : x \in Members(gs[i].items)
      BY <1>4, <2>1
    <3>2. x.id \notin d[i].dropped
      BY <2>1 DEF D
    <3>3. x \in Members(Along(ms[i], SpreadOf)) \cup Members(is[i])
      BY <1>2, <1>5, <3>1, <3>2
    <3> QED
      BY <1>7, <1>9, <3>3
  <2>2. ASSUME x \in Members(Along(M, SpreadOf)) \cup Members(J) PROVE x \in G /\ x.id \notin D
    <3>1. PICK i \in N : x \in Members(Along(ms[i], SpreadOf)) \cup Members(is[i])
      BY <1>7, <1>9, <2>2
    <3>2. x \in Members(gs[i].items) /\ x.id \notin d[i].dropped
      BY <1>2, <1>5, <3>1
    <3>3. ASSUME x.id \in D PROVE FALSE
      <4>1. PICK k \in N : x.id \in d[k].dropped
        BY <3>3 DEF D
      <4>2. PICK y \in Members(gs[k].items) : y.id = x.id
        BY <1>2, <4>1
      <4>3. i = k
        BY <1>3, <3>2, <4>2
      <4> QED
        BY <3>2, <4>1, <4>3
    <3> QED
      BY <1>4, <3>2, <3>3
  <2> QED
    BY <2>1, <2>2
<1>16. Carries(M, J, D, G)
  BY <1>7, <1>9, <1>10, <1>11, <1>12, <1>13, <1>14, <1>15 DEF Carries
<1> QED
  BY <1>16 DEF M, J, D, G, N, ms, is

\* A conversation is in order, and so are its parts.
LEMMA HistoryArranged ==
  ASSUME Told
  PROVE  /\ \A c \in Callers \ {"messages"} : Arranged(c, history)
         /\ Arranged("messages", ByOthers(history))
         /\ Members(ByOthers(history)) = {x \in TheItems : x.by # "system"}
         /\ BySystem(history) \in Seq(TheItems) /\ Paired(BySystem(history), Allowed)
         /\ Members(BySystem(history)) = {x \in TheItems : x.by = "system"}
<1>1. /\ Len(history) \in Nat /\ DOMAIN history = 1..Len(history) /\ history \in Seq(TheItems)
      /\ \A i \in DOMAIN history : history[i] \in TheItems /\ history[i].id = i
  BY ItemFacts
<1>2. \A j, k \in DOMAIN history : j < k => <<history[j], history[k]>> \in Earlier
  BY <1>1, RelationFacts
<1>3. Paired(history, Earlier) /\ Earlier \subseteq Allowed
  BY <1>2, OrderFacts DEF Paired
<1> DEFINE own == {i \in DOMAIN history : history[i].by = "system"}
           rest == {i \in DOMAIN history : history[i].by # "system"}
           s == Picked(history, own)
           o == Picked(history, rest)
<1>4. s = BySystem(history) /\ o = ByOthers(history)
  BY DEF BySystem, ByOthers
<1>5. /\ s \in Seq(TheItems) /\ Members(s) = {history[i] : i \in DOMAIN history \cap own}
      /\ Paired(s, Allowed) <=> \A i, k \in DOMAIN history \cap own : i < k => <<history[i], history[k]>> \in Allowed
  BY <1>1, PickedFacts
<1>6. /\ o \in Seq(TheItems) /\ Members(o) = {history[i] : i \in DOMAIN history \cap rest}
      /\ Paired(o, Earlier) <=> \A i, k \in DOMAIN history \cap rest : i < k => <<history[i], history[k]>> \in Earlier
  BY <1>1, PickedFacts
<1> HIDE DEF s, o
<1>7. Paired(s, Allowed) /\ Paired(o, Earlier)
  BY <1>2, <1>3, <1>5, <1>6
<1>8. Members(s) = {x \in TheItems : x.by = "system"} /\ Members(o) = {x \in TheItems : x.by # "system"}
  BY <1>5, <1>6 DEF TheItems, Members
<1>9. Arranged("messages", o)
  BY <1>6, <1>7, <1>8 DEF Arranged
<1>10. \A c \in Callers \ {"messages"} : Arranged(c, history)
  BY <1>1, <1>3 DEF Arranged, TheItems
<1> QED
  BY <1>4, <1>5, <1>7, <1>8, <1>9, <1>10

\* What an endpoint decodes of a client's messages is what they have.
LEMMA MessagesDecoded ==
  ASSUME Told, NEW c \in {"messages", "chat", "responses"}, NEW items, Arranged(c, items)
  PROVE  LET d == DecodeMessages(c, Grouped(c, items)) IN
         Carries(d.messages, d.instructions, d.dropped, Members(items))
<1> DEFINE gs == Grouped(c, items)
           e == [i \in DOMAIN gs |-> DecodeMessage(c, gs[i])]
           d == DecodeMessages(c, gs)
<1>1. c \in Callers
  BY DEF Callers
<1>2. /\ gs \in Seq(ItemSeqs) /\ Members(gs) \subseteq GroupsOf(c)
      /\ Members(Along(gs, ItemsOf)) = Members(items) /\ Paired(Along(gs, ItemsOf), Earlier)
  BY <1>1, GroupedFacts
<1> HIDE DEF gs
<1>3. \A i \in DOMAIN gs : gs[i] \in GroupsOf(c)
  BY <1>2 DEF Members
<1>4. \A i \in DOMAIN gs : Decodes(e[i], gs[i])
  <2> TAKE i \in DOMAIN gs
  <2> DEFINE g == gs[i]
  <2>1. e[i] = DecodeMessage(c, g) /\ g \in GroupsOf(c)
    BY <1>3
  <2> HIDE DEF g, e
  <2>2. CASE c = "messages"
    <3>1. Decodes(DecodeAnthropicMessage(g), g)
      BY <2>1, <2>2, AnthropicDecodes
    <3> QED
      BY <2>1, <2>2, <3>1 DEF DecodeMessage, g
  <2>3. CASE c = "chat"
    <3>1. Decodes(DecodeChatMessage(g), g)
      BY <2>1, <2>3, ChatDecodes
    <3> QED
      BY <2>1, <2>3, <3>1 DEF DecodeMessage, g
  <2>4. CASE c = "responses"
    <3>1. Decodes(DecodeInputItem(g), g)
      BY <2>1, <2>4, InputDecodes
    <3> QED
      BY <2>1, <2>4, <3>1 DEF DecodeMessage, g
  <2> QED
    BY <2>2, <2>3, <2>4
<1>5. /\ d.messages = FlattenSeq([i \in DOMAIN gs |-> e[i].messages])
      /\ d.instructions = FlattenSeq([i \in DOMAIN gs |-> e[i].instructions])
      /\ d.dropped = UNION {e[i].dropped : i \in DOMAIN gs}
  BY DEF DecodeMessages, Decoded
<1> HIDE DEF d, e
<1>6. Carries(FlattenSeq([i \in DOMAIN gs |-> e[i].messages]), FlattenSeq([i \in DOMAIN gs |-> e[i].instructions]),
                 UNION {e[i].dropped : i \in DOMAIN gs}, Members(Along(gs, ItemsOf)))
  BY <1>2, <1>4, DecodedTogether
<1>7. Carries(d.messages, d.instructions, d.dropped, Members(items))
  BY <1>2, <1>5, <1>6
<1> QED
  BY <1>7 DEF d, gs

\* A caller of the library has the messages as they are.
LEMMA MessagesBuilt ==
  ASSUME Told, NEW items, Arranged("library", items)
  PROVE  LET gs == Grouped("library", items) IN
         Carries([i \in DOMAIN gs |-> MessageOf(gs[i].role, gs[i].items)], <<>>, {}, Members(items))
<1> DEFINE gs == Grouped("library", items)
           ms == [i \in DOMAIN gs |-> MessageOf(gs[i].role, gs[i].items)]
           none == <<>>
<1>1. "library" \in Callers /\ Contents \in SUBSET Contents
  BY DEF Callers
<1>2. /\ gs \in Seq(ItemSeqs) /\ Members(gs) \subseteq GroupsOf("library")
      /\ Members(Along(gs, ItemsOf)) = Members(items) /\ Paired(Along(gs, ItemsOf), Earlier)
  BY <1>1, GroupedFacts
<1> HIDE DEF gs
<1>3. DOMAIN gs = 1..Len(gs) /\ Len(gs) \in Nat /\ \A i \in DOMAIN gs : gs[i] \in GroupsOf("library") /\ gs[i] \in ItemSeqs
  BY <1>2 DEF Members
<1>4. ms = [i \in 1..Len(gs) |-> ms[i]] /\ DOMAIN ms = DOMAIN gs
  BY <1>3
<1>5. \A i \in DOMAIN gs : ms[i] = MessageOf(gs[i].role, gs[i].items)
  OBVIOUS
<1> HIDE DEF ms
<1>6. \A i \in DOMAIN gs : /\ ms[i] \in MessageSeqs /\ Proper(ms[i]) /\ Paired(Spread(ms[i]), Allowed)
                           /\ Members(Spread(ms[i])) = Members(gs[i].items)
  <2> TAKE i \in DOMAIN gs
  <2> DEFINE g == gs[i]
             role == g.role
             m == Sorted(role, g.items, Contents)
  <2>1. g \in GroupsOf("library") /\ ms[i] = m /\ role \in Roles
    BY <1>3, <1>5 DEF MessageOf, Sorted, GroupsOf, Roles
  <2> HIDE DEF g
  <2>2. Proper(m)
    BY <1>1, <2>1, ProperFacts
  <2> HIDE DEF m, role
  <2>3. /\ m \in MessageSeqs /\ Paired(Spread(m), Allowed)
        /\ Members(Spread(m)) = {x \in Members(g.items) : x.kind \in Contents \cup {"call", "result"}}
    BY <1>1, <2>1, SortedFacts DEF m
  <2>4. \A x \in Members(g.items) : x.kind \in Contents \cup {"call", "result"}
    BY <1>1, <2>1, RoleKinds DEF Kinds
  <2> QED
    BY <2>1, <2>2, <2>3, <2>4 DEF g
<1>7. ms \in Seq(MessageSeqs)
  BY <1>3, <1>4, <1>6
<1>8. /\ Members(Along(ms, SpreadOf)) = UNION {Members(SpreadOf[m]) : m \in Members(ms)}
      /\ Paired(Along(ms, SpreadOf), Allowed) <=>
           (\A m \in Members(ms) : Paired(SpreadOf[m], Allowed)) /\ Paired(ms, Across(MessageSeqs, SpreadOf, Allowed))
  BY <1>7, SpreadOfFacts, AlongFacts
<1>9. \A i \in DOMAIN gs : SpreadOf[ms[i]] = Spread(ms[i])
  BY <1>6, SpreadFacts
<1>10. Members(Along(ms, SpreadOf)) = Members(items)
  <2>1. Members(items) = UNION {Members(ItemsOf[g]) : g \in Members(gs)}
    BY <1>2, ItemsOfFacts, AlongFacts
  <2>2. \A i \in DOMAIN gs : Members(ItemsOf[gs[i]]) = Members(SpreadOf[ms[i]])
    BY <1>3, <1>6, <1>9, ItemsOfFacts
  <2>3. Members(gs) = {gs[i] : i \in DOMAIN gs} /\ Members(ms) = {ms[i] : i \in DOMAIN gs}
    BY <1>4 DEF Members
  <2> QED
    BY <1>8, <2>1, <2>2, <2>3
<1>11. Paired(ms, Across(MessageSeqs, SpreadOf, Allowed))
  <2> SUFFICES ASSUME NEW i \in DOMAIN gs, NEW k \in DOMAIN gs, i < k
               PROVE  <<ms[i], ms[k]>> \in Across(MessageSeqs, SpreadOf, Allowed)
    BY <1>4 DEF Paired
  <2> DEFINE v == ms[i]
             w == ms[k]
  <2>1. v \in MessageSeqs /\ w \in MessageSeqs
    BY <1>6
  <2>2. \A x \in Members(SpreadOf[v]), y \in Members(SpreadOf[w]) : <<x, y>> \in Allowed
    <3>1. \A x \in Members(gs[i].items), y \in Members(gs[k].items) : <<x, y>> \in Earlier
      BY <1>2, GroupsApart
    <3>2. Members(SpreadOf[v]) = Members(gs[i].items) /\ Members(SpreadOf[w]) = Members(gs[k].items)
      BY <1>6, <1>9
    <3> QED
      BY <3>1, <3>2, OrderFacts
  <2> HIDE DEF v, w
  <2>3. <<v, w>> \in Across(MessageSeqs, SpreadOf, Allowed)
    BY <2>1, <2>2, AcrossFacts
  <2> QED
    BY <2>3 DEF v, w
<1>12. (\A m \in Members(ms) : Paired(SpreadOf[m], Allowed)) /\ (\A m \in Members(ms) : Proper(m))
  <2>1. Members(ms) = {ms[i] : i \in DOMAIN gs}
    BY <1>4 DEF Members
  <2> QED
    BY <1>6, <1>9, <2>1
<1>13. Paired(Along(ms, SpreadOf), Allowed)
  BY <1>8, <1>11, <1>12
<1>14. none \in Seq(TheItems) /\ Members(none) = {} /\ Paired(none, Allowed)
  BY NothingFacts
<1>15. Members(items) \subseteq TheItems
  BY MemberFacts DEF Arranged
<1> HIDE DEF none
<1>16. Carries(ms, none, {}, Members(items))
  BY <1>7, <1>10, <1>12, <1>13, <1>14, <1>15 DEF Carries
<1> QED
  BY <1>16 DEF ms, gs, none

\* Items are the same when their numbers are.
LEMMA OneOfANumber ==
  ASSUME Told, NEW x \in TheItems, NEW y \in TheItems, x.id = y.id
  PROVE  x = y
<1>1. history[x.id] = x /\ history[y.id] = y
  BY ItemFacts
<1> QED
  BY <1>1

\* What is the system's may come before anything.
LEMMA SystemFirst ==
  ASSUME Told, NEW s \in Seq(TheItems), NEW t \in Seq(TheItems), \A x \in Members(s) : x.by = "system",
         Members(s) \cap Members(t) = {}, Paired(s, Allowed), Paired(t, Allowed)
  PROVE  s \o t \in Seq(TheItems) /\ Members(s \o t) = Members(s) \cup Members(t) /\ Paired(s \o t, Allowed)
<1> DEFINE u == s \o t
<1>1. /\ u \in Seq(TheItems) /\ Members(u) = Members(s) \cup Members(t)
      /\ Paired(u, Allowed) <=> /\ Paired(s, Allowed) /\ Paired(t, Allowed)
                                /\ \A x \in Members(s), y \in Members(t) : <<x, y>> \in Allowed
  BY ConcatFacts
<1> HIDE DEF u
<1>2. Members(s) \subseteq TheItems /\ Members(t) \subseteq TheItems
  BY MemberFacts
<1>3. \A x \in Members(s), y \in Members(t) : <<x, y>> \in Allowed
  <2> TAKE x \in Members(s), y \in Members(t)
  <2>1. x \in TheItems /\ y \in TheItems /\ x # y /\ x.by = "system"
    BY <1>2
  <2>2. MayPrecede(x, y)
    BY <2>1, OneOfANumber DEF MayPrecede
  <2> QED
    BY <2>1, <2>2, RelationFacts
<1> QED
  BY <1>1, <1>3 DEF u

\* The system content of the Messages API goes before the instructions.
LEMMA SystemApart ==
  ASSUME Told, NEW messages, NEW instructions, NEW dropped, NEW items, NEW system \in Seq(TheItems),
         Carries(messages, instructions, dropped, items),
         items \subseteq TheItems, items \cap Members(system) = {}, TheItems = items \cup Members(system),
         \A x \in Members(system) : x.by = "system", Paired(system, Allowed)
  PROVE  Carries(messages, system \o instructions, dropped, TheItems)
<1> DEFINE f == system \o instructions
           a == Along(messages, SpreadOf)
<1>1. /\ messages \in Seq(MessageSeqs) /\ instructions \in Seq(TheItems)
      /\ a \in Seq(TheItems)
      /\ Paired(a, Allowed) /\ Paired(instructions, Allowed) /\ Members(a) \cap Members(instructions) = {}
      /\ \A x \in Members(instructions) : x.by = "system"
      /\ \A x \in TheItems : x \in items /\ x.id \notin dropped <=> x \in Members(a) \cup Members(instructions)
      /\ \A n \in dropped : \E x \in items : x.id = n
  <2>1. messages \in Seq(MessageSeqs)
    BY DEF Carries
  <2> QED
    BY <2>1, SpreadOfFacts, AlongFacts DEF Carries
<1> HIDE DEF a
<1>2. Members(system) \subseteq TheItems /\ Members(instructions) \subseteq TheItems /\ Members(a) \subseteq TheItems
  BY <1>1, MemberFacts
<1>3. Members(instructions) \subseteq items /\ Members(a) \subseteq items
  BY <1>1, <1>2
<1>4. f \in Seq(TheItems) /\ Members(f) = Members(system) \cup Members(instructions) /\ Paired(f, Allowed)
  <2>1. Members(system) \cap Members(instructions) = {}
    BY <1>3
  <2> QED
    BY <1>1, <2>1, SystemFirst
<1> HIDE DEF f
<1>5. Members(a) \cap Members(f) = {}
  BY <1>1, <1>3, <1>4
<1>6. \A x \in TheItems : x \in TheItems /\ x.id \notin dropped <=> x \in Members(a) \cup Members(f)
  <2> TAKE x \in TheItems
  <2>1. CASE x \in items
    BY <1>1, <1>4, <2>1
  <2>2. CASE x \in Members(system)
    <3>1. x.id \notin dropped
      BY <1>1, <2>2, OneOfANumber
    <3> QED
      BY <1>4, <2>2, <3>1
  <2> QED
    BY <2>1, <2>2
<1>7. \A m \in Members(messages) : Proper(m)
  BY DEF Carries
<1>8. (\A x \in Members(f) : x.by = "system") /\ \A n \in dropped : \E x \in TheItems : x.id = n
  BY <1>1, <1>4
<1>9. Carries(messages, f, dropped, TheItems)
  BY <1>1, <1>4, <1>5, <1>6, <1>7, <1>8 DEF Carries, a
<1> QED
  BY <1>9 DEF f

\* What is decoded of a client's request is its conversation.
LEMMA ConversationDecoded ==
  ASSUME Told, NEW c \in Callers, NEW ask
  PROVE  LET q == AsDecoded(c, Written(c, ask, history)) IN
         Carries(q.messages, q.instructions, q.dropped, TheItems)
<1> DEFINE b == Written(c, ask, history)
           q == AsDecoded(c, b)
           items == IF c = "messages" THEN ByOthers(history) ELSE history
           gs == Grouped(c, items)
           d == DecodeMessages(c, gs)
           written == IF c = "messages" THEN BySystem(history) ELSE <<>>
           system == Select(written, {"text", "reasoning"})
<1>1. b.msgs = gs /\ b.system = written
  BY DEF Written
<1>2. Arranged(c, items)
  BY HistoryArranged
<1>3. /\ written \in Seq(TheItems) /\ Paired(written, Allowed) /\ \A x \in Members(written) : x.by = "system"
      /\ Members(items) \subseteq TheItems /\ Members(items) \cap Members(written) = {}
      /\ TheItems = Members(items) \cup Members(written)
  <2> DEFINE none == <<>>
  <2>1. none \in Seq(TheItems) /\ Members(none) = {} /\ Paired(none, Allowed)
    BY NothingFacts
  <2> HIDE DEF none
  <2>2. CASE c = "messages"
    <3>1. written = BySystem(history) /\ items = ByOthers(history)
      BY <2>2
    <3> HIDE DEF written, items
    <3> QED
      BY <3>1, HistoryArranged
  <2>3. CASE c # "messages"
    <3>1. written = none /\ items = history
      BY <2>3 DEF none
    <3> HIDE DEF written, items
    <3> QED
      BY <2>1, <3>1 DEF TheItems
  <2> QED
    BY <2>2, <2>3
<1> HIDE DEF written, items
<1>4. system \in Seq(TheItems) /\ Members(system) = Members(written) /\ Paired(system, Allowed)
  <2>1. /\ system \in Seq(TheItems) /\ Members(system) = {x \in Members(written) : x.kind \in {"text", "reasoning"}}
        /\ Paired(system, Allowed)
    BY <1>3, SelectFacts
  <2>2. \A x \in Members(written) : x.kind = "text"
    BY <1>3, ItemFacts DEF Sensible
  <2> HIDE DEF system
  <2> QED
    BY <2>1, <2>2
<1>5. CASE c # "library"
  <2>1. Carries(d.messages, d.instructions, d.dropped, Members(items))
    BY <1>2, <1>5, MessagesDecoded DEF Callers
  <2>2. q.messages = d.messages /\ q.instructions = system \o d.instructions /\ q.dropped = d.dropped
    BY <1>1, <1>5 DEF AsDecoded, DecodeRequest
  <2> HIDE DEF d, q, system
  <2>3. Carries(d.messages, system \o d.instructions, d.dropped, TheItems)
    BY <1>3, <1>4, <2>1, SystemApart
  <2> QED
    BY <2>2, <2>3 DEF q
<1>6. CASE c = "library"
  <2>1. Carries([i \in DOMAIN gs |-> MessageOf(gs[i].role, gs[i].items)], <<>>, {}, Members(items))
    BY <1>2, <1>6, MessagesBuilt
  <2>2. items = history
    BY <1>6 DEF items
  <2>3. /\ q.messages = [i \in DOMAIN gs |-> MessageOf(gs[i].role, gs[i].items)]
        /\ q.instructions = <<>> /\ q.dropped = {}
    BY <1>1, <1>6 DEF AsDecoded, AsUnified
  <2> HIDE DEF q, gs
  <2>4. Carries(q.messages, q.instructions, q.dropped, TheItems)
    BY <2>1, <2>2, <2>3 DEF TheItems
  <2> QED
    BY <2>4 DEF q
<1> QED
  BY <1>5, <1>6

-----------------------------------------------------------------------------
(* What the helpers of the encoders do to the items of a request: nothing, or *)
(* they drop some.                                                            *)

\* s has the items that r has.
SameBody(r, s) == s.system = r.system /\ s.messages = r.messages /\ s.dropped = r.dropped
Steady(r, s) == Shaped(s) /\ SameBody(r, s)

\* What leaves the items alone twice leaves them alone.
LEMMA SteadyTwice ==
  ASSUME NEW r, NEW s, NEW t, Steady(r, s), Steady(s, t)
  PROVE  Steady(r, t)
BY DEF Steady, SameBody

\* Options leave, come and change; the items stay.
LEMMA SteadyOptions ==
  ASSUME NEW r, Shaped(r)
  PROVE  /\ Steady(r, r) /\ Steady(r, WarnUnusable(r))
         /\ \A fields : Steady(r, Ignore(r, fields)) /\ Steady(r, Warn(r, fields))
         /\ \A field, value : Steady(r, Put(r, field, value))
<1>1. Steady(r, r)
  BY DEF Steady, SameBody
<1>2. ASSUME NEW fields PROVE Steady(r, Ignore(r, fields)) /\ Steady(r, Warn(r, fields))
  <2> DEFINE i == Ignore(r, fields)
             told == i.warned \cup (fields \cap DOMAIN r.opts)
  <2>1. Shaped(i) /\ SameBody(r, i)
    BY DEF Shaped, SameBody, Ignore
  <2>2. Warn(r, fields) = [i EXCEPT !.warned = told]
    BY DEF Warn
  <2> HIDE DEF i, told
  <2>3. Shaped(Warn(r, fields)) /\ SameBody(i, Warn(r, fields))
    BY <2>1, <2>2 DEF Shaped, SameBody
  <2>4. Steady(r, Warn(r, fields))
    BY <2>1, <2>3 DEF Steady, SameBody
  <2> QED
    BY <2>1, <2>4 DEF Steady, i
<1>3. ASSUME NEW field, NEW value PROVE Steady(r, Put(r, field, value))
  BY DEF Shaped, Put, SameBody, Steady
<1>4. Steady(r, WarnUnusable(r))
  BY <1>2 DEF WarnUnusable
<1> QED
  BY <1>1, <1>2, <1>3, <1>4

\* So do they when a limit, a budget, a warning or a refusal is set.
LEMMA SteadyFields ==
  ASSUME NEW r, Shaped(r), NEW value
  PROVE  /\ Steady(r, [r EXCEPT !.max = value]) /\ Steady(r, [r EXCEPT !.warned = value])
         /\ Steady(r, [r EXCEPT !.budget = value]) /\ Steady(r, [r EXCEPT !.refused = value])
BY DEF Steady, SameBody, Shaped

\* Thinking leaves the items alone,
LEMMA SteadyThinking ==
  ASSUME NEW r, Shaped(r), NEW n
  PROVE  Steady(r, EnableThinking(r, n))
<1> DEFINE more == n + 1
           told == r.warned \cup {"max"}
           raised == IF r.max > n THEN r ELSE [r EXCEPT !.max = more, !.warned = told]
           warm == Put(raised, "temperature", "one")
           hotter == warm.warned \cup {"temperature"}
           hot == IF OptionIs(raised, "temperature", {"one"}) THEN raised ELSE [warm EXCEPT !.warned = hotter]
           cool == Warn(hot, {"top_k"})
           on == Put(cool, "thinking", "enabled")
           s == [on EXCEPT !.budget = n]
<1>1. s = EnableThinking(r, n)
  BY DEF EnableThinking
<1> HIDE DEF more, told
<1>2. Steady(r, raised)
  <2> DEFINE higher == [r EXCEPT !.max = more]
             h == [higher EXCEPT !.warned = told]
  <2>1. Steady(r, higher)
    BY SteadyFields
  <2>2. h = [r EXCEPT !.max = more, !.warned = told]
    BY DEF Shaped
  <2> HIDE DEF higher
  <2>3. Steady(higher, h)
    BY <2>1, SteadyFields DEF Steady
  <2> HIDE DEF h
  <2>4. Steady(r, h)
    BY <2>1, <2>3, SteadyTwice
  <2>5. raised \in {r, h}
    BY <2>2
  <2> QED
    BY <2>4, <2>5, SteadyOptions
<1> HIDE DEF raised
<1>3. Steady(raised, warm)
  BY <1>2, SteadyOptions DEF Steady
<1> HIDE DEF warm, hotter
<1>4. Steady(warm, [warm EXCEPT !.warned = hotter])
  BY <1>3, SteadyFields DEF Steady
<1>5. Steady(raised, hot)
  <2>1. Steady(raised, [warm EXCEPT !.warned = hotter])
    BY <1>3, <1>4, SteadyTwice
  <2>2. Steady(raised, raised)
    BY <1>2, SteadyOptions DEF Steady
  <2> QED
    BY <2>1, <2>2
<1> HIDE DEF hot
<1>6. Steady(hot, cool)
  BY <1>5, SteadyOptions DEF Steady
<1> HIDE DEF cool
<1>7. Steady(cool, on)
  BY <1>6, SteadyOptions DEF Steady
<1> HIDE DEF on
<1>8. Steady(on, s)
  BY <1>7, SteadyFields DEF Steady
<1> HIDE DEF s
<1>9. Steady(r, s)
  BY <1>2, <1>5, <1>6, <1>7, <1>8 DEF Steady, SameBody
<1> QED
  BY <1>1, <1>9

\* and so do the controls of reasoning, formats and the thinking of Bedrock,
LEMMA SteadyReasoning ==
  ASSUME NEW r, Shaped(r), NEW budget, NEW meta
  PROVE  Steady(r, ApplyReasoning(r, budget, meta)) /\ Steady(r, ApplyResponseFormat(r, meta)) /\ Steady(r, BedrockThinking(r))
<1>1. Steady(r, ApplyReasoning(r, budget, meta))
  <2> DEFINE n == ThinkingBudget(budget, Effort(r), r.max)
             e == EnableThinking(r, n)
             i == Ignore(e, {"effort"})
             no == [r EXCEPT !.refused = "unsupported"]
             a == Put(r, "thinking", "adaptive")
  <2>1. ApplyReasoning(r, budget, meta) \in {r, a, no, i}
    BY DEF ApplyReasoning
  <2>0. Steady(r, no) /\ Steady(r, a) /\ Steady(r, r)
    BY SteadyOptions, SteadyFields
  <2> HIDE DEF n, no, a
  <2>2. Steady(r, e)
    BY SteadyThinking
  <2> HIDE DEF e
  <2>3. Steady(e, i)
    BY <2>2, SteadyOptions DEF Steady
  <2> HIDE DEF i
  <2>4. Steady(r, i)
    BY <2>2, <2>3, SteadyTwice
  <2> QED
    BY <2>0, <2>1, <2>4
<1>2. Steady(r, ApplyResponseFormat(r, meta))
  <2> DEFINE no == [r EXCEPT !.refused = "unsupported"]
  <2>1. ApplyResponseFormat(r, meta) \in {r, Ignore(r, {"format"}), Warn(r, {"format"}), no}
    BY DEF ApplyResponseFormat
  <2>2. Steady(r, no)
    BY SteadyFields
  <2> HIDE DEF no
  <2> QED
    BY <2>1, <2>2, SteadyOptions
<1>3. Steady(r, BedrockThinking(r))
  <2> DEFINE p == Put(r, "thinking", "adaptive")
             e == Put(p, "effort", "high")
             s == [e EXCEPT !.budget = 0]
  <2>1. BedrockThinking(r) \in {r, s}
    BY DEF BedrockThinking
  <2>2. Steady(r, p)
    BY SteadyOptions
  <2> HIDE DEF p
  <2>3. Steady(p, e)
    BY <2>2, SteadyOptions DEF Steady
  <2> HIDE DEF e
  <2>4. Steady(e, s)
    BY <2>3, SteadyFields DEF Steady
  <2> HIDE DEF s
  <2>5. Steady(r, s)
    BY <2>2, <2>3, <2>4, SteadyTwice
  <2> QED
    BY <2>1, <2>5, SteadyOptions
<1> QED
  BY <1>1, <1>2, <1>3

\* what the transports do to a Responses body,
LEMMA SteadyMutation ==
  ASSUME NEW r, Shaped(r), NEW p
  PROVE  Steady(r, MutateBody(p, r))
<1> DEFINE told == Warn(r, {"previous"})
           cut == Ignore(told, {"temperature", "top_p", "top_k"})
           put == Put(cut, "store", "no")
           s == [put EXCEPT !.max = 0]
           known == Warn(r, {"tool_choice"})
           auto == Put(known, "tool_choice", "auto")
<1>1. MutateBody(p, r) \in {r, s, auto}
  BY DEF MutateBody, MutateCodexBody, BedrockBodyMutator
<1>2. Steady(r, told) /\ Steady(r, known)
  BY SteadyOptions
<1> HIDE DEF told, known
<1>3. Steady(told, cut) /\ Steady(known, auto)
  BY <1>2, SteadyOptions DEF Steady
<1> HIDE DEF cut, auto
<1>4. Steady(cut, put)
  BY <1>3, SteadyOptions DEF Steady
<1> HIDE DEF put
<1>5. Steady(put, s)
  BY <1>4, SteadyFields DEF Steady
<1> HIDE DEF s
<1>6. Steady(r, s) /\ Steady(r, auto)
  BY <1>2, <1>3, <1>4, <1>5, SteadyTwice
<1> QED
  BY <1>1, <1>6, SteadyOptions

\* and the reasoning and the tools of Converse.
LEMMA SteadyConverse ==
  ASSUME NEW r, Shaped(r), NEW p, NEW budget, NEW reasons
  PROVE  Steady(r, ConverseReasoning(p, r, budget)) /\ Steady(r, ConverseTools(r, reasons))
<1> DEFINE known == Warn(r, {"tool_choice"})
           auto == Put(known, "tool_choice", "auto")
           on == Put(r, "thinking", "enabled")
           cut == Ignore(on, {"effort"})
           given == ReasoningBudget(budget, Effort(r))
           s == [cut EXCEPT !.budget = given]
<1>1. ConverseReasoning(p, r, budget) \in {r, Put(r, "thinking", "adaptive"), s}
  BY DEF ConverseReasoning
<1>2. ConverseTools(r, reasons) \in {r, known, auto, Ignore(r, {"tool_choice"}), Ignore(r, {"tools", "tool_choice"})}
  BY DEF ConverseTools
<1>3. Steady(r, known) /\ Steady(r, on)
  BY SteadyOptions
<1> HIDE DEF known, on, given
<1>4. Steady(known, auto) /\ Steady(on, cut)
  BY <1>3, SteadyOptions DEF Steady
<1> HIDE DEF auto, cut
<1>5. Steady(cut, s)
  BY <1>4, SteadyFields DEF Steady
<1> HIDE DEF s
<1>6. Steady(r, auto) /\ Steady(r, s)
  BY <1>3, <1>4, <1>5, SteadyTwice
<1> QED
  BY <1>1, <1>2, <1>3, <1>6, SteadyOptions

\* Content that is taken is what is not dropped.
LEMMA TakenFacts ==
  ASSUME NEW r, Shaped(r), NEW items, NEW kinds
  PROVE  LET s == Take(r, items, kinds) IN
         /\ Shaped(s) /\ s.system = r.system /\ s.messages = r.messages
         /\ s.dropped = r.dropped \cup Ids(Select(items, Contents \ kinds))
<1> DEFINE given == r.dropped \cup Ids(Select(items, Contents \ kinds))
<1>1. Take(r, items, kinds) = [r EXCEPT !.dropped = given]
  BY DEF Take
<1> HIDE DEF given
<1>2. Shaped([r EXCEPT !.dropped = given]) /\ [r EXCEPT !.dropped = given].dropped = given
      /\ [r EXCEPT !.dropped = given].system = r.system /\ [r EXCEPT !.dropped = given].messages = r.messages
  BY DEF Shaped
<1> QED
  BY <1>1, <1>2 DEF given

\* The items that are sent are those put in.
LEMMA SentBody ==
  ASSUME NEW r, Shaped(r), NEW system, NEW messages
  PROVE  LET s == WithBody(r, system, messages) IN
         Shaped(s) /\ s.system = system /\ s.messages = messages /\ s.dropped = r.dropped
<1> DEFINE t == [r EXCEPT !.system = system]
           s == WithBody(r, system, messages)
<1>1. Shaped(t) /\ t.system = system /\ t.dropped = r.dropped
  BY DEF Shaped
<1>2. s = [t EXCEPT !.messages = messages]
  BY DEF Shaped, WithBody
<1> HIDE DEF s, t
<1>3. Shaped(s) /\ s.system = t.system /\ s.messages = messages /\ s.dropped = t.dropped
  BY <1>1, <1>2 DEF Shaped
<1> QED
  BY <1>1, <1>3 DEF s

-----------------------------------------------------------------------------
(* What arrives with a provider of what a unified request carries.            *)

\* The items of a provider's request, those of the system first.
ItemsFrom(w) == w.system \o FlattenSeq([i \in DOMAIN w.messages |-> w.messages[i].items])

\* They are all that are not dropped, each once, in an order that is allowed.
Delivers(w, messages, instructions) ==
  /\ ItemsFrom(w) \in Seq(TheItems) /\ Paired(ItemsFrom(w), Allowed)
  /\ \A x \in TheItems : x \in Members(ItemsFrom(w)) <=>
       x \in Members(Along(messages, SpreadOf)) \cup Members(instructions) /\ x.id \notin w.dropped

\* The content of messages, of all kinds.
LEMMA ContentFacts ==
  ASSUME NEW M \in Seq(MessageSeqs), \A m \in Members(M) : Proper(m)
  PROVE  LET contents == FlattenSeq([i \in DOMAIN M |-> M[i].content]) IN
         contents \in Seq(TheItems) /\ Members(contents) = {x \in Members(Along(M, SpreadOf)) : x.kind \in Contents}
<1> DEFINE cs == [i \in DOMAIN M |-> M[i].content]
<1>1. DOMAIN M = 1..Len(M) /\ Len(M) \in Nat /\ \A i \in DOMAIN M : M[i] \in MessageSeqs /\ M[i] \in Members(M)
  BY MemberFacts
<1>2. \A i \in DOMAIN M : M[i].content \in Seq(TheItems) /\ Proper(M[i])
  BY <1>1 DEF MessageSeqs
<1>3. cs \in Seq(Seq(TheItems)) /\ DOMAIN cs = DOMAIN M /\ \A i \in DOMAIN M : cs[i] = M[i].content
  BY <1>1, <1>2
<1> HIDE DEF cs
<1>4. FlattenSeq(cs) \in Seq(TheItems) /\ Members(FlattenSeq(cs)) = UNION {Members(cs[i]) : i \in DOMAIN cs}
  BY <1>3, FlattenFacts
<1>5. Members(Along(M, SpreadOf)) = UNION {Members(SpreadOf[m]) : m \in Members(M)}
  BY SpreadOfFacts, AlongFacts
<1>6. \A i \in DOMAIN M : Members(cs[i]) = {x \in Members(SpreadOf[M[i]]) : x.kind \in Contents}
  <2> TAKE i \in DOMAIN M
  <2> DEFINE m == M[i]
  <2>1. m \in MessageSeqs /\ Proper(m) /\ cs[i] = m.content
    BY <1>1, <1>2, <1>3
  <2> HIDE DEF m
  <2>2. Members(SpreadOf[m]) = Members(m.content) \cup Members(m.calls) \cup Members(m.results)
    BY <2>1, SpreadFacts
  <2>3. "call" \notin Contents /\ "result" \notin Contents
    BY DEF Contents
  <2>4. Members(m.content) = {x \in Members(SpreadOf[m]) : x.kind \in Contents}
    BY <2>1, <2>2, <2>3 DEF Proper
  <2> QED
    BY <2>1, <2>4 DEF m
<1>7. Members(M) = {M[i] : i \in DOMAIN M}
  BY DEF Members
<1>8. Members(FlattenSeq(cs)) = {x \in Members(Along(M, SpreadOf)) : x.kind \in Contents}
  BY <1>3, <1>4, <1>5, <1>6, <1>7
<1> QED
  BY <1>4, <1>8 DEF cs

\* Messages that have no more than what they are made from keep its order.
LEMMA WireFacts ==
  ASSUME NEW M \in Seq(MessageSeqs), Paired(Along(M, SpreadOf), Allowed),
         NEW e, e = [i \in DOMAIN M |-> e[i]],
         \A i \in DOMAIN M : /\ e[i] \in Seq(ItemSeqs) /\ Paired(Along(e[i], ItemsOf), Allowed)
                             /\ Members(Along(e[i], ItemsOf)) \subseteq Members(SpreadOf[M[i]])
  PROVE  /\ FlattenSeq(e) \in Seq(ItemSeqs) /\ Paired(Along(FlattenSeq(e), ItemsOf), Allowed)
         /\ Members(Along(FlattenSeq(e), ItemsOf)) = UNION {Members(Along(e[i], ItemsOf)) : i \in DOMAIN M}
<1>1. DOMAIN M = 1..Len(M) /\ Len(M) \in Nat /\ \A i \in DOMAIN M : M[i] \in MessageSeqs /\ M[i] \in Members(M)
  BY MemberFacts
<1>2. e \in Seq(Seq(ItemSeqs)) /\ DOMAIN e = DOMAIN M
  BY <1>1
<1>3. /\ FlattenSeq(e) \in Seq(ItemSeqs)
      /\ Members(Along(FlattenSeq(e), ItemsOf)) = UNION {Members(Along(e[i], ItemsOf)) : i \in DOMAIN e}
      /\ Paired(Along(FlattenSeq(e), ItemsOf), Allowed) <=>
           /\ \A i \in DOMAIN e : Paired(Along(e[i], ItemsOf), Allowed)
           /\ \A i, k \in DOMAIN e :
                i < k => \A x \in Members(Along(e[i], ItemsOf)), y \in Members(Along(e[k], ItemsOf)) : <<x, y>> \in Allowed
  BY <1>2, ItemsOfFacts, AlongFlat
<1>4. Paired(M, Across(MessageSeqs, SpreadOf, Allowed))
  BY SpreadOfFacts, AlongFacts
<1>5. ASSUME NEW i \in DOMAIN M, NEW k \in DOMAIN M, i < k,
             NEW x \in Members(SpreadOf[M[i]]), NEW y \in Members(SpreadOf[M[k]])
      PROVE  <<x, y>> \in Allowed
  <2> DEFINE v == M[i]
             w == M[k]
  <2>1. v \in MessageSeqs /\ w \in MessageSeqs /\ <<v, w>> \in Across(MessageSeqs, SpreadOf, Allowed)
    BY <1>1, <1>4, <1>5 DEF Paired
  <2>2. x \in Members(SpreadOf[v]) /\ y \in Members(SpreadOf[w])
    OBVIOUS
  <2> HIDE DEF v, w
  <2> QED
    BY <2>1, <2>2, AcrossFacts
<1> QED
  BY <1>2, <1>3, <1>5

\* One message of the provider for each.
LEMMA WireEach ==
  ASSUME NEW M \in Seq(MessageSeqs), Paired(Along(M, SpreadOf), Allowed),
         NEW ws, ws = [i \in DOMAIN M |-> ws[i]],
         \A i \in DOMAIN M : /\ ws[i] \in ItemSeqs /\ Paired(ItemsOf[ws[i]], Allowed)
                             /\ Members(ItemsOf[ws[i]]) \subseteq Members(SpreadOf[M[i]])
  PROVE  /\ ws \in Seq(ItemSeqs) /\ Paired(Along(ws, ItemsOf), Allowed)
         /\ Members(Along(ws, ItemsOf)) = UNION {Members(ItemsOf[ws[i]]) : i \in DOMAIN M}
<1>1. DOMAIN M = 1..Len(M) /\ Len(M) \in Nat /\ \A i \in DOMAIN M : M[i] \in MessageSeqs /\ M[i] \in Members(M)
  BY MemberFacts
<1>2. ws \in Seq(ItemSeqs) /\ DOMAIN ws = DOMAIN M
  BY <1>1
<1> DEFINE A == Across(ItemSeqs, ItemsOf, Allowed)
<1>0. ws \in Seq(ItemSeqs) /\ Gives(ItemsOf, ItemSeqs, TheItems)
  BY <1>2, ItemsOfFacts
<1>3. /\ Members(Along(ws, ItemsOf)) = UNION {Members(ItemsOf[w]) : w \in Members(ws)}
      /\ Paired(Along(ws, ItemsOf), Allowed) <=>
           (\A w \in Members(ws) : Paired(ItemsOf[w], Allowed)) /\ Paired(ws, A)
  BY ONLY <1>0, AlongFacts
<1>4. Members(ws) = {ws[i] : i \in DOMAIN M}
  BY <1>2 DEF Members
<1>5. Paired(M, Across(MessageSeqs, SpreadOf, Allowed))
  BY SpreadOfFacts, AlongFacts
<1>6. ASSUME NEW i \in DOMAIN M, NEW k \in DOMAIN M, i < k
      PROVE  <<ws[i], ws[k]>> \in Across(ItemSeqs, ItemsOf, Allowed)
  <2> DEFINE v == M[i]
             w == M[k]
             a == ws[i]
             b == ws[k]
  <2>1. v \in MessageSeqs /\ w \in MessageSeqs /\ <<v, w>> \in Across(MessageSeqs, SpreadOf, Allowed)
    BY <1>1, <1>5, <1>6 DEF Paired
  <2>2. /\ a \in ItemSeqs /\ b \in ItemSeqs
        /\ Members(ItemsOf[a]) \subseteq Members(SpreadOf[v]) /\ Members(ItemsOf[b]) \subseteq Members(SpreadOf[w])
    OBVIOUS
  <2> HIDE DEF v, w, a, b
  <2>3. \A x \in Members(SpreadOf[v]), y \in Members(SpreadOf[w]) : <<x, y>> \in Allowed
    BY <2>1, AcrossFacts
  <2>4. <<a, b>> \in Across(ItemSeqs, ItemsOf, Allowed)
    BY <2>2, <2>3, AcrossFacts
  <2> QED
    BY <2>4 DEF a, b
<1>7. Paired(ws, Across(ItemSeqs, ItemsOf, Allowed))
  BY <1>2, <1>6 DEF Paired
<1> QED
  BY <1>2, <1>3, <1>4, <1>7

\* A request whose system and messages are what is not dropped delivers it.
LEMMA ArrivedFacts ==
  ASSUME Told, NEW w, NEW messages, NEW instructions, NEW s \in Seq(TheItems), NEW ws \in Seq(ItemSeqs),
         w.system = s, w.messages = ws,
         \A x \in Members(s) : x.by = "system", Paired(s, Allowed), Paired(Along(ws, ItemsOf), Allowed),
         Members(s) \cap Members(Along(ws, ItemsOf)) = {},
         \A x \in TheItems : x \in Members(s) \cup Members(Along(ws, ItemsOf)) <=>
           x \in Members(Along(messages, SpreadOf)) \cup Members(instructions) /\ x.id \notin w.dropped
  PROVE  Delivers(w, messages, instructions)
<1> DEFINE its == [i \in DOMAIN ws |-> ws[i].items]
           t == Along(ws, ItemsOf)
<1>1. \A i \in DOMAIN ws : ItemsOf[ws[i]] = ws[i].items
  <2>1. \A i \in DOMAIN ws : ws[i] \in ItemSeqs
    OBVIOUS
  <2> QED
    BY <2>1, ItemsOfFacts
<1>2. its = [i \in DOMAIN ws |-> ItemsOf[ws[i]]]
  BY <1>1
<1>3. FlattenSeq(its) = t
  BY <1>2 DEF Along
<1>4. ItemsFrom(w) = s \o t
  BY <1>3 DEF ItemsFrom
<1>5. t \in Seq(TheItems)
  BY ItemsOfFacts, AlongFacts
<1> HIDE DEF t
<1>6. Members(s) \cap Members(t) = {} /\ Paired(t, Allowed)
  BY DEF t
<1>7. s \o t \in Seq(TheItems) /\ Members(s \o t) = Members(s) \cup Members(t) /\ Paired(s \o t, Allowed)
  BY <1>5, <1>6, SystemFirst
<1>8. \A x \in TheItems : x \in Members(s) \cup Members(t) <=>
           x \in Members(Along(messages, SpreadOf)) \cup Members(instructions) /\ x.id \notin w.dropped
  BY DEF t
<1> QED
  BY <1>4, <1>7, <1>8 DEF Delivers

-----------------------------------------------------------------------------
(* What the codec of each provider sends of a message.                        *)

\* A message of a provider has its items.
LEMMA AWire ==
  ASSUME NEW role \in Roles \cup {"call", "result"}, NEW items \in Seq(TheItems)
  PROVE  /\ Wire(role, items) \in ItemSeqs /\ ItemsOf[Wire(role, items)] = items
         /\ <<Wire(role, items)>> \in Seq(ItemSeqs)
         /\ Members(Along(<<Wire(role, items)>>, ItemsOf)) = Members(items)
         /\ Paired(Along(<<Wire(role, items)>>, ItemsOf), Allowed) <=> Paired(items, Allowed)
<1> DEFINE w == Wire(role, items)
<1>1. w \in ItemSeqs /\ w.items = items
  BY DEF Wire, ItemSeqs
<1> HIDE DEF w
<1>2. ItemsOf[w] = items
  BY <1>1, ItemsOfFacts
<1>3. /\ <<w>> \in Seq(ItemSeqs) /\ Members(Along(<<w>>, ItemsOf)) = Members(ItemsOf[w])
      /\ Paired(Along(<<w>>, ItemsOf), Allowed) <=> Paired(ItemsOf[w], Allowed)
  BY <1>1, ItemsOfFacts, AlongShort
<1> QED
  BY <1>1, <1>2, <1>3 DEF w

\* No message has no items.
LEMMA NoWire ==
  <<>> \in Seq(ItemSeqs) /\ Members(Along(<<>>, ItemsOf)) = {} /\ Paired(Along(<<>>, ItemsOf), Allowed)
BY ItemsOfFacts, AlongShort

\* Items that have a message each.
Singles(role, s) == [i \in DOMAIN s |-> Wire(role, <<s[i]>>)]

\* A message for each item keeps them all.
LEMMA SingleWires ==
  ASSUME NEW role \in Roles \cup {"call", "result"}, NEW s \in Seq(TheItems)
  PROVE  /\ Singles(role, s) \in Seq(ItemSeqs) /\ Members(Along(Singles(role, s), ItemsOf)) = Members(s)
         /\ Paired(Along(Singles(role, s), ItemsOf), Allowed) <=> Paired(s, Allowed)
<1> DEFINE ws == [i \in DOMAIN s |-> Wire(role, <<s[i]>>)]
<1>1. ASSUME NEW i \in DOMAIN s
      PROVE  ws[i] \in ItemSeqs /\ Members(ItemsOf[ws[i]]) = {s[i]} /\ Len(ItemsOf[ws[i]]) <= 1
  <2> DEFINE one == <<s[i]>>
             w == Wire(role, one)
  <2>1. s[i] \in TheItems
    OBVIOUS
  <2>2. one \in Seq(TheItems) /\ Members(one) = {s[i]} /\ Len(one) = 1
    BY <2>1, ShortFacts
  <2> HIDE DEF one
  <2>5. Len(one) <= 1
    BY <2>2
  <2>3. w \in ItemSeqs /\ ItemsOf[w] = one
    BY <2>2, AWire
  <2>4. ws[i] = w
    BY DEF one
  <2> HIDE DEF w, ws
  <2> QED
    BY <2>2, <2>3, <2>4, <2>5
<1>2. ws = [i \in DOMAIN s |-> ws[i]] /\ DOMAIN ws = DOMAIN s
  OBVIOUS
<1> HIDE DEF ws
<1>3. Gives(ItemsOf, ItemSeqs, TheItems)
  BY ItemsOfFacts
<1>0. s \in Seq(TheItems)
  OBVIOUS
<1>4. OneEach(ws, ItemsOf, ItemSeqs, s)
  BY <1>1, <1>2 DEF OneEach
<1>5. /\ ws \in Seq(ItemSeqs) /\ Members(Along(ws, ItemsOf)) = Members(s)
      /\ Paired(Along(ws, ItemsOf), Allowed) <=> Paired(s, Allowed)
  BY ONLY <1>0, <1>3, <1>4, AlongSingles
<1> QED
  BY <1>5 DEF ws, Singles

\* The system's words are text, so that none of them is dropped.
LEMMA SystemText ==
  ASSUME Told, NEW s \in Seq(TheItems), \A x \in Members(s) : x.by = "system", Paired(s, Allowed),
         NEW kinds, "text" \in kinds
  PROVE  /\ Select(s, kinds) \in Seq(TheItems) /\ Members(Select(s, kinds)) = Members(s)
         /\ Paired(Select(s, kinds), Allowed)
         /\ Ids(Select(s, Contents \ kinds)) = {}
<1>1. Members(s) \subseteq TheItems
  BY MemberFacts
<1>2. \A x \in Members(s) : x.kind = "text"
  BY <1>1, ItemFacts DEF Sensible
<1>3. /\ Select(s, kinds) \in Seq(TheItems) /\ Members(Select(s, kinds)) = {x \in Members(s) : x.kind \in kinds}
      /\ Paired(Select(s, kinds), Allowed)
  BY SelectFacts
<1>4. \A n \in Ids(Select(s, Contents \ kinds)) : FALSE
  <2> DEFINE t == Select(s, Contents \ kinds)
  <2>1. Members(t) = {x \in Members(s) : x.kind \in Contents \ kinds}
    BY SelectFacts
  <2>2. Members(t) = {}
    BY <1>2, <2>1
  <2> HIDE DEF t
  <2>3. Ids(t) = {x.id : x \in Members(t)}
    BY IdsFacts
  <2> QED
    BY <2>2, <2>3 DEF t
<1> QED
  BY <1>2, <1>3, <1>4

\* What is dropped of the contents of messages.
LEMMA ContentDropped ==
  ASSUME Told, NEW M \in Seq(MessageSeqs), \A m \in Members(M) : Proper(m), NEW kinds
  PROVE  LET contents == FlattenSeq([i \in DOMAIN M |-> M[i].content]) IN
         \A x \in TheItems : x.id \in Ids(Select(contents, Contents \ kinds)) <=>
                               x \in Members(Along(M, SpreadOf)) /\ x.kind \in Contents \ kinds
<1> DEFINE contents == FlattenSeq([i \in DOMAIN M |-> M[i].content])
<1>1. contents \in Seq(TheItems) /\ Members(contents) = {x \in Members(Along(M, SpreadOf)) : x.kind \in Contents}
  BY ContentFacts
<1> HIDE DEF contents
<1>2. \A x \in TheItems : x.id \in Ids(Select(contents, Contents \ kinds)) <=>
                               x \in Members(contents) /\ x.kind \in Contents \ kinds
  BY <1>1, DroppedFacts
<1> QED
  BY <1>1, <1>2 DEF contents

\* The lists of a message, by kinds.
LEMMA ListFacts ==
  ASSUME NEW m \in MessageSeqs, Proper(m), Paired(Spread(m), Allowed), NEW kinds
  PROVE  LET kept == Select(m.content, kinds) IN
         /\ kept \in Seq(TheItems) /\ Paired(kept, Allowed) /\ Members(kept) = {x \in Members(m.content) : x.kind \in kinds}
         /\ m.calls \in Seq(TheItems) /\ Paired(m.calls, Allowed) /\ m.results \in Seq(TheItems) /\ Paired(m.results, Allowed)
         /\ \A x \in Members(kept), y \in Members(m.calls) : <<x, y>> \in Allowed
         /\ \A x \in Members(kept) \cup Members(m.calls), y \in Members(m.results) : <<x, y>> \in Allowed
<1> DEFINE kept == Select(m.content, kinds)
<1>1. m.content \in Seq(TheItems) /\ m.calls \in Seq(TheItems) /\ m.results \in Seq(TheItems) /\ m.role \in Roles
  BY DEF MessageSeqs
<1>2. /\ Paired(m.content, Allowed) /\ Paired(m.calls, Allowed) /\ Paired(m.results, Allowed)
      /\ \A x \in Members(m.content), y \in Members(m.calls) : <<x, y>> \in Allowed
      /\ \A x \in Members(m.content) \cup Members(m.calls), y \in Members(m.results) : <<x, y>> \in Allowed
  BY SpreadFacts
<1>3. kept \in Seq(TheItems) /\ Paired(kept, Allowed) /\ Members(kept) = {x \in Members(m.content) : x.kind \in kinds}
  BY <1>1, <1>2, SelectFacts
<1> HIDE DEF kept
<1> QED
  BY <1>1, <1>2, <1>3 DEF kept

\* What of a message is kept when some kinds of content are.
LEMMA SpreadKept ==
  ASSUME NEW m \in MessageSeqs, Proper(m), NEW kinds \in SUBSET Contents
  PROVE  {x \in Members(Spread(m)) : x.kind \in kinds \cup {"call", "result"}} =
           {x \in Members(m.content) : x.kind \in kinds} \cup Members(m.calls) \cup Members(m.results)
<1>1. Members(Spread(m)) = Members(m.content) \cup Members(m.calls) \cup Members(m.results)
  BY SpreadFacts
<1>2. "call" \notin Contents /\ "result" \notin Contents
  BY DEF Contents
<1> QED
  BY <1>1, <1>2 DEF Proper

\* The wires of one message: what is kept of it, in an order that is allowed.
Wired(ws, m, kinds) ==
  /\ ws \in Seq(ItemSeqs) /\ Paired(Along(ws, ItemsOf), Allowed)
  /\ Members(Along(ws, ItemsOf)) = {x \in Members(Spread(m)) : x.kind \in kinds \cup {"call", "result"}}

\* Chat Completions sends of a message what it takes, calls and results,
LEMMA ChatWires ==
  ASSUME NEW m \in MessageSeqs, Proper(m), Paired(Spread(m), Allowed)
  PROVE  Wired(ChatMessages(m), m, ChatKinds)
<1> DEFINE kept == Select(m.content, ChatKinds)
           ws == ChatMessages(m)
<1>1. ChatKinds \in SUBSET Contents
  BY DEF ChatKinds, Contents
<1>2. /\ kept \in Seq(TheItems) /\ Paired(kept, Allowed) /\ Members(kept) = {x \in Members(m.content) : x.kind \in ChatKinds}
      /\ m.calls \in Seq(TheItems) /\ Paired(m.calls, Allowed) /\ m.results \in Seq(TheItems) /\ Paired(m.results, Allowed)
      /\ \A x \in Members(kept), y \in Members(m.calls) : <<x, y>> \in Allowed
  BY ListFacts
<1>3. m.role \in Roles /\ "tool" \in Roles
  BY DEF MessageSeqs, Roles
<1>4. {x \in Members(Spread(m)) : x.kind \in ChatKinds \cup {"call", "result"}} =
           Members(kept) \cup Members(m.calls) \cup Members(m.results)
  BY <1>1, <1>2, SpreadKept
<1>5. CASE m.role = "tool" /\ m.results # <<>>
  <2> DEFINE r == m.results
  <2>1. ws = Singles("tool", r)
    BY <1>5 DEF ChatMessages, Singles
  <2>2. m.content = <<>> /\ m.calls = <<>>
    BY <1>5 DEF Proper
  <2>3. Members(m.content) = {} /\ Members(m.calls) = {}
    BY <2>2, NothingFacts
  <2>4. r \in Seq(TheItems) /\ Paired(r, Allowed) /\ "tool" \in Roles \cup {"call", "result"}
    BY <1>2, <1>3
  <2> HIDE DEF r, ws, kept
  <2>5. ws \in Seq(ItemSeqs) /\ Members(Along(ws, ItemsOf)) = Members(r) /\ Paired(Along(ws, ItemsOf), Allowed)
    BY <2>1, <2>4, SingleWires
  <2>6. Members(r) = {x \in Members(Spread(m)) : x.kind \in ChatKinds \cup {"call", "result"}}
    BY <1>2, <1>4, <2>3 DEF r
  <2>7. Wired(ws, m, ChatKinds)
    BY <2>5, <2>6 DEF Wired
  <2> QED
    BY <2>7 DEF ws
<1>6. CASE ~(m.role = "tool" /\ m.results # <<>>)
  <2> DEFINE items == kept \o m.calls
             calls == m.calls
             role == m.role
  <2>1. ws = <<Wire(role, items)>>
    BY <1>6 DEF ChatMessages
  <2>2. m.results = <<>>
    BY <1>6 DEF Proper
  <2>3. Members(m.results) = {}
    BY <2>2, NothingFacts
  <2>4. calls \in Seq(TheItems) /\ Paired(calls, Allowed) /\ \A x \in Members(kept), y \in Members(calls) : <<x, y>> \in Allowed
    BY <1>2
  <2> HIDE DEF kept, calls
  <2>5. items \in Seq(TheItems) /\ Members(items) = Members(kept) \cup Members(calls) /\ Paired(items, Allowed)
    BY <1>2, <2>4, ConcatFacts DEF calls
  <2>6. role \in Roles \cup {"call", "result"}
    BY <1>3
  <2> HIDE DEF items, role, ws
  <2>7. ws \in Seq(ItemSeqs) /\ Members(Along(ws, ItemsOf)) = Members(items) /\ Paired(Along(ws, ItemsOf), Allowed)
    BY <2>1, <2>5, <2>6, AWire
  <2>8. Members(items) = {x \in Members(Spread(m)) : x.kind \in ChatKinds \cup {"call", "result"}}
    BY <1>4, <2>3, <2>5 DEF calls
  <2>9. Wired(ws, m, ChatKinds)
    BY <2>7, <2>8 DEF Wired
  <2> QED
    BY <2>9 DEF ws
<1> QED
  BY <1>5, <1>6

\* and so does Responses.
LEMMA ResponsesWires ==
  ASSUME NEW m \in MessageSeqs, Proper(m), Paired(Spread(m), Allowed)
  PROVE  Wired(ResponsesItems(m), m, ResponsesKinds)
<1> DEFINE kept == Select(m.content, ResponsesKinds)
           calls == m.calls
           results == m.results
           role == m.role
           u == IF kept = <<>> THEN <<>> ELSE <<Wire(role, kept)>>
           v == Singles("call", calls)
           w == Singles("result", results)
           f == u \o v
           ws == f \o w
<1>1. ResponsesKinds \in SUBSET Contents
  BY DEF ResponsesKinds, Contents
<1>2. /\ kept \in Seq(TheItems) /\ Paired(kept, Allowed) /\ Members(kept) = {x \in Members(m.content) : x.kind \in ResponsesKinds}
      /\ calls \in Seq(TheItems) /\ Paired(calls, Allowed) /\ results \in Seq(TheItems) /\ Paired(results, Allowed)
      /\ \A x \in Members(kept), y \in Members(calls) : <<x, y>> \in Allowed
      /\ \A x \in Members(kept) \cup Members(calls), y \in Members(results) : <<x, y>> \in Allowed
  BY ListFacts
<1>3. role \in Roles \cup {"call", "result"} /\ Gives(ItemsOf, ItemSeqs, TheItems)
      /\ "call" \in Roles \cup {"call", "result"} /\ "result" \in Roles \cup {"call", "result"}
  BY ItemsOfFacts DEF MessageSeqs
<1>4. {x \in Members(Spread(m)) : x.kind \in ResponsesKinds \cup {"call", "result"}} =
           Members(kept) \cup Members(calls) \cup Members(results)
  BY <1>1, <1>2, SpreadKept
<1>5. ws = ResponsesItems(m)
  BY DEF ResponsesItems, Singles
<1> HIDE DEF kept, calls, results, role
<1>6. u \in Seq(ItemSeqs) /\ Members(Along(u, ItemsOf)) = Members(kept) /\ Paired(Along(u, ItemsOf), Allowed)
  <2> DEFINE one == <<Wire(role, kept)>>
             none == <<>>
  <2>1. one \in Seq(ItemSeqs) /\ Members(Along(one, ItemsOf)) = Members(kept) /\ Paired(Along(one, ItemsOf), Allowed)
    BY <1>2, <1>3, AWire
  <2>2. none \in Seq(ItemSeqs) /\ Members(Along(none, ItemsOf)) = {} /\ Paired(Along(none, ItemsOf), Allowed) /\ Members(none) = {}
    BY NoWire, NothingFacts
  <2>3. u = IF kept = none THEN none ELSE one
    OBVIOUS
  <2> HIDE DEF one, none, u
  <2> QED
    BY <2>1, <2>2, <2>3
<1>7. v \in Seq(ItemSeqs) /\ Members(Along(v, ItemsOf)) = Members(calls) /\ Paired(Along(v, ItemsOf), Allowed)
  BY <1>2, <1>3, SingleWires
<1>8. w \in Seq(ItemSeqs) /\ Members(Along(w, ItemsOf)) = Members(results) /\ Paired(Along(w, ItemsOf), Allowed)
  BY <1>2, <1>3, SingleWires
<1> HIDE DEF u, v, w
<1>9. /\ f \in Seq(ItemSeqs) /\ Members(Along(f, ItemsOf)) = Members(Along(u, ItemsOf)) \cup Members(Along(v, ItemsOf))
      /\ Paired(Along(f, ItemsOf), Allowed) <=>
           /\ Paired(Along(u, ItemsOf), Allowed) /\ Paired(Along(v, ItemsOf), Allowed)
           /\ \A x \in Members(Along(u, ItemsOf)), y \in Members(Along(v, ItemsOf)) : <<x, y>> \in Allowed
  BY <1>3, <1>6, <1>7, AlongConcat
<1> HIDE DEF f
<1>10. /\ ws \in Seq(ItemSeqs) /\ Members(Along(ws, ItemsOf)) = Members(Along(f, ItemsOf)) \cup Members(Along(w, ItemsOf))
       /\ Paired(Along(ws, ItemsOf), Allowed) <=>
           /\ Paired(Along(f, ItemsOf), Allowed) /\ Paired(Along(w, ItemsOf), Allowed)
           /\ \A x \in Members(Along(f, ItemsOf)), y \in Members(Along(w, ItemsOf)) : <<x, y>> \in Allowed
  BY <1>3, <1>8, <1>9, AlongConcat
<1> HIDE DEF ws
<1>11. Wired(ws, m, ResponsesKinds)
  BY <1>2, <1>4, <1>6, <1>7, <1>8, <1>9, <1>10 DEF Wired
<1> QED
  BY <1>5, <1>11

\* A message of the Messages API has what is kept, in the order of the lists.
LEMMA AnthropicWire ==
  ASSUME NEW m \in MessageSeqs, Proper(m), Paired(Spread(m), Allowed)
  PROVE  LET w == AnthropicMessage(m) IN
         /\ w \in ItemSeqs /\ Paired(ItemsOf[w], Allowed)
         /\ Members(ItemsOf[w]) = {x \in Members(Spread(m)) : x.kind \in MessagesKinds \cup {"call", "result"}}
<1> DEFINE kept == Select(m.content, MessagesKinds)
           calls == m.calls
           results == m.results
           role == IF m.role = "tool" THEN "user" ELSE m.role
           f == kept \o calls
           items == f \o results
           w == AnthropicMessage(m)
<1>1. MessagesKinds \in SUBSET Contents
  BY DEF MessagesKinds, Contents
<1>2. /\ kept \in Seq(TheItems) /\ Paired(kept, Allowed) /\ Members(kept) = {x \in Members(m.content) : x.kind \in MessagesKinds}
      /\ calls \in Seq(TheItems) /\ Paired(calls, Allowed) /\ results \in Seq(TheItems) /\ Paired(results, Allowed)
      /\ \A x \in Members(kept), y \in Members(calls) : <<x, y>> \in Allowed
      /\ \A x \in Members(kept) \cup Members(calls), y \in Members(results) : <<x, y>> \in Allowed
  BY ListFacts
<1>3. role \in Roles \cup {"call", "result"}
  BY DEF MessageSeqs, Roles
<1>4. {x \in Members(Spread(m)) : x.kind \in MessagesKinds \cup {"call", "result"}} =
           Members(kept) \cup Members(calls) \cup Members(results)
  BY <1>1, <1>2, SpreadKept
<1>5. w = Wire(role, items)
  BY DEF AnthropicMessage
<1> HIDE DEF kept, calls, results, role, w
<1>6. f \in Seq(TheItems) /\ Members(f) = Members(kept) \cup Members(calls) /\ Paired(f, Allowed)
  BY <1>2, ConcatFacts
<1> HIDE DEF f
<1>7. items \in Seq(TheItems) /\ Members(items) = Members(f) \cup Members(results) /\ Paired(items, Allowed)
  BY <1>2, <1>6, ConcatFacts
<1> HIDE DEF items
<1>8. w \in ItemSeqs /\ ItemsOf[w] = items
  BY <1>3, <1>5, <1>7, AWire
<1>9. /\ w \in ItemSeqs /\ Paired(ItemsOf[w], Allowed)
      /\ Members(ItemsOf[w]) = {x \in Members(Spread(m)) : x.kind \in MessagesKinds \cup {"call", "result"}}
  BY <1>4, <1>6, <1>7, <1>8
<1> QED
  BY <1>9 DEF w

\* The content that Converse takes from each role.
ConverseKinds(role) == CASE role = "user" -> {"text"} [] role = "assistant" -> {"text", "reasoning"} [] OTHER -> {}

\* Converse sends of a message what it takes of the message's role, calls and results.
LEMMA ConverseWires ==
  ASSUME NEW m \in MessageSeqs, Proper(m), Paired(Spread(m), Allowed)
  PROVE  Wired(ConverseMessages(m), m, ConverseKinds(m.role))
<1> DEFINE kinds == ConverseKinds(m.role)
           kept == Select(m.content, kinds)
           calls == m.calls
           results == m.results
           role == IF m.role = "tool" THEN "user" ELSE m.role
           items == CASE m.role = "user" -> kept
                      [] m.role = "assistant" -> kept \o calls
                      [] m.role = "tool" -> results
                      [] OTHER -> <<>>
           ws == ConverseMessages(m)
           none == <<>>
<1>1. kinds \in SUBSET Contents
  BY DEF ConverseKinds, Contents
<1>2. /\ kept \in Seq(TheItems) /\ Paired(kept, Allowed) /\ Members(kept) = {x \in Members(m.content) : x.kind \in kinds}
      /\ calls \in Seq(TheItems) /\ Paired(calls, Allowed) /\ results \in Seq(TheItems) /\ Paired(results, Allowed)
      /\ \A x \in Members(kept), y \in Members(calls) : <<x, y>> \in Allowed
  BY ListFacts
<1>3. role \in Roles \cup {"call", "result"} /\ m.role \in Roles
  BY DEF MessageSeqs, Roles
<1>4. {x \in Members(Spread(m)) : x.kind \in kinds \cup {"call", "result"}} =
           Members(kept) \cup Members(calls) \cup Members(results)
  BY <1>1, <1>2, SpreadKept
<1>5. /\ m.role = "user" => kinds = {"text"}
      /\ m.role = "assistant" => kinds = {"text", "reasoning"}
      /\ m.role \notin {"user", "assistant"} => kinds = {}
  BY DEF ConverseKinds
<1>6. ws = IF items = none THEN none ELSE <<Wire(role, items)>>
  BY <1>5 DEF ConverseMessages
<1>7. /\ none \in Seq(ItemSeqs) /\ Members(Along(none, ItemsOf)) = {} /\ Paired(Along(none, ItemsOf), Allowed)
      /\ Members(none) = {} /\ none \in Seq(TheItems) /\ Paired(none, Allowed)
  BY NoWire, NothingFacts
<1>8. /\ m.role = "tool" => Members(kept) = {}
      /\ m.role # "tool" => Members(results) = {}
      /\ m.role # "assistant" => Members(calls) = {}
      /\ m.role \notin {"user", "assistant"} => Members(kept) = {}
  <2>1. /\ m.role = "tool" => m.content = none
        /\ m.role # "tool" => results = none
        /\ m.role # "assistant" => calls = none
    BY DEF Proper
  <2> HIDE DEF none, kept, calls, results, kinds
  <2> QED
    BY <1>2, <1>5, <1>7, <2>1
<1> HIDE DEF kept, calls, results, role, ws, none, kinds
<1>9. items \in Seq(TheItems) /\ Members(items) = Members(kept) \cup Members(calls) \cup Members(results) /\ Paired(items, Allowed)
  <2>1. kept \o calls \in Seq(TheItems) /\ Members(kept \o calls) = Members(kept) \cup Members(calls) /\ Paired(kept \o calls, Allowed)
    BY <1>2, ConcatFacts
  <2> DEFINE both == kept \o calls
  <2>2. items = CASE m.role = "user" -> kept [] m.role = "assistant" -> both [] m.role = "tool" -> results [] OTHER -> none
    BY DEF none
  <2>3. both \in Seq(TheItems) /\ Members(both) = Members(kept) \cup Members(calls) /\ Paired(both, Allowed)
    BY <2>1
  <2> HIDE DEF both, items
  <2> QED
    BY <1>2, <1>7, <1>8, <2>2, <2>3
<1> HIDE DEF items
<1>10. Wired(ws, m, kinds)
  <2> DEFINE one == <<Wire(role, items)>>
  <2>1. one \in Seq(ItemSeqs) /\ Members(Along(one, ItemsOf)) = Members(items) /\ Paired(Along(one, ItemsOf), Allowed)
    BY <1>3, <1>9, AWire
  <2> HIDE DEF one
  <2>2. ws = IF items = none THEN none ELSE one
    BY <1>6 DEF one
  <2>3. ws \in Seq(ItemSeqs) /\ Members(Along(ws, ItemsOf)) = Members(items) /\ Paired(Along(ws, ItemsOf), Allowed)
    BY <1>7, <2>1, <2>2
  <2> QED
    BY <1>4, <1>9, <2>3 DEF Wired
<1> QED
  BY <1>10 DEF ws, kinds

\* What of messages is kept, each with kinds of content of its own, or all with the same.
Remains(M, K) == UNION {{x \in Members(SpreadOf[M[i]]) : x.kind \in K[i] \cup {"call", "result"}} : i \in DOMAIN M}
\* All of the messages' items that an API takes.
Remaining(M, kinds) == {x \in Members(Along(M, SpreadOf)) : x.kind \in kinds \cup {"call", "result"}}

\* The wires of all messages.
LEMMA AllWired ==
  ASSUME NEW M \in Seq(MessageSeqs), Paired(Along(M, SpreadOf), Allowed),
         NEW e, e = [i \in DOMAIN M |-> e[i]], NEW K, \A i \in DOMAIN M : Wired(e[i], M[i], K[i])
  PROVE  /\ FlattenSeq(e) \in Seq(ItemSeqs) /\ Paired(Along(FlattenSeq(e), ItemsOf), Allowed)
         /\ Members(Along(FlattenSeq(e), ItemsOf)) = Remains(M, K)
<1>1. \A i \in DOMAIN M : M[i] \in MessageSeqs
  OBVIOUS
<1>2. \A i \in DOMAIN M : SpreadOf[M[i]] = Spread(M[i])
  BY <1>1, SpreadFacts
<1>3. \A i \in DOMAIN M :
        /\ e[i] \in Seq(ItemSeqs) /\ Paired(Along(e[i], ItemsOf), Allowed)
        /\ Members(Along(e[i], ItemsOf)) = {x \in Members(SpreadOf[M[i]]) : x.kind \in K[i] \cup {"call", "result"}}
  BY <1>2 DEF Wired
<1>4. /\ FlattenSeq(e) \in Seq(ItemSeqs) /\ Paired(Along(FlattenSeq(e), ItemsOf), Allowed)
      /\ Members(Along(FlattenSeq(e), ItemsOf)) = UNION {Members(Along(e[i], ItemsOf)) : i \in DOMAIN M}
  BY <1>3, WireFacts
<1> DEFINE g(i) == Members(Along(e[i], ItemsOf))
           h(i) == {x \in Members(SpreadOf[M[i]]) : x.kind \in K[i] \cup {"call", "result"}}
<1>5. \A i \in DOMAIN M : g(i) = h(i)
  BY <1>3
<1>6. Members(Along(FlattenSeq(e), ItemsOf)) = UNION {g(i) : i \in DOMAIN M}
  BY <1>4
<1> HIDE DEF g, h
<1>7. Members(Along(FlattenSeq(e), ItemsOf)) = UNION {h(i) : i \in DOMAIN M}
  BY <1>5, <1>6
<1> QED
  BY <1>4, <1>7 DEF h, Remains

\* Where every message keeps the same kinds.
LEMMA AllKept ==
  ASSUME NEW M \in Seq(MessageSeqs), NEW kinds, NEW K, \A i \in DOMAIN M : K[i] = kinds
  PROVE  Remains(M, K) = Remaining(M, kinds)
<1>1. Members(Along(M, SpreadOf)) = UNION {Members(SpreadOf[m]) : m \in Members(M)}
  BY SpreadOfFacts, AlongFacts
<1>2. Members(M) = {M[i] : i \in DOMAIN M}
  BY DEF Members
<1> DEFINE all == kinds \cup {"call", "result"}
<1>3. \A i \in DOMAIN M : K[i] \cup {"call", "result"} = all
  OBVIOUS
<1> HIDE DEF all
<1>4. UNION {{x \in Members(SpreadOf[M[i]]) : x.kind \in all} : i \in DOMAIN M}
           = {x \in Members(Along(M, SpreadOf)) : x.kind \in all}
  BY <1>1, <1>2
<1>5. Remains(M, K) = UNION {{x \in Members(SpreadOf[M[i]]) : x.kind \in all} : i \in DOMAIN M}
  BY <1>3 DEF Remains
<1> QED
  BY <1>4, <1>5 DEF Remaining, all

-----------------------------------------------------------------------------
(* What the codecs send of all messages and instructions: the bodies of       *)
(* Chat Completions, Responses, Converse and Messages.                        *)

\* What is carried, by its parts.
LEMMA CarriedFacts ==
  ASSUME NEW M, NEW I, NEW D, Carries(M, I, D, TheItems)
  PROVE  /\ M \in Seq(MessageSeqs) /\ \A m \in Members(M) : Proper(m)
         /\ \A i \in DOMAIN M : M[i] \in MessageSeqs /\ Proper(M[i]) /\ Paired(Spread(M[i]), Allowed)
         /\ Paired(Along(M, SpreadOf), Allowed) /\ Along(M, SpreadOf) \in Seq(TheItems)
         /\ Members(Along(M, SpreadOf)) \subseteq TheItems
         /\ I \in Seq(TheItems) /\ Paired(I, Allowed) /\ Members(I) \subseteq TheItems
         /\ \A x \in Members(I) : x.by = "system"
         /\ Members(Along(M, SpreadOf)) \cap Members(I) = {}
<1>1. /\ M \in Seq(MessageSeqs) /\ \A m \in Members(M) : Proper(m)
      /\ Paired(Along(M, SpreadOf), Allowed)
      /\ I \in Seq(TheItems) /\ Paired(I, Allowed) /\ \A x \in Members(I) : x.by = "system"
      /\ Members(Along(M, SpreadOf)) \cap Members(I) = {}
  BY DEF Carries
<1>2. /\ Along(M, SpreadOf) \in Seq(TheItems)
      /\ Paired(Along(M, SpreadOf), Allowed) <=>
           (\A m \in Members(M) : Paired(SpreadOf[m], Allowed)) /\ Paired(M, Across(MessageSeqs, SpreadOf, Allowed))
  BY <1>1, SpreadOfFacts, AlongFacts
<1>3. Members(I) \subseteq TheItems /\ Members(Along(M, SpreadOf)) \subseteq TheItems
  BY <1>1, <1>2, MemberFacts
<1>4. \A i \in DOMAIN M : M[i] \in MessageSeqs /\ M[i] \in Members(M)
  BY <1>1, MemberFacts
<1>5. \A i \in DOMAIN M : SpreadOf[M[i]] = Spread(M[i])
  BY <1>4, SpreadFacts
<1> QED
  BY <1>1, <1>2, <1>3, <1>4, <1>5

\* Items of a sequence with those of the system before them.
LEMMA SystemBefore ==
  ASSUME Told, NEW X \in SUBSET TheItems, NEW Y \in SUBSET TheItems, \A x \in X : x.by = "system", X \cap Y = {}
  PROVE  \A x \in X, y \in Y : <<x, y>> \in Allowed
<1> TAKE x \in X, y \in Y
<1>1. x \in TheItems /\ y \in TheItems /\ x # y /\ x.by = "system"
  OBVIOUS
<1>2. MayPrecede(x, y)
  BY <1>1, OneOfANumber DEF MayPrecede
<1> QED
  BY <1>1, <1>2, RelationFacts

\* An item is content, a call or a result.
LEMMA KindFacts ==
  ASSUME Told, NEW kinds
  PROVE  \A x \in TheItems : x.kind \in kinds \cup {"call", "result"} <=> x.kind \notin Contents \ kinds
<1>1. \A x \in TheItems : x.kind \in Kinds
  BY ItemFacts DEF Things
<1>2. "call" \notin Contents /\ "result" \notin Contents
  BY DEF Contents
<1> QED
  BY <1>1, <1>2 DEF Kinds

\* When what is dropped of the messages is all that is not kept, the rest arrives.
LEMMA KeptArrives ==
  ASSUME Told, NEW M, NEW I, NEW D, Carries(M, I, D, TheItems), NEW kinds, NEW dropped,
         \A x \in TheItems : x.id \in dropped <=> x \in Members(Along(M, SpreadOf)) /\ x.kind \in Contents \ kinds
  PROVE  \A x \in TheItems :
           x \in Members(I) \cup Remaining(M, kinds)
             <=> x \in Members(Along(M, SpreadOf)) \cup Members(I) /\ x.id \notin dropped
<1>1. Members(Along(M, SpreadOf)) \cap Members(I) = {}
  BY CarriedFacts
<1>2. \A x \in TheItems : x.kind \in kinds \cup {"call", "result"} <=> x.kind \notin Contents \ kinds
  BY KindFacts
<1> QED
  BY <1>1, <1>2 DEF Remaining

\* The messages that Chat Completions has for the instructions.
ChatSystem(I) == [i \in DOMAIN I |-> Wire("system", Select(<<I[i]>>, {"text"}))]

\* A message of the system for each item of the instructions.
LEMMA SystemWires ==
  ASSUME Told, NEW I \in Seq(TheItems), \A x \in Members(I) : x.by = "system", Paired(I, Allowed)
  PROVE  /\ ChatSystem(I) \in Seq(ItemSeqs) /\ Paired(Along(ChatSystem(I), ItemsOf), Allowed)
         /\ Members(Along(ChatSystem(I), ItemsOf)) = Members(I)
<1> DEFINE ws == ChatSystem(I)
<1>1. ASSUME NEW i \in DOMAIN I
      PROVE  ws[i] \in ItemSeqs /\ Members(ItemsOf[ws[i]]) = {I[i]} /\ Len(ItemsOf[ws[i]]) <= 1
  <2> DEFINE x == I[i]
             one == <<x>>
             t == Select(one, {"text"})
             role == "system"
             w == Wire(role, t)
  <2>1. x \in TheItems /\ x \in Members(I) /\ x.by = "system"
    BY MemberFacts
  <2>2. x.kind = "text"
    BY <2>1, ItemFacts DEF Sensible
  <2>3. one \in Seq(TheItems) /\ Members(one) = {x} /\ Paired(one, {})
    BY <2>1, ShortFacts
  <2> HIDE DEF one, x
  <2>4. t \in Seq(TheItems) /\ Members(t) = {y \in Members(one) : y.kind \in {"text"}} /\ Paired(t, {})
    BY <2>3, SelectFacts
  <2> HIDE DEF t
  <2>5. Len(t) \in Nat /\ DOMAIN t = 1..Len(t) /\ Members(t) = {x}
    BY <2>2, <2>3, <2>4
  <2>6. ~(1 \in DOMAIN t /\ 2 \in DOMAIN t)
    BY <2>4 DEF Paired
  <2>7. Len(t) <= 1
    BY <2>5, <2>6
  <2>8. role \in Roles \cup {"call", "result"} /\ ws[i] = w
    BY DEF Roles, ChatSystem, t, one, x
  <2> HIDE DEF role
  <2>9. w \in ItemSeqs /\ ItemsOf[w] = t
    BY <2>4, <2>8, AWire
  <2> HIDE DEF w, ws
  <2> QED
    BY <2>5, <2>7, <2>8, <2>9 DEF x
<1>0. I \in Seq(TheItems)
  OBVIOUS
<1>2. ws = [i \in DOMAIN I |-> ws[i]] /\ DOMAIN ws = DOMAIN I
  BY DEF ChatSystem
<1> HIDE DEF ws
<1>3. Gives(ItemsOf, ItemSeqs, TheItems)
  BY ItemsOfFacts
<1>4. OneEach(ws, ItemsOf, ItemSeqs, I)
  BY <1>1, <1>2 DEF OneEach
<1>5. /\ ws \in Seq(ItemSeqs) /\ Members(Along(ws, ItemsOf)) = Members(I)
      /\ Paired(Along(ws, ItemsOf), Allowed) <=> Paired(I, Allowed)
  BY ONLY <1>0, <1>3, <1>4, AlongSingles
<1> QED
  BY <1>5 DEF ws

\* The body of a Chat Completions request.
LEMMA ChatBody ==
  ASSUME Told, NEW M, NEW I, NEW D, Carries(M, I, D, TheItems), NEW w, w.system = <<>>,
         w.messages = ChatSystem(I) \o FlattenSeq([i \in DOMAIN M |-> ChatMessages(M[i])]),
         \A x \in TheItems :
           x.id \in w.dropped <=> x \in Members(Along(M, SpreadOf)) /\ x.kind \in Contents \ ChatKinds
  PROVE  Delivers(w, M, I)
<1> DEFINE e == [i \in DOMAIN M |-> ChatMessages(M[i])]
           K == [i \in DOMAIN M |-> ChatKinds]
           u == ChatSystem(I)
           v == FlattenSeq(e)
           ws == u \o v
           none == <<>>
           A == Along(M, SpreadOf)
<1>1. /\ M \in Seq(MessageSeqs) /\ Paired(A, Allowed) /\ Members(A) \subseteq TheItems
      /\ \A i \in DOMAIN M : M[i] \in MessageSeqs /\ Proper(M[i]) /\ Paired(Spread(M[i]), Allowed)
      /\ I \in Seq(TheItems) /\ Paired(I, Allowed) /\ Members(I) \subseteq TheItems
      /\ \A x \in Members(I) : x.by = "system"
      /\ Members(A) \cap Members(I) = {}
  BY CarriedFacts
<1>2. \A i \in DOMAIN M : Wired(e[i], M[i], K[i])
  BY <1>1, ChatWires
<1>3. e = [i \in DOMAIN M |-> e[i]] /\ \A i \in DOMAIN M : K[i] = ChatKinds
  OBVIOUS
<1> HIDE DEF e, K
<1>4. /\ v \in Seq(ItemSeqs) /\ Paired(Along(v, ItemsOf), Allowed)
      /\ Members(Along(v, ItemsOf)) = Remains(M, K)
  BY <1>1, <1>2, <1>3, AllWired
<1>5. Remains(M, K) = Remaining(M, ChatKinds)
  BY <1>1, <1>3, AllKept
<1>6. Members(Along(v, ItemsOf)) = Remaining(M, ChatKinds) /\ Remaining(M, ChatKinds) \subseteq Members(A)
  BY <1>4, <1>5 DEF Remaining
<1>7. u \in Seq(ItemSeqs) /\ Paired(Along(u, ItemsOf), Allowed) /\ Members(Along(u, ItemsOf)) = Members(I)
  BY <1>1, SystemWires
<1> HIDE DEF u, v
<1>8. Gives(ItemsOf, ItemSeqs, TheItems)
  BY ItemsOfFacts
<1>9. /\ ws \in Seq(ItemSeqs) /\ Members(Along(ws, ItemsOf)) = Members(Along(u, ItemsOf)) \cup Members(Along(v, ItemsOf))
      /\ Paired(Along(ws, ItemsOf), Allowed) <=>
           /\ Paired(Along(u, ItemsOf), Allowed) /\ Paired(Along(v, ItemsOf), Allowed)
           /\ \A x \in Members(Along(u, ItemsOf)), y \in Members(Along(v, ItemsOf)) : <<x, y>> \in Allowed
  BY <1>4, <1>7, <1>8, AlongConcat
<1>10. \A x \in Members(I), y \in Members(Along(v, ItemsOf)) : <<x, y>> \in Allowed
  <2>1. Members(Along(v, ItemsOf)) \subseteq TheItems /\ Members(I) \cap Members(Along(v, ItemsOf)) = {}
    BY <1>1, <1>6
  <2> DEFINE Y == Members(Along(v, ItemsOf))
  <2> HIDE DEF Y
  <2>2. \A x \in Members(I), y \in Y : <<x, y>> \in Allowed
    BY <1>1, <2>1, SystemBefore DEF Y
  <2> QED
    BY <2>2 DEF Y
<1>11. w.messages = ws
  BY DEF u, v, e
<1> HIDE DEF ws
<1>12. none \in Seq(TheItems) /\ Members(none) = {} /\ Paired(none, Allowed) /\ w.system = none
  BY NothingFacts
<1> HIDE DEF none
<1>13. \A x \in TheItems : x \in Members(I) \cup Remaining(M, ChatKinds)
                             <=> x \in Members(A) \cup Members(I) /\ x.id \notin w.dropped
  <2> DEFINE given == w.dropped
  <2>1. \A x \in TheItems : x.id \in given <=> x \in Members(Along(M, SpreadOf)) /\ x.kind \in Contents \ ChatKinds
    OBVIOUS
  <2> HIDE DEF given
  <2>2. \A x \in TheItems :
           x \in Members(I) \cup Remaining(M, ChatKinds)
             <=> x \in Members(Along(M, SpreadOf)) \cup Members(I) /\ x.id \notin given
    BY <2>1, KeptArrives
  <2> QED
    BY <2>2 DEF given
<1>14. Paired(Along(ws, ItemsOf), Allowed)
  BY <1>4, <1>7, <1>9, <1>10
<1>15. \A x \in TheItems : x \in Members(none) \cup Members(Along(ws, ItemsOf)) <=>
           x \in Members(A) \cup Members(I) /\ x.id \notin w.dropped
  BY <1>6, <1>7, <1>9, <1>12, <1>13
<1> QED
  BY <1>9, <1>11, <1>12, <1>14, <1>15, ArrivedFacts

\* Messages in order: what of each is picked keeps it.
LEMMA PartsFacts ==
  ASSUME NEW M \in Seq(MessageSeqs), Paired(Along(M, SpreadOf), Allowed),
         NEW t, t = [i \in DOMAIN M |-> t[i]],
         \A i \in DOMAIN M : /\ t[i] \in Seq(TheItems) /\ Paired(t[i], Allowed)
                             /\ Members(t[i]) \subseteq Members(SpreadOf[M[i]])
  PROVE  /\ FlattenSeq(t) \in Seq(TheItems) /\ Paired(FlattenSeq(t), Allowed)
         /\ Members(FlattenSeq(t)) = UNION {Members(t[i]) : i \in DOMAIN M}
<1>1. DOMAIN M = 1..Len(M) /\ Len(M) \in Nat /\ \A i \in DOMAIN M : M[i] \in MessageSeqs /\ M[i] \in Members(M)
  BY MemberFacts
<1>2. t \in Seq(Seq(TheItems)) /\ DOMAIN t = DOMAIN M
  BY <1>1
<1>3. /\ FlattenSeq(t) \in Seq(TheItems)
      /\ Members(FlattenSeq(t)) = UNION {Members(t[i]) : i \in DOMAIN t}
      /\ Paired(FlattenSeq(t), Allowed) <=>
           /\ \A i \in DOMAIN t : Paired(t[i], Allowed)
           /\ \A i, k \in DOMAIN t : i < k => \A x \in Members(t[i]), y \in Members(t[k]) : <<x, y>> \in Allowed
  BY ONLY <1>2, FlattenFacts
<1>4. Paired(M, Across(MessageSeqs, SpreadOf, Allowed))
  BY SpreadOfFacts, AlongFacts
<1>5. ASSUME NEW i \in DOMAIN M, NEW k \in DOMAIN M, i < k,
             NEW x \in Members(SpreadOf[M[i]]), NEW y \in Members(SpreadOf[M[k]])
      PROVE  <<x, y>> \in Allowed
  <2> DEFINE v == M[i]
             w == M[k]
  <2>1. v \in MessageSeqs /\ w \in MessageSeqs /\ <<v, w>> \in Across(MessageSeqs, SpreadOf, Allowed)
    BY <1>1, <1>4, <1>5 DEF Paired
  <2>2. x \in Members(SpreadOf[v]) /\ y \in Members(SpreadOf[w])
    OBVIOUS
  <2> HIDE DEF v, w
  <2> QED
    BY <2>1, <2>2, AcrossFacts
<1> QED
  BY <1>2, <1>3, <1>5

\* An item is in one message.
LEMMA OnePlace ==
  ASSUME Told, NEW M \in Seq(MessageSeqs), Paired(Along(M, SpreadOf), Allowed),
         NEW i \in DOMAIN M, NEW k \in DOMAIN M, NEW x, x \in Members(SpreadOf[M[i]]), x \in Members(SpreadOf[M[k]])
  PROVE  i = k
<1>1. Paired(M, Across(MessageSeqs, SpreadOf, Allowed))
  BY SpreadOfFacts, AlongFacts
<1>2. \A n \in DOMAIN M : M[n] \in MessageSeqs
  OBVIOUS
<1>3. ~(<<x, x>> \in Allowed)
  BY RelationFacts DEF MayPrecede
<1>4. ASSUME NEW a \in DOMAIN M, NEW b \in DOMAIN M, a < b, x \in Members(SpreadOf[M[a]]), x \in Members(SpreadOf[M[b]])
      PROVE  FALSE
  <2> DEFINE v == M[a]
             w == M[b]
  <2>1. v \in MessageSeqs /\ w \in MessageSeqs /\ <<v, w>> \in Across(MessageSeqs, SpreadOf, Allowed)
    BY <1>1, <1>2, <1>4 DEF Paired
  <2>2. x \in Members(SpreadOf[v]) /\ x \in Members(SpreadOf[w])
    BY <1>4
  <2> HIDE DEF v, w
  <2>3. <<x, x>> \in Allowed
    BY <2>1, <2>2, AcrossFacts
  <2> QED
    BY <1>3, <2>3
<1>5. i \in Nat /\ k \in Nat
  OBVIOUS
<1> QED
  BY <1>4, <1>5

\* What messages spread is what each of them spreads.
LEMMA SpreadAlong ==
  ASSUME NEW M \in Seq(MessageSeqs)
  PROVE  Members(Along(M, SpreadOf)) = UNION {Members(SpreadOf[M[i]]) : i \in DOMAIN M}
<1>1. Members(Along(M, SpreadOf)) = UNION {Members(SpreadOf[m]) : m \in Members(M)}
  BY SpreadOfFacts, AlongFacts
<1>2. Members(M) = {M[i] : i \in DOMAIN M}
  BY DEF Members
<1> QED
  BY <1>1, <1>2

\* Items of instructions and of messages, each apart.
LEMMA ApartArrives ==
  ASSUME Told, NEW M, NEW I, NEW D, Carries(M, I, D, TheItems), NEW kinds,
         NEW w, NEW s, NEW ws \in Seq(ItemSeqs), w.system = s, w.messages = ws,
         s \in Seq(TheItems), Members(s) = Members(I), Paired(s, Allowed),
         Paired(Along(ws, ItemsOf), Allowed), Members(Along(ws, ItemsOf)) = Remaining(M, kinds),
         \A x \in TheItems : x.id \in w.dropped <=> x \in Members(Along(M, SpreadOf)) /\ x.kind \in Contents \ kinds
  PROVE  Delivers(w, M, I)
<1>1. Members(Along(M, SpreadOf)) \cap Members(I) = {} /\ \A x \in Members(I) : x.by = "system"
  BY CarriedFacts
<1>2. Remaining(M, kinds) \subseteq Members(Along(M, SpreadOf))
  BY DEF Remaining
<1> DEFINE given == w.dropped
<1>3. \A x \in TheItems : x.id \in given <=> x \in Members(Along(M, SpreadOf)) /\ x.kind \in Contents \ kinds
  OBVIOUS
<1> HIDE DEF given
<1>4. \A x \in TheItems :
           x \in Members(I) \cup Remaining(M, kinds)
             <=> x \in Members(Along(M, SpreadOf)) \cup Members(I) /\ x.id \notin given
  BY <1>3, KeptArrives
<1>5. \A x \in TheItems : x \in Members(s) \cup Members(Along(ws, ItemsOf)) <=>
           x \in Members(Along(M, SpreadOf)) \cup Members(I) /\ x.id \notin w.dropped
  BY <1>4 DEF given
<1>6. Members(s) \cap Members(Along(ws, ItemsOf)) = {} /\ \A x \in Members(s) : x.by = "system"
  BY <1>1, <1>2
<1> QED
  BY <1>5, <1>6, ArrivedFacts

\* The body of a Responses request.
LEMMA ResponsesBody ==
  ASSUME Told, NEW M, NEW I, NEW D, Carries(M, I, D, TheItems), NEW w, w.system = Select(I, {"text"}),
         w.messages = FlattenSeq([i \in DOMAIN M |-> ResponsesItems(M[i])]),
         \A x \in TheItems :
           x.id \in w.dropped <=> x \in Members(Along(M, SpreadOf)) /\ x.kind \in Contents \ ResponsesKinds
  PROVE  Delivers(w, M, I)
<1> DEFINE e == [i \in DOMAIN M |-> ResponsesItems(M[i])]
           K == [i \in DOMAIN M |-> ResponsesKinds]
           ws == FlattenSeq(e)
           s == Select(I, {"text"})
<1>1. /\ M \in Seq(MessageSeqs) /\ Paired(Along(M, SpreadOf), Allowed)
      /\ \A i \in DOMAIN M : M[i] \in MessageSeqs /\ Proper(M[i]) /\ Paired(Spread(M[i]), Allowed)
      /\ I \in Seq(TheItems) /\ Paired(I, Allowed) /\ \A x \in Members(I) : x.by = "system"
  BY CarriedFacts
<1>2. \A i \in DOMAIN M : Wired(e[i], M[i], K[i])
  BY <1>1, ResponsesWires
<1>3. e = [i \in DOMAIN M |-> e[i]] /\ \A i \in DOMAIN M : K[i] = ResponsesKinds
  OBVIOUS
<1>4. w.messages = ws
  OBVIOUS
<1> HIDE DEF e, K
<1>5. /\ ws \in Seq(ItemSeqs) /\ Paired(Along(ws, ItemsOf), Allowed)
      /\ Members(Along(ws, ItemsOf)) = Remains(M, K)
  BY <1>1, <1>2, <1>3, AllWired
<1> HIDE DEF ws
<1>6. Remains(M, K) = Remaining(M, ResponsesKinds)
  BY <1>1, <1>3, AllKept
<1>7. s \in Seq(TheItems) /\ Members(s) = Members(I) /\ Paired(s, Allowed)
  BY <1>1, SystemText
<1>8. w.system = s
  OBVIOUS
<1> HIDE DEF s
<1>9. Members(Along(ws, ItemsOf)) = Remaining(M, ResponsesKinds)
  BY <1>5, <1>6
<1> QED
  BY <1>4, <1>5, <1>7, <1>8, <1>9, ApartArrives

\* The content of the messages of a role.
ContentsOf(M, role) == FlattenSeq([i \in DOMAIN M |-> IF M[i].role = role THEN M[i].content ELSE <<>>])

\* The content of the messages of a role is what each of them has.
LEMMA RoleContents ==
  ASSUME NEW M, NEW I, NEW D, Carries(M, I, D, TheItems), NEW role
  PROVE  /\ ContentsOf(M, role) \in Seq(TheItems) /\ Paired(ContentsOf(M, role), Allowed)
         /\ \A x : x \in Members(ContentsOf(M, role)) <=>
                     \E i \in DOMAIN M : M[i].role = role /\ x \in Members(M[i].content)
<1> DEFINE none == <<>>
           t == [i \in DOMAIN M |-> IF M[i].role = role THEN M[i].content ELSE none]
<1>1. /\ M \in Seq(MessageSeqs) /\ Paired(Along(M, SpreadOf), Allowed)
      /\ \A i \in DOMAIN M : M[i] \in MessageSeqs /\ Proper(M[i]) /\ Paired(Spread(M[i]), Allowed)
  BY CarriedFacts
<1>2. none \in Seq(TheItems) /\ Members(none) = {} /\ Paired(none, Allowed)
  BY NothingFacts
<1>0. ContentsOf(M, role) = FlattenSeq(t)
  BY DEF ContentsOf
<1> HIDE DEF none
<1>3. t = [i \in DOMAIN M |-> t[i]] /\ DOMAIN t = DOMAIN M
  OBVIOUS
<1>4. \A i \in DOMAIN M : t[i] = IF M[i].role = role THEN M[i].content ELSE none
  OBVIOUS
<1> HIDE DEF t
<1>5. ASSUME NEW i \in DOMAIN M
      PROVE  t[i] \in Seq(TheItems) /\ Paired(t[i], Allowed) /\ Members(t[i]) \subseteq Members(SpreadOf[M[i]])
  <2> DEFINE m == M[i]
  <2>1. m \in MessageSeqs /\ Paired(Spread(m), Allowed)
    BY <1>1
  <2> HIDE DEF m
  <2>2. m.content \in Seq(TheItems) /\ Paired(m.content, Allowed) /\ Members(m.content) \subseteq Members(SpreadOf[m])
    BY <2>1, SpreadFacts DEF MessageSeqs
  <2> QED
    BY <1>2, <1>4, <2>2 DEF m
<1>6. /\ FlattenSeq(t) \in Seq(TheItems) /\ Paired(FlattenSeq(t), Allowed)
      /\ Members(FlattenSeq(t)) = UNION {Members(t[i]) : i \in DOMAIN M}
  BY <1>1, <1>3, <1>5, PartsFacts
<1>7. ASSUME NEW x
      PROVE  x \in UNION {Members(t[i]) : i \in DOMAIN M} <=>
                \E i \in DOMAIN M : M[i].role = role /\ x \in Members(M[i].content)
  BY <1>2, <1>4
<1> QED
  BY <1>0, <1>6, <1>7

\* What the Converse request does with an item of a message.
LEMMA ConverseFate ==
  ASSUME Told, NEW M, NEW I, NEW D, Carries(M, I, D, TheItems), NEW x \in TheItems,
         NEW i \in DOMAIN M, x \in Members(Spread(M[i])),
         NEW dropped,
         x.id \in dropped <=>
           \/ x \in Members(ContentsOf(M, "user")) /\ x.kind \in Contents \ {"text"}
           \/ x \in Members(ContentsOf(M, "assistant")) /\ x.kind \in Contents \ {"text", "reasoning"}
  PROVE  /\ x \in Members(ContentsOf(M, "system"))
              \/ x.kind \in ConverseKinds(M[i].role) \cup {"call", "result"}
            <=> x.id \notin dropped
         /\ ~(/\ x \in Members(ContentsOf(M, "system"))
              /\ x.kind \in ConverseKinds(M[i].role) \cup {"call", "result"})
<1> DEFINE m == M[i]
           role == m.role
<1>1. /\ M \in Seq(MessageSeqs) /\ Paired(Along(M, SpreadOf), Allowed)
      /\ \A k \in DOMAIN M : M[k] \in MessageSeqs /\ Proper(M[k]) /\ Paired(Spread(M[k]), Allowed)
  BY CarriedFacts
<1>2. \A k \in DOMAIN M : Members(M[k].content) \subseteq Members(SpreadOf[M[k]])
  <2> TAKE k \in DOMAIN M
  <2> DEFINE a == M[k]
  <2>1. a \in MessageSeqs
    BY <1>1
  <2> HIDE DEF a
  <2>2. Members(a.content) \subseteq Members(SpreadOf[a])
    BY <2>1, SpreadFacts
  <2> QED
    BY <2>2 DEF a
<1>3. x \in Members(SpreadOf[M[i]])
  <2>1. m \in MessageSeqs /\ x \in Members(Spread(m))
    BY <1>1
  <2> HIDE DEF m
  <2>2. SpreadOf[m] = Spread(m)
    BY <2>1, SpreadFacts
  <2> QED
    BY <2>1, <2>2 DEF m
<1>4. \A k \in DOMAIN M : x \in Members(M[k].content) => k = i
  BY <1>1, <1>2, <1>3, OnePlace
<1>5. \A r : x \in Members(ContentsOf(M, r)) <=> role = r /\ x \in Members(m.content)
  BY <1>4, RoleContents
<1>6. m \in MessageSeqs /\ Proper(m) /\ x \in Members(Spread(m))
  BY <1>1
<1> HIDE DEF m
<1>7. x \in Members(m.content) \cup Members(m.calls) \cup Members(m.results)
  BY <1>6, SpreadFacts
<1>8. role \in Roles
  BY <1>6 DEF MessageSeqs
<1>9. x \in Members(m.content) <=> x.kind \in Contents
  BY <1>6, <1>7 DEF Proper, Contents
<1>10. x.kind \in Kinds
  BY ItemFacts DEF Things
<1>11. role = "tool" => x \notin Members(m.content)
  <2> DEFINE none == <<>>
  <2>1. role = "tool" => m.content = none
    BY <1>6 DEF Proper
  <2>2. Members(none) = {}
    BY NothingFacts
  <2> HIDE DEF none
  <2> QED
    BY <2>1, <2>2
<1>12. role = "system" /\ x \in Members(m.content) => x.kind = "text"
  <2>1. role = "system" /\ x \in Members(m.content) => x.by = "system"
    BY <1>6 DEF Proper
  <2> QED
    BY <2>1, ItemFacts DEF Sensible
<1> HIDE DEF role
<1>13. /\ (role = "system" /\ x \in Members(m.content)) \/ x.kind \in ConverseKinds(role) \cup {"call", "result"}
            <=> ~(\/ (role = "user" /\ x \in Members(m.content)) /\ x.kind \in Contents \ {"text"}
                  \/ (role = "assistant" /\ x \in Members(m.content)) /\ x.kind \in Contents \ {"text", "reasoning"})
       /\ ~((role = "system" /\ x \in Members(m.content)) /\ x.kind \in ConverseKinds(role) \cup {"call", "result"})
  <2>1. CASE role = "system"
    BY <2>1, <1>8, <1>9, <1>10, <1>12 DEF ConverseKinds, Kinds, Contents
  <2>2. CASE role = "user"
    BY <2>2, <1>8, <1>9, <1>10 DEF ConverseKinds, Kinds, Contents
  <2>3. CASE role = "assistant"
    BY <2>3, <1>8, <1>9, <1>10 DEF ConverseKinds, Kinds, Contents
  <2>4. CASE role = "tool"
    BY <2>4, <1>8, <1>9, <1>10, <1>11 DEF ConverseKinds, Kinds, Contents
  <2> QED
    BY <1>8, <2>1, <2>2, <2>3, <2>4 DEF Roles
<1>14. M[i].role = role
  BY DEF role, m
<1> QED
  BY <1>5, <1>13, <1>14

\* What Converse has apart, and what it drops.
ConverseSystem(M, I) == Select(I, {"text"}) \o Select(ContentsOf(M, "system"), {"text"})
ConverseDrops(M, x) ==
  \/ x \in Members(ContentsOf(M, "user")) /\ x.kind \in Contents \ {"text"}
  \/ x \in Members(ContentsOf(M, "assistant")) /\ x.kind \in Contents \ {"text", "reasoning"}

\* The system part of a Converse request.
LEMMA ConverseSystemFacts ==
  ASSUME Told, NEW M, NEW I, NEW D, Carries(M, I, D, TheItems)
  PROVE  LET sys == ContentsOf(M, "system")
             s == ConverseSystem(M, I) IN
         /\ sys \in Seq(TheItems) /\ Paired(sys, Allowed) /\ \A x \in Members(sys) : x.by = "system"
         /\ Members(sys) \subseteq Members(Along(M, SpreadOf))
         /\ s \in Seq(TheItems) /\ Paired(s, Allowed) /\ Members(s) = Members(I) \cup Members(sys)
         /\ \A x \in Members(s) : x.by = "system"
<1> DEFINE sys == ContentsOf(M, "system")
           A == Along(M, SpreadOf)
           a == Select(I, {"text"})
           b == Select(sys, {"text"})
<1>1. /\ M \in Seq(MessageSeqs)
      /\ \A i \in DOMAIN M : M[i] \in MessageSeqs /\ Proper(M[i])
      /\ I \in Seq(TheItems) /\ Paired(I, Allowed)
      /\ \A x \in Members(I) : x.by = "system"
      /\ Members(A) \cap Members(I) = {}
  BY CarriedFacts
<1>2. /\ sys \in Seq(TheItems) /\ Paired(sys, Allowed)
      /\ \A x : x \in Members(sys) <=>
                     \E i \in DOMAIN M : M[i].role = "system" /\ x \in Members(M[i].content)
  BY RoleContents
<1> HIDE DEF sys
<1>3. \A x \in Members(sys) : x.by = "system"
  BY <1>1, <1>2 DEF Proper
<1>4. Members(A) = UNION {Members(SpreadOf[M[i]]) : i \in DOMAIN M}
  BY <1>1, SpreadAlong
<1>5. \A i \in DOMAIN M : Members(M[i].content) \subseteq Members(SpreadOf[M[i]])
  <2> TAKE i \in DOMAIN M
  <2> DEFINE m == M[i]
  <2>1. m \in MessageSeqs
    BY <1>1
  <2> HIDE DEF m
  <2>2. Members(m.content) \subseteq Members(SpreadOf[m])
    BY <2>1, SpreadFacts
  <2> QED
    BY <2>2 DEF m
<1>6. Members(sys) \subseteq Members(A)
  BY <1>2, <1>4, <1>5
<1>7. a \in Seq(TheItems) /\ Members(a) = Members(I) /\ Paired(a, Allowed)
  BY <1>1, SystemText
<1>8. b \in Seq(TheItems) /\ Members(b) = Members(sys) /\ Paired(b, Allowed)
  BY <1>2, <1>3, SystemText
<1>0. ConverseSystem(M, I) = a \o b
  BY DEF ConverseSystem, sys
<1> HIDE DEF a, b
<1>9. a \o b \in Seq(TheItems) /\ Members(a \o b) = Members(a) \cup Members(b) /\ Paired(a \o b, Allowed)
  BY <1>1, <1>6, <1>7, <1>8, SystemFirst
<1> QED
  BY <1>0, <1>1, <1>2, <1>3, <1>6, <1>7, <1>8, <1>9 DEF sys

\* The body of a Converse request.
LEMMA ConverseBody ==
  ASSUME Told, NEW M, NEW I, NEW D, Carries(M, I, D, TheItems), NEW w, w.system = ConverseSystem(M, I),
         w.messages = FlattenSeq([i \in DOMAIN M |-> ConverseMessages(M[i])]),
         \A x \in TheItems : x.id \in w.dropped <=> ConverseDrops(M, x)
  PROVE  Delivers(w, M, I)
<1> DEFINE e == [i \in DOMAIN M |-> ConverseMessages(M[i])]
           K == [i \in DOMAIN M |-> ConverseKinds(M[i].role)]
           ws == FlattenSeq(e)
           s == ConverseSystem(M, I)
           sys == ContentsOf(M, "system")
           given == w.dropped
           A == Along(M, SpreadOf)
<1>1. /\ M \in Seq(MessageSeqs) /\ Paired(A, Allowed) /\ Members(A) \subseteq TheItems
      /\ \A i \in DOMAIN M : M[i] \in MessageSeqs /\ Proper(M[i]) /\ Paired(Spread(M[i]), Allowed)
      /\ I \in Seq(TheItems) /\ Paired(I, Allowed) /\ \A x \in Members(I) : x.by = "system"
      /\ Members(A) \cap Members(I) = {} /\ Members(I) \subseteq TheItems
  BY CarriedFacts
<1>2. \A i \in DOMAIN M : Wired(e[i], M[i], K[i])
  BY <1>1, ConverseWires
<1>3. e = [i \in DOMAIN M |-> e[i]] /\ \A i \in DOMAIN M : K[i] = ConverseKinds(M[i].role)
  OBVIOUS
<1>4. w.messages = ws /\ w.system = s
  OBVIOUS
<1> HIDE DEF e, K
<1>5. /\ ws \in Seq(ItemSeqs) /\ Paired(Along(ws, ItemsOf), Allowed)
      /\ Members(Along(ws, ItemsOf)) = Remains(M, K)
  BY <1>1, <1>2, <1>3, AllWired
<1> HIDE DEF ws
<1>6. /\ Members(sys) \subseteq Members(A)
      /\ s \in Seq(TheItems) /\ Paired(s, Allowed) /\ Members(s) = Members(I) \cup Members(sys)
      /\ \A x \in Members(s) : x.by = "system"
  BY ConverseSystemFacts
<1>7. \A i \in DOMAIN M : SpreadOf[M[i]] = Spread(M[i])
  BY <1>1, SpreadFacts
<1>8. Members(A) = UNION {Members(Spread(M[i])) : i \in DOMAIN M}
  BY <1>1, <1>7, SpreadAlong
<1>9. \A x : x \in Remains(M, K) <=>
         \E i \in DOMAIN M : x \in Members(Spread(M[i])) /\ x.kind \in ConverseKinds(M[i].role) \cup {"call", "result"}
  BY <1>3, <1>7 DEF Remains
<1>10. \A i, k \in DOMAIN M : \A x : x \in Members(Spread(M[i])) /\ x \in Members(Spread(M[k])) => i = k
  BY <1>1, <1>7, OnePlace
<1>11. \A x \in TheItems : x.id \in given <=>
           \/ x \in Members(ContentsOf(M, "user")) /\ x.kind \in Contents \ {"text"}
           \/ x \in Members(ContentsOf(M, "assistant")) /\ x.kind \in Contents \ {"text", "reasoning"}
  BY DEF ConverseDrops
<1> HIDE DEF given
<1>12. ASSUME NEW x \in TheItems, NEW i \in DOMAIN M, x \in Members(Spread(M[i]))
       PROVE  /\ x \in Members(sys) \/ x \in Remains(M, K) <=> x.id \notin given
              /\ ~(x \in Members(sys) /\ x \in Remains(M, K))
  <2>1. x.id \in given <=>
           \/ x \in Members(ContentsOf(M, "user")) /\ x.kind \in Contents \ {"text"}
           \/ x \in Members(ContentsOf(M, "assistant")) /\ x.kind \in Contents \ {"text", "reasoning"}
    BY <1>11
  <2>2. /\ x \in Members(sys) \/ x.kind \in ConverseKinds(M[i].role) \cup {"call", "result"}
            <=> x.id \notin given
        /\ ~(x \in Members(sys) /\ x.kind \in ConverseKinds(M[i].role) \cup {"call", "result"})
    BY <1>12, <2>1, ConverseFate
  <2>3. x \in Remains(M, K) <=> x.kind \in ConverseKinds(M[i].role) \cup {"call", "result"}
    BY <1>9, <1>10, <1>12
  <2> QED
    BY <2>2, <2>3
<1>13. \A x \in Members(I) : x.id \notin given
  <2> TAKE x \in Members(I)
  <2>1. x \in TheItems /\ x \notin Members(A)
    BY <1>1
  <2>2. \A r : Members(ContentsOf(M, r)) \subseteq Members(A)
    <3> TAKE r
    <3>1. \A y : y \in Members(ContentsOf(M, r)) => \E i \in DOMAIN M : y \in Members(M[i].content)
      BY RoleContents
    <3>2. \A i \in DOMAIN M : Members(M[i].content) \subseteq Members(Spread(M[i]))
      <4> TAKE i \in DOMAIN M
      <4> DEFINE m == M[i]
      <4>1. m \in MessageSeqs
        BY <1>1
      <4> HIDE DEF m
      <4>2. Members(m.content) \subseteq Members(Spread(m))
        BY <4>1, SpreadFacts
      <4> QED
        BY <4>2 DEF m
    <3> QED
      BY <1>8, <3>1, <3>2
  <2> QED
    BY <1>11, <2>1, <2>2
<1>14. Remains(M, K) \subseteq Members(A)
  BY <1>8, <1>9
<1> HIDE DEF s, sys, A
<1>15. \A x \in TheItems : x \in Members(s) \cup Remains(M, K) <=> x \in Members(A) \cup Members(I) /\ x.id \notin given
  <2> TAKE x \in TheItems
  <2>1. CASE x \in Members(A)
    BY <2>1, <1>1, <1>6, <1>8, <1>12
  <2>2. CASE x \in Members(I)
    BY <2>2, <1>1, <1>6, <1>13
  <2>3. CASE x \notin Members(A) /\ x \notin Members(I)
    BY <2>3, <1>6, <1>14
  <2> QED
    BY <2>1, <2>2, <2>3
<1>16. Members(s) \cap Members(Along(ws, ItemsOf)) = {}
  BY <1>1, <1>5, <1>6, <1>8, <1>12, <1>14
<1>17. \A x \in TheItems : x \in Members(s) \cup Members(Along(ws, ItemsOf)) <=>
           x \in Members(Along(M, SpreadOf)) \cup Members(I) /\ x.id \notin w.dropped
  BY <1>5, <1>15 DEF given, A
<1> QED
  BY <1>4, <1>5, <1>6, <1>16, <1>17, ArrivedFacts

\* Some of the messages.
LEMMA PickedMessages ==
  ASSUME Told, NEW M, NEW I, NEW D, Carries(M, I, D, TheItems), NEW places
  PROVE  LET P == Picked(M, places) IN
         /\ P \in Seq(MessageSeqs) /\ \A m \in Members(P) : Proper(m)
         /\ \A i \in DOMAIN P : P[i] \in MessageSeqs /\ Proper(P[i]) /\ Paired(Spread(P[i]), Allowed)
         /\ Paired(Along(P, SpreadOf), Allowed)
         /\ Members(P) = {M[i] : i \in DOMAIN M \cap places}
         /\ Members(Along(P, SpreadOf)) = UNION {Members(SpreadOf[M[i]]) : i \in DOMAIN M \cap places}
<1> DEFINE P == Picked(M, places)
           R == Across(MessageSeqs, SpreadOf, Allowed)
<1>1. /\ M \in Seq(MessageSeqs) /\ \A m \in Members(M) : Proper(m)
      /\ \A i \in DOMAIN M : M[i] \in MessageSeqs /\ Proper(M[i]) /\ Paired(Spread(M[i]), Allowed)
      /\ Paired(Along(M, SpreadOf), Allowed)
  BY CarriedFacts
<1>2. Gives(SpreadOf, MessageSeqs, TheItems)
  BY SpreadOfFacts
<1>3. (\A m \in Members(M) : Paired(SpreadOf[m], Allowed)) /\ Paired(M, R)
  BY <1>1, <1>2, AlongFacts
<1> HIDE DEF R
<1>4. /\ P \in Seq(MessageSeqs) /\ Members(P) = {M[i] : i \in DOMAIN M \cap places}
      /\ Paired(P, R) <=> \A i, k \in DOMAIN M \cap places : i < k => <<M[i], M[k]>> \in R
  BY <1>1, PickedFacts
<1>5. Paired(P, R)
  BY <1>3, <1>4 DEF Paired
<1> HIDE DEF P
<1>6. Members(P) \subseteq Members(M)
  BY <1>4 DEF Members
<1>7. /\ Members(Along(P, SpreadOf)) = UNION {Members(SpreadOf[m]) : m \in Members(P)}
      /\ (\A m \in Members(P) : Paired(SpreadOf[m], Allowed)) /\ Paired(P, R) => Paired(Along(P, SpreadOf), Allowed)
  <2>1. P \in Seq(MessageSeqs)
    BY <1>4
  <2>2. Members(Along(P, SpreadOf)) = UNION {Members(SpreadOf[m]) : m \in Members(P)}
    BY ONLY <1>2, <2>1, AlongFacts
  <2>3. Paired(Along(P, SpreadOf), Allowed) <=> (\A m \in Members(P) : Paired(SpreadOf[m], Allowed)) /\ Paired(P, R)
    BY ONLY <1>2, <2>1, AlongFacts DEF R
  <2> QED
    BY <2>2, <2>3
<1>8. Paired(Along(P, SpreadOf), Allowed)
  BY <1>3, <1>5, <1>6, <1>7
<1>9. UNION {Members(SpreadOf[m]) : m \in Members(P)} = UNION {Members(SpreadOf[M[i]]) : i \in DOMAIN M \cap places}
  BY <1>4
<1>10. \A i \in DOMAIN P : P[i] \in Members(P) /\ P[i] \in MessageSeqs
  BY <1>4, MemberFacts
<1>11. \A m \in MessageSeqs : SpreadOf[m] = Spread(m)
  BY SpreadFacts
<1>12. \A i \in DOMAIN P : P[i] \in MessageSeqs /\ Proper(P[i]) /\ Paired(Spread(P[i]), Allowed)
  BY <1>1, <1>3, <1>6, <1>10, <1>11
<1> QED
  BY <1>1, <1>4, <1>6, <1>7, <1>8, <1>9, <1>12 DEF P

\* All that a message of the system has is its content, and text.
LEMMA SystemMessage ==
  ASSUME Told, NEW m \in MessageSeqs, Proper(m), Paired(Spread(m), Allowed), m.role = "system"
  PROVE  LET t == Select(m.content, {"text", "reasoning"}) IN
         /\ t \in Seq(TheItems) /\ Paired(t, Allowed) /\ Members(t) = Members(SpreadOf[m])
         /\ \A x \in Members(t) : x.by = "system"
<1> DEFINE t == Select(m.content, {"text", "reasoning"})
           content == m.content
           none == <<>>
<1>1. m.calls = none /\ m.results = none
  BY DEF Proper
<1>2. Members(none) = {}
  BY NothingFacts
<1>3. content \in Seq(TheItems) /\ Paired(content, Allowed) /\ \A x \in Members(content) : x.by = "system"
  <2>1. content \in Seq(TheItems)
    BY DEF MessageSeqs
  <2>2. Paired(content, Allowed)
    BY SpreadFacts
  <2>3. \A x \in Members(content) : x.by = "system"
    BY DEF Proper
  <2> QED
    BY <2>1, <2>2, <2>3
<1>4. Members(SpreadOf[m]) = Members(content)
  <2>1. SpreadOf[m] = Spread(m) /\ Members(Spread(m)) = Members(m.content) \cup Members(m.calls) \cup Members(m.results)
    BY SpreadFacts
  <2> QED
    BY <1>1, <1>2, <2>1
<1>5. t = Select(content, {"text", "reasoning"})
  OBVIOUS
<1> HIDE DEF content, t
<1>6. t \in Seq(TheItems) /\ Members(t) = Members(content) /\ Paired(t, Allowed)
  BY <1>3, <1>5, SystemText
<1> QED
  BY <1>3, <1>4, <1>6 DEF t

\* The messages of the system, all others, and what the Messages API has apart.
SystemsOf(M) == Picked(M, {i \in DOMAIN M : M[i].role = "system"})
OthersOf(M) == Picked(M, DOMAIN M \ {i \in DOMAIN M : M[i].role = "system"})
SystemContent(M) ==
  FlattenSeq([i \in DOMAIN SystemsOf(M) |-> Select(SystemsOf(M)[i].content, {"text", "reasoning"})])

\* The messages of the system, and the others, are all of them.
LEMMA TwoParts ==
  ASSUME Told, NEW M, NEW I, NEW D, Carries(M, I, D, TheItems)
  PROVE  LET a == Members(Along(SystemsOf(M), SpreadOf))
             b == Members(Along(OthersOf(M), SpreadOf)) IN
         a \cap b = {} /\ a \cup b = Members(Along(M, SpreadOf))
<1> DEFINE P == {i \in DOMAIN M : M[i].role = "system"}
           Q == DOMAIN M \ P
           a == Members(Along(SystemsOf(M), SpreadOf))
           b == Members(Along(OthersOf(M), SpreadOf))
<1>1. a = UNION {Members(SpreadOf[M[i]]) : i \in DOMAIN M \cap P}
  BY PickedMessages DEF SystemsOf
<1>2. b = UNION {Members(SpreadOf[M[i]]) : i \in DOMAIN M \cap Q}
  BY PickedMessages DEF OthersOf
<1>3. M \in Seq(MessageSeqs) /\ Paired(Along(M, SpreadOf), Allowed)
  BY CarriedFacts
<1>4. Members(Along(M, SpreadOf)) = UNION {Members(SpreadOf[M[i]]) : i \in DOMAIN M}
  BY <1>3, SpreadAlong
<1>5. \A i, k \in DOMAIN M : \A x : x \in Members(SpreadOf[M[i]]) /\ x \in Members(SpreadOf[M[k]]) => i = k
  BY <1>3, OnePlace
<1>6. DOMAIN M \cap P = P /\ DOMAIN M \cap Q = Q /\ P \cap Q = {} /\ P \cup Q = DOMAIN M
  OBVIOUS
<1>7. P \subseteq DOMAIN M /\ Q \subseteq DOMAIN M
  OBVIOUS
<1> HIDE DEF P, Q, a, b
<1>8. a \cap b = {}
  BY <1>1, <1>2, <1>5, <1>6, <1>7
<1>9. a \cup b = Members(Along(M, SpreadOf))
  BY <1>1, <1>2, <1>4, <1>6
<1> QED
  BY <1>8, <1>9 DEF a, b

\* What the Messages API has apart is what the messages of the system have.
LEMMA SystemContentFacts ==
  ASSUME Told, NEW M, NEW I, NEW D, Carries(M, I, D, TheItems)
  PROVE  LET s == SystemContent(M) IN
         /\ s \in Seq(TheItems) /\ Paired(s, Allowed)
         /\ Members(s) = Members(Along(SystemsOf(M), SpreadOf))
         /\ \A x \in Members(s) : x.by = "system"
<1> DEFINE P == SystemsOf(M)
           t == [i \in DOMAIN P |-> Select(P[i].content, {"text", "reasoning"})]
<1>1. /\ P \in Seq(MessageSeqs)
      /\ \A i \in DOMAIN P : P[i] \in MessageSeqs /\ Proper(P[i]) /\ Paired(Spread(P[i]), Allowed)
      /\ Paired(Along(P, SpreadOf), Allowed)
      /\ Members(P) = {M[i] : i \in DOMAIN M \cap {j \in DOMAIN M : M[j].role = "system"}}
  BY PickedMessages DEF SystemsOf
<1>2. SystemContent(M) = FlattenSeq(t)
  BY DEF SystemContent
<1> HIDE DEF P
<1>3. \A i \in DOMAIN P : P[i].role = "system"
  <2>1. \A i \in DOMAIN P : P[i] \in Members(P)
    BY DEF Members
  <2> QED
    BY <1>1, <2>1
<1>4. \A i \in DOMAIN P : /\ t[i] \in Seq(TheItems) /\ Paired(t[i], Allowed)
                          /\ Members(t[i]) = Members(SpreadOf[P[i]])
                          /\ \A x \in Members(t[i]) : x.by = "system"
  <2> TAKE i \in DOMAIN P
  <2> DEFINE m == P[i]
  <2>1. m \in MessageSeqs /\ Proper(m) /\ Paired(Spread(m), Allowed) /\ m.role = "system"
    BY <1>1, <1>3
  <2>2. t[i] = Select(m.content, {"text", "reasoning"})
    OBVIOUS
  <2>3. SpreadOf[P[i]] = SpreadOf[m]
    OBVIOUS
  <2> HIDE DEF m, t
  <2> QED
    BY <2>1, <2>2, <2>3, SystemMessage
<1>5. t = [i \in DOMAIN P |-> t[i]]
  OBVIOUS
<1> HIDE DEF t
<1>6. /\ FlattenSeq(t) \in Seq(TheItems) /\ Paired(FlattenSeq(t), Allowed)
      /\ Members(FlattenSeq(t)) = UNION {Members(t[i]) : i \in DOMAIN P}
  BY <1>1, <1>4, <1>5, PartsFacts
<1>7. Members(Along(P, SpreadOf)) = UNION {Members(SpreadOf[P[i]]) : i \in DOMAIN P}
  BY <1>1, SpreadAlong
<1>8. UNION {Members(t[i]) : i \in DOMAIN P} = UNION {Members(SpreadOf[P[i]]) : i \in DOMAIN P}
  BY <1>4
<1>9. \A x \in UNION {Members(t[i]) : i \in DOMAIN P} : x.by = "system"
  BY <1>4
<1> QED
  BY <1>2, <1>6, <1>7, <1>8, <1>9 DEF P

\* The other messages, each in one of the request.
AnthropicWires(M) == [i \in DOMAIN OthersOf(M) |-> AnthropicMessage(OthersOf(M)[i])]

\* The other messages are sent with the kinds that the API takes.
LEMMA OtherWires ==
  ASSUME Told, NEW M, NEW I, NEW D, Carries(M, I, D, TheItems)
  PROVE  LET ws == AnthropicWires(M) IN
         /\ ws \in Seq(ItemSeqs) /\ Paired(Along(ws, ItemsOf), Allowed)
         /\ Members(Along(ws, ItemsOf)) = Remaining(OthersOf(M), MessagesKinds)
<1> DEFINE P == OthersOf(M)
           ws == [i \in DOMAIN P |-> AnthropicMessage(P[i])]
           K == [i \in DOMAIN P |-> MessagesKinds]
<1>1. /\ P \in Seq(MessageSeqs)
      /\ \A i \in DOMAIN P : P[i] \in MessageSeqs /\ Proper(P[i]) /\ Paired(Spread(P[i]), Allowed)
      /\ Paired(Along(P, SpreadOf), Allowed)
  BY PickedMessages DEF OthersOf
<1>2. AnthropicWires(M) = ws
  BY DEF AnthropicWires
<1> HIDE DEF P
<1>3. \A i \in DOMAIN P : /\ ws[i] \in ItemSeqs /\ Paired(ItemsOf[ws[i]], Allowed)
                          /\ Members(ItemsOf[ws[i]]) = {x \in Members(SpreadOf[P[i]]) : x.kind \in MessagesKinds \cup {"call", "result"}}
  <2> TAKE i \in DOMAIN P
  <2> DEFINE m == P[i]
             u == AnthropicMessage(m)
  <2>1. m \in MessageSeqs /\ Proper(m) /\ Paired(Spread(m), Allowed)
    BY <1>1
  <2>2. ws[i] = u
    OBVIOUS
  <2>3. SpreadOf[P[i]] = SpreadOf[m]
    OBVIOUS
  <2> HIDE DEF m, ws
  <2>4. /\ u \in ItemSeqs /\ Paired(ItemsOf[u], Allowed)
        /\ Members(ItemsOf[u]) = {x \in Members(Spread(m)) : x.kind \in MessagesKinds \cup {"call", "result"}}
    BY <2>1, AnthropicWire
  <2>5. SpreadOf[m] = Spread(m)
    BY <2>1, SpreadFacts
  <2> QED
    BY <2>2, <2>3, <2>4, <2>5
<1>4. ws = [i \in DOMAIN P |-> ws[i]] /\ \A i \in DOMAIN P : K[i] = MessagesKinds
  OBVIOUS
<1> HIDE DEF ws, K
<1>5. \A i \in DOMAIN P : Members(ItemsOf[ws[i]]) \subseteq Members(SpreadOf[P[i]])
  BY <1>3
<1>6. /\ ws \in Seq(ItemSeqs) /\ Paired(Along(ws, ItemsOf), Allowed)
      /\ Members(Along(ws, ItemsOf)) = UNION {Members(ItemsOf[ws[i]]) : i \in DOMAIN P}
  BY <1>1, <1>3, <1>4, <1>5, WireEach
<1>7. UNION {Members(ItemsOf[ws[i]]) : i \in DOMAIN P} = Remains(P, K)
  BY <1>3, <1>4 DEF Remains
<1>8. Remains(P, K) = Remaining(P, MessagesKinds)
  BY <1>1, <1>4, AllKept
<1> QED
  BY <1>2, <1>6, <1>7, <1>8 DEF P

\* The body of a Messages request.
LEMMA AnthropicBody ==
  ASSUME Told, NEW M, NEW I, NEW D, Carries(M, I, D, TheItems), NEW w,
         w.system = Select(I, {"text", "reasoning"}) \o SystemContent(M), w.messages = AnthropicWires(M),
         \A x \in TheItems :
           x.id \in w.dropped <=> x \in Members(Along(OthersOf(M), SpreadOf)) /\ x.kind \in Contents \ MessagesKinds
  PROVE  Delivers(w, M, I)
<1> DEFINE A == Members(Along(M, SpreadOf))
           SA == Members(Along(SystemsOf(M), SpreadOf))
           OA == Members(Along(OthersOf(M), SpreadOf))
           given == w.dropped
           a == Select(I, {"text", "reasoning"})
           b == SystemContent(M)
           ws == AnthropicWires(M)
           s == a \o b
<1>1. /\ I \in Seq(TheItems) /\ Paired(I, Allowed) /\ \A x \in Members(I) : x.by = "system"
      /\ A \cap Members(I) = {} /\ Members(I) \subseteq TheItems /\ A \subseteq TheItems
  BY CarriedFacts
<1>2. a \in Seq(TheItems) /\ Members(a) = Members(I) /\ Paired(a, Allowed)
  BY <1>1, SystemText
<1>3. b \in Seq(TheItems) /\ Paired(b, Allowed) /\ Members(b) = SA /\ \A x \in Members(b) : x.by = "system"
  BY SystemContentFacts
<1>4. SA \cap OA = {} /\ SA \cup OA = A
  BY TwoParts
<1>5. ws \in Seq(ItemSeqs) /\ Paired(Along(ws, ItemsOf), Allowed) /\ Members(Along(ws, ItemsOf)) = Remaining(OthersOf(M), MessagesKinds)
  BY OtherWires
<1>6. \A x : x \in Remaining(OthersOf(M), MessagesKinds) <=> x \in OA /\ x.kind \in MessagesKinds \cup {"call", "result"}
  BY DEF Remaining
<1>7. \A x \in TheItems : x.kind \in MessagesKinds \cup {"call", "result"} <=> x.kind \notin Contents \ MessagesKinds
  BY KindFacts
<1>8. \A x \in TheItems : x.id \in given <=> x \in OA /\ x.kind \in Contents \ MessagesKinds
  OBVIOUS
<1>9. w.system = s /\ w.messages = ws
  OBVIOUS
<1> HIDE DEF a, b, ws, given, SA, OA, A
<1>10. s \in Seq(TheItems) /\ Members(s) = Members(a) \cup Members(b) /\ Paired(s, Allowed)
  BY <1>1, <1>2, <1>3, <1>4, SystemFirst
<1> HIDE DEF s
<1>11. Members(s) = Members(I) \cup SA /\ \A x \in Members(s) : x.by = "system"
  BY <1>1, <1>2, <1>3, <1>10
<1>12. \A x \in TheItems : x \in Members(Along(ws, ItemsOf)) <=> x \in OA /\ x.id \notin given
  BY <1>5, <1>6, <1>7, <1>8
<1>13. Members(Along(ws, ItemsOf)) \subseteq OA
  BY <1>5, <1>6
<1>14. Members(s) \cap Members(Along(ws, ItemsOf)) = {}
  BY <1>1, <1>4, <1>11, <1>13
<1>15. \A x \in TheItems : x \in Members(s) \cup Members(Along(ws, ItemsOf)) <=> x \in A \cup Members(I) /\ x.id \notin given
  BY <1>1, <1>4, <1>8, <1>11, <1>12
<1>16. \A x \in TheItems : x \in Members(s) \cup Members(Along(ws, ItemsOf)) <=>
           x \in Members(Along(M, SpreadOf)) \cup Members(I) /\ x.id \notin w.dropped
  BY <1>15 DEF A, given
<1> QED
  BY <1>5, <1>9, <1>10, <1>11, <1>14, <1>16, ArrivedFacts

-----------------------------------------------------------------------------
(* The encoders of the providers, from the request to its body.               *)

\* What is delivered stays so while the options change.
LEMMA DeliversSame ==
  ASSUME NEW r, NEW s, Steady(r, s), NEW M, NEW I, Delivers(r, M, I)
  PROVE  Delivers(s, M, I)
BY DEF Steady, SameBody, Delivers, ItemsFrom

\* An encoder begins with no items.
LEMMA EncodedBody ==
  ASSUME NEW q
  PROVE  Shaped(Encoded(q)) /\ Encoded(q).system = <<>> /\ Encoded(q).dropped = {}
BY DEF Encoded, Shaped

\* Messages are put in, and nothing else of the items changes.
LEMMA MessagesBody ==
  ASSUME NEW r, Shaped(r), NEW messages
  PROVE  LET s == [r EXCEPT !.messages = messages] IN
         s.system = r.system /\ s.messages = messages /\ s.dropped = r.dropped
BY DEF Shaped

\* A request of Chat Completions delivers the conversation.
LEMMA ChatDelivers ==
  ASSUME Told, NEW p, NEW q, NEW D, Carries(q.messages, q.instructions, D, TheItems)
  PROVE  Delivers(EncodeChat(p, q), q.messages, q.instructions)
<1> DEFINE foreign == {"top_k", "seed", "effort", "cache"}
                        \cup (ExtensionFields \ IF p = "openrouter_chat" THEN {"openrouter"} ELSE {})
           parts == Ignore(Encoded(q), foreign)
           formed == Warn(parts, {f \in {"format"} : OptionIs(parts, f, {"unknown"})})
           r == WarnUnusable(formed)
           called == IF \/ OptionIs(r, "tool_choice", {"unknown"})
                        \/ OptionIs(r, "tool_choice", {"none"}) /\ "tools" \notin DOMAIN r.opts
                       THEN Ignore(r, {"tool_choice"}) ELSE r
           parallel == IF "parallel" \in DOMAIN called.opts THEN called ELSE Put(called, "parallel", "no")
           M == q.messages
           I == q.instructions
           contents == FlattenSeq([i \in DOMAIN M |-> M[i].content])
           taken == Take(parallel, contents, ChatKinds)
           twice == Take(taken, I, {"text"})
           inOrder == ChatSystem(I) \o FlattenSeq([i \in DOMAIN M |-> ChatMessages(M[i])])
           w == EncodeChat(p, q)
           first == Encoded(q)
           none == <<>>
<1>1. w = [twice EXCEPT !.messages = inOrder]
  BY DEF EncodeChat, ChatSystem
<1>2. Shaped(first) /\ first.system = none /\ first.dropped = {}
  BY EncodedBody
<1>3. parts = Ignore(first, foreign)
  OBVIOUS
<1> HIDE DEF foreign, first, parts, none
<1>4. Steady(first, parts)
  BY <1>2, <1>3, SteadyOptions
<1>5. Steady(parts, formed)
  BY <1>4, SteadyOptions DEF Steady
<1> HIDE DEF formed
<1>6. Steady(formed, r)
  BY <1>5, SteadyOptions DEF Steady
<1> HIDE DEF r
<1>7. Steady(r, called)
  BY <1>6, SteadyOptions DEF Steady
<1> HIDE DEF called
<1>8. Steady(called, parallel)
  BY <1>7, SteadyOptions DEF Steady
<1> HIDE DEF parallel
<1>9. Shaped(parallel) /\ parallel.system = none /\ parallel.dropped = {}
  BY <1>2, <1>4, <1>5, <1>6, <1>7, <1>8 DEF Steady, SameBody
<1>0. Carries(M, I, D, TheItems)
  OBVIOUS
<1>20. EncodeChat(p, q) = w
  OBVIOUS
<1> HIDE DEF M, I, w
<1>10. /\ \A m \in Members(M) : Proper(m)
       /\ M \in Seq(MessageSeqs) /\ I \in Seq(TheItems) /\ Paired(I, Allowed)
       /\ \A x \in Members(I) : x.by = "system"
  BY <1>0, CarriedFacts
<1>11. \A x \in TheItems : x.id \in Ids(Select(contents, Contents \ ChatKinds)) <=>
                               x \in Members(Along(M, SpreadOf)) /\ x.kind \in Contents \ ChatKinds
  BY <1>10, ContentDropped
<1> HIDE DEF contents, inOrder
<1>12. Shaped(taken) /\ taken.system = none /\ taken.dropped = Ids(Select(contents, Contents \ ChatKinds))
  BY <1>9, TakenFacts
<1> HIDE DEF taken
<1>13. Ids(Select(I, Contents \ {"text"})) = {}
  BY <1>10, SystemText
<1>14. Shaped(twice) /\ twice.system = none /\ twice.dropped = taken.dropped
  BY <1>12, <1>13, TakenFacts
<1> HIDE DEF twice
<1>15. w.system = none /\ w.messages = inOrder /\ w.dropped = Ids(Select(contents, Contents \ ChatKinds))
  BY <1>1, <1>12, <1>14, MessagesBody
<1>16. w.messages = ChatSystem(I) \o FlattenSeq([i \in DOMAIN M |-> ChatMessages(M[i])])
  BY <1>15 DEF inOrder
<1>17. \A x \in TheItems :
           x.id \in w.dropped <=> x \in Members(Along(M, SpreadOf)) /\ x.kind \in Contents \ ChatKinds
  BY <1>11, <1>15
<1>18. w.system = <<>>
  BY <1>15 DEF none
<1>19. Delivers(w, M, I)
  BY ONLY Told, <1>0, <1>16, <1>17, <1>18, ChatBody
<1> QED
  BY <1>19, <1>20 DEF M, I

\* A request of Responses delivers the conversation, unless it is refused.
LEMMA ResponsesDelivers ==
  ASSUME Told, NEW p, NEW q, NEW D, Carries(q.messages, q.instructions, D, TheItems),
         EncodeResponses(p, q).refused # "error"
  PROVE  Delivers(EncodeResponses(p, q), q.messages, q.instructions)
<1> DEFINE own == CASE p = "openrouter_responses" -> {"openrouter"} [] p = "codex" -> {"codex"} [] OTHER -> {}
           foreign == {"stop", "seed"} \cup (ExtensionFields \ ({"previous", "store", "prompt_cache_key"} \cup own))
           parts == Ignore(Encoded(q), foreign)
           formed == Warn(parts, {f \in {"format"} : OptionIs(parts, f, {"unknown"})})
           r == WarnUnusable(formed)
           quiet == {f \in {"cache"} : OptionIs(r, f, {"on", "off"})}
                      \cup {f \in {"tool_choice"} : OptionIs(r, f, {"unknown"})}
           known == Ignore(r, quiet)
           parallel == IF "parallel" \in DOMAIN known.opts THEN known ELSE Put(known, "parallel", "no")
           M == q.messages
           I == q.instructions
           contents == FlattenSeq([i \in DOMAIN M |-> M[i].content])
           taken == Take(parallel, contents, ResponsesKinds)
           twice == Take(taken, I, {"text"})
           apart == Select(I, {"text"})
           inOrder == FlattenSeq([i \in DOMAIN M |-> ResponsesItems(M[i])])
           body1 == WithBody(twice, apart, inOrder)
           w == EncodeResponses(p, q)
           first == Encoded(q)
           none == <<>>
<1>1. w = MutateBody(p, body1)
  <2>1. w = IF p = "codex" /\ OptionIs(Encoded(q), "codex", {"malformed"})
              THEN Refused(q, "error") ELSE MutateBody(p, body1)
    BY DEF EncodeResponses, WithBody
  <2>2. Refused(q, "error").refused = "error"
    BY RefusedFacts
  <2>3. w.refused # "error"
    OBVIOUS
  <2> HIDE DEF w, body1
  <2> QED
    BY <2>1, <2>2, <2>3
<1>2. Shaped(first) /\ first.system = none /\ first.dropped = {}
  BY EncodedBody
<1>3. parts = Ignore(first, foreign)
  OBVIOUS
<1> HIDE DEF foreign, first, parts, none
<1>4. Steady(first, parts)
  BY <1>2, <1>3, SteadyOptions
<1>5. Steady(parts, formed)
  BY <1>4, SteadyOptions DEF Steady
<1> HIDE DEF formed
<1>6. Steady(formed, r)
  BY <1>5, SteadyOptions DEF Steady
<1> HIDE DEF r, quiet
<1>7. Steady(r, known)
  BY <1>6, SteadyOptions DEF Steady
<1> HIDE DEF known
<1>8. Steady(known, parallel)
  BY <1>7, SteadyOptions DEF Steady
<1> HIDE DEF parallel
<1>9. Shaped(parallel) /\ parallel.system = none /\ parallel.dropped = {}
  BY <1>2, <1>4, <1>5, <1>6, <1>7, <1>8 DEF Steady, SameBody
<1>0. Carries(M, I, D, TheItems)
  OBVIOUS
<1>20. EncodeResponses(p, q) = w
  OBVIOUS
<1> HIDE DEF M, I, w
<1>10. /\ \A m \in Members(M) : Proper(m)
       /\ M \in Seq(MessageSeqs) /\ I \in Seq(TheItems) /\ Paired(I, Allowed)
       /\ \A x \in Members(I) : x.by = "system"
  BY <1>0, CarriedFacts
<1>11. \A x \in TheItems : x.id \in Ids(Select(contents, Contents \ ResponsesKinds)) <=>
                               x \in Members(Along(M, SpreadOf)) /\ x.kind \in Contents \ ResponsesKinds
  BY <1>10, ContentDropped
<1> HIDE DEF contents, inOrder, apart
<1>12. Shaped(taken) /\ taken.dropped = Ids(Select(contents, Contents \ ResponsesKinds))
  BY <1>9, TakenFacts
<1> HIDE DEF taken
<1>13. Ids(Select(I, Contents \ {"text"})) = {}
  BY <1>10, SystemText
<1>14. Shaped(twice) /\ twice.dropped = taken.dropped
  BY <1>12, <1>13, TakenFacts
<1> HIDE DEF twice
<1>15. /\ Shaped(body1) /\ body1.system = apart /\ body1.messages = inOrder
       /\ body1.dropped = Ids(Select(contents, Contents \ ResponsesKinds))
  BY <1>12, <1>14, SentBody
<1> HIDE DEF body1
<1>16. body1.messages = FlattenSeq([i \in DOMAIN M |-> ResponsesItems(M[i])]) /\ body1.system = Select(I, {"text"})
  BY <1>15 DEF inOrder, apart
<1>17. \A x \in TheItems :
           x.id \in body1.dropped <=> x \in Members(Along(M, SpreadOf)) /\ x.kind \in Contents \ ResponsesKinds
  BY <1>11, <1>15
<1>18. Delivers(body1, M, I)
  BY ONLY Told, <1>0, <1>16, <1>17, ResponsesBody
<1>19. Delivers(w, M, I)
  BY <1>1, <1>15, <1>18, SteadyMutation, DeliversSame
<1> QED
  BY <1>19, <1>20 DEF M, I

\* A request of the Messages API delivers the conversation, unless it is refused.
LEMMA MessagesDelivers ==
  ASSUME Told, NEW p, NEW q, NEW meta, NEW D, Carries(q.messages, q.instructions, D, TheItems),
         EncodeMessages(p, q, meta).refused \notin {"unsupported", "error"}
  PROVE  Delivers(EncodeMessages(p, q, meta), q.messages, q.instructions)
<1> DEFINE own == {"anthropic"} \cup IF p = "openrouter_messages" THEN {"openrouter"} ELSE {}
           foreign == {"user", "parallel"} \cup (ExtensionFields \ own)
           known == Ignore(Encoded(q), foreign)
           parts == WarnUnusable(known)
           off == {f \in {"cache"} : OptionIs(parts, f, {"off"})}
           cached == Ignore(parts, off)
           seeded == Warn(cached, {"seed"})
           a == ApplyReasoning(seeded, q.budget, meta)
           r == ApplyResponseFormat(a, meta)
           M == q.messages
           I == q.instructions
           others == OthersOf(M)
           contents == FlattenSeq([i \in DOMAIN others |-> others[i].content])
           taken == Take(r, contents, MessagesKinds)
           apart == Select(I, {"text", "reasoning"}) \o SystemContent(M)
           inOrder == AnthropicWires(M)
           sentAs == WithBody(taken, apart, inOrder)
           w == EncodeMessages(p, q, meta)
           first == Encoded(q)
           none == <<>>
<1>1. w = IF q.max = 0 THEN Refused(q, "unsupported")
          ELSE IF OptionIs(r, "tool_choice", {"unknown"}) /\ sentAs.refused = "" THEN Refused(q, "error")
          ELSE IF p = "bedrock_messages" THEN BedrockThinking(sentAs) ELSE sentAs
  BY DEF EncodeMessages, WithBody, OthersOf, SystemContent, SystemsOf, AnthropicWires
<1>2. Shaped(first) /\ first.system = none /\ first.dropped = {}
  BY EncodedBody
<1>3. known = Ignore(first, foreign)
  OBVIOUS
<1>21. w = BedrockThinking(sentAs) \/ w = sentAs
  <2>1. Refused(q, "unsupported").refused = "unsupported" /\ Refused(q, "error").refused = "error"
    BY RefusedFacts
  <2>2. w.refused \notin {"unsupported", "error"}
    OBVIOUS
  <2> HIDE DEF w, sentAs, r
  <2> QED
    BY <1>1, <2>1, <2>2
<1> HIDE DEF foreign, first, known, none, w
<1>4. Steady(first, known)
  BY <1>2, <1>3, SteadyOptions
<1>5. Steady(known, parts)
  BY <1>4, SteadyOptions DEF Steady
<1> HIDE DEF parts, off
<1>6. Steady(parts, cached)
  BY <1>5, SteadyOptions DEF Steady
<1> HIDE DEF cached
<1>7. Steady(cached, seeded)
  BY <1>6, SteadyOptions DEF Steady
<1> HIDE DEF seeded
<1>8. Steady(seeded, a)
  BY <1>7, SteadyReasoning DEF Steady
<1> HIDE DEF a
<1>9. Steady(a, r)
  BY <1>8, SteadyReasoning DEF Steady
<1> HIDE DEF r
<1>10. Shaped(r) /\ r.dropped = {}
  BY <1>2, <1>4, <1>5, <1>6, <1>7, <1>8, <1>9 DEF Steady, SameBody
<1>0. Carries(M, I, D, TheItems)
  OBVIOUS
<1>20. EncodeMessages(p, q, meta) = w
  BY DEF w
<1> HIDE DEF M, I
<1>11. others \in Seq(MessageSeqs) /\ \A m \in Members(others) : Proper(m)
  BY <1>0, PickedMessages DEF OthersOf
<1> HIDE DEF others
<1>12. \A x \in TheItems : x.id \in Ids(Select(contents, Contents \ MessagesKinds)) <=>
                               x \in Members(Along(others, SpreadOf)) /\ x.kind \in Contents \ MessagesKinds
  BY <1>11, ContentDropped
<1> HIDE DEF contents, inOrder, apart
<1>13. Shaped(taken) /\ taken.dropped = Ids(Select(contents, Contents \ MessagesKinds))
  BY <1>10, TakenFacts
<1> HIDE DEF taken
<1>14. /\ Shaped(sentAs) /\ sentAs.system = apart /\ sentAs.messages = inOrder
       /\ sentAs.dropped = Ids(Select(contents, Contents \ MessagesKinds))
  BY <1>13, SentBody
<1> HIDE DEF sentAs
<1>15. sentAs.messages = AnthropicWires(M) /\ sentAs.system = Select(I, {"text", "reasoning"}) \o SystemContent(M)
  BY <1>14 DEF inOrder, apart
<1>16. \A x \in TheItems :
           x.id \in sentAs.dropped <=> x \in Members(Along(OthersOf(M), SpreadOf)) /\ x.kind \in Contents \ MessagesKinds
  BY <1>12, <1>14 DEF others
<1>17. Delivers(sentAs, M, I)
  BY ONLY Told, <1>0, <1>15, <1>16, AnthropicBody
<1>18. Delivers(w, M, I)
  BY <1>14, <1>17, <1>21, SteadyReasoning, DeliversSame
<1> QED
  BY <1>18, <1>20 DEF M, I

\* A request of Converse delivers the conversation.
LEMMA ConverseDelivers ==
  ASSUME Told, NEW p, NEW q, NEW D, Carries(q.messages, q.instructions, D, TheItems)
  PROVE  Delivers(EncodeConverse(p, q), q.messages, q.instructions)
<1> DEFINE foreign == {"format", "seed", "user", "parallel", "cache"}
           bare == Ignore(Encoded(q), ExtensionFields)
           usable == WarnUnusable(bare)
           parts == Ignore(usable, foreign)
           reasons == q.budget > 0 \/ "effort" \in DOMAIN q.opts
           tooled == ConverseTools(parts, reasons)
           r == ConverseReasoning(p, tooled, q.budget)
           M == q.messages
           I == q.instructions
           user == ContentsOf(M, "user")
           assistant == ContentsOf(M, "assistant")
           system == ContentsOf(M, "system")
           apart == ConverseSystem(M, I)
           inOrder == FlattenSeq([i \in DOMAIN M |-> ConverseMessages(M[i])])
           taken1 == Take(r, user, {"text"})
           taken2 == Take(taken1, assistant, {"text", "reasoning"})
           taken3 == Take(taken2, system, {"text"})
           taken4 == Take(taken3, I, {"text"})
           sentAs == WithBody(taken4, apart, inOrder)
           w == EncodeConverse(p, q)
           first == Encoded(q)
<1>1. w = sentAs
  BY DEF EncodeConverse, WithBody, ContentsOf, ConverseSystem
<1>2. Shaped(first) /\ first.dropped = {}
  BY EncodedBody
<1>3. bare = Ignore(first, ExtensionFields)
  OBVIOUS
<1> HIDE DEF foreign, first, bare, w
<1>4. Steady(first, bare)
  BY <1>2, <1>3, SteadyOptions
<1>5. Steady(bare, usable)
  BY <1>4, SteadyOptions DEF Steady
<1> HIDE DEF usable
<1>6. Steady(usable, parts)
  BY <1>5, SteadyOptions DEF Steady
<1> HIDE DEF parts, reasons
<1>7. Steady(parts, tooled)
  BY <1>6, SteadyConverse DEF Steady
<1> HIDE DEF tooled
<1>8. Steady(tooled, r)
  BY <1>7, SteadyConverse DEF Steady
<1> HIDE DEF r
<1>9. Shaped(r) /\ r.dropped = {}
  BY <1>2, <1>4, <1>5, <1>6, <1>7, <1>8 DEF Steady, SameBody
<1>0. Carries(M, I, D, TheItems)
  OBVIOUS
<1>20. EncodeConverse(p, q) = w
  BY DEF w
<1> HIDE DEF M, I
<1>10. Ids(Select(I, Contents \ {"text"})) = {}
  <2>1. I \in Seq(TheItems) /\ Paired(I, Allowed) /\ \A x \in Members(I) : x.by = "system"
    BY <1>0, CarriedFacts
  <2> QED
    BY <2>1, SystemText
<1>11. Ids(Select(system, Contents \ {"text"})) = {}
  <2>1. system \in Seq(TheItems) /\ Paired(system, Allowed) /\ \A x \in Members(system) : x.by = "system"
    BY <1>0, ConverseSystemFacts
  <2> HIDE DEF system
  <2> QED
    BY <2>1, SystemText
<1>12. user \in Seq(TheItems) /\ assistant \in Seq(TheItems)
  BY <1>0, RoleContents
<1> DEFINE ofUser == Ids(Select(user, Contents \ {"text"}))
           ofAssistant == Ids(Select(assistant, Contents \ {"text", "reasoning"}))
<1>13. \A x \in TheItems : /\ x.id \in ofUser <=> x \in Members(user) /\ x.kind \in Contents \ {"text"}
                           /\ x.id \in ofAssistant <=> x \in Members(assistant) /\ x.kind \in Contents \ {"text", "reasoning"}
  <2> HIDE DEF user, assistant
  <2>1. \A x \in TheItems : x.id \in ofUser <=> x \in Members(user) /\ x.kind \in Contents \ {"text"}
    BY <1>12, DroppedFacts
  <2>2. \A x \in TheItems : x.id \in ofAssistant <=> x \in Members(assistant) /\ x.kind \in Contents \ {"text", "reasoning"}
    BY <1>12, DroppedFacts
  <2> QED
    BY <2>1, <2>2
<1> HIDE DEF user, assistant, system, apart, inOrder
<1>14. Shaped(taken1) /\ taken1.dropped = ofUser
  <2> DEFINE kinds == {"text"}
  <2>0. taken1 = Take(r, user, kinds) /\ ofUser = Ids(Select(user, Contents \ kinds))
    OBVIOUS
  <2> HIDE DEF kinds, taken1, ofUser
  <2>1. LET s == Take(r, user, kinds) IN Shaped(s) /\ s.dropped = r.dropped \cup Ids(Select(user, Contents \ kinds))
    BY ONLY <1>9, TakenFacts
  <2> QED
    BY <1>9, <2>0, <2>1
<1> HIDE DEF taken1
<1>15. Shaped(taken2) /\ taken2.dropped = ofUser \cup ofAssistant
  BY <1>14, TakenFacts
<1> HIDE DEF taken2, ofUser, ofAssistant
<1>16. Shaped(taken3) /\ taken3.dropped = taken2.dropped
  BY <1>11, <1>15, TakenFacts
<1> HIDE DEF taken3
<1>17. Shaped(taken4) /\ taken4.dropped = taken3.dropped
  BY <1>10, <1>16, TakenFacts
<1> HIDE DEF taken4
<1>18. sentAs.system = apart /\ sentAs.messages = inOrder /\ sentAs.dropped = ofUser \cup ofAssistant
  BY <1>15, <1>16, <1>17, SentBody
<1> HIDE DEF sentAs
<1>19. /\ sentAs.messages = FlattenSeq([i \in DOMAIN M |-> ConverseMessages(M[i])])
       /\ sentAs.system = ConverseSystem(M, I)
  BY <1>18 DEF inOrder, apart
<1>21. \A x \in TheItems : x.id \in sentAs.dropped <=> ConverseDrops(M, x)
  BY <1>13, <1>18 DEF ConverseDrops, user, assistant
<1>22. Delivers(sentAs, M, I)
  BY ONLY Told, <1>0, <1>19, <1>21, ConverseBody
<1> QED
  BY <1>1, <1>20, <1>22 DEF M, I

\* Whichever the provider, its request delivers the conversation, unless it is refused.
LEMMA ProviderDelivers ==
  ASSUME Told, NEW p \in Providers, NEW q, NEW meta, NEW D, Carries(q.messages, q.instructions, D, TheItems),
         Encode(p, q, meta).refused \notin {"unsupported", "error"}
  PROVE  Delivers(Encode(p, q, meta), q.messages, q.instructions)
<1>1. Family(p) \in {"chat", "responses", "messages", "converse"}
  BY DEF Providers, Family
<1>2. CASE Family(p) = "chat"
  BY <1>2, ChatDelivers DEF Encode
<1>3. CASE Family(p) = "responses"
  BY <1>3, ResponsesDelivers DEF Encode
<1>4. CASE Family(p) = "messages"
  BY <1>4, MessagesDelivers DEF Encode
<1>5. CASE Family(p) = "converse"
  BY <1>5, ConverseDelivers DEF Encode
<1> QED
  BY <1>1, <1>2, <1>3, <1>4, <1>5

-----------------------------------------------------------------------------
(* What a client says and keeps, turn by turn.                                *)

\* Told, of a history that grows.
ToldIn(h) == h \in Seq(Things) /\ \A i \in DOMAIN h : h[i].id = i /\ Sensible(h[i])

\* A conversation goes on with items that are numbered on.
LEMMA ToldOn ==
  ASSUME NEW h, ToldIn(h), NEW k \in Nat, NEW t, t = [i \in 1..k |-> t[i]],
         \A i \in 1..k : t[i] \in Things /\ t[i].id = Len(h) + i /\ Sensible(t[i])
  PROVE  ToldIn(h \o t) /\ Len(h \o t) = Len(h) + k
<1> DEFINE n == Len(h)
           u == h \o t
<1>1. h \in Seq(Things) /\ n \in Nat /\ DOMAIN h = 1..n
  BY DEF ToldIn
<1>2. t \in Seq(Things) /\ Len(t) = k /\ DOMAIN t = 1..k
  <2>1. t \in [1..k -> Things]
    OBVIOUS
  <2> QED
    BY <2>1
<1>3. u \in Seq(Things) /\ Len(u) = n + k /\ DOMAIN u = 1..(n + k)
  BY <1>1, <1>2
<1>4. (\A i \in 1..n : u[i] = h[i]) /\ \A i \in 1..k : u[n + i] = t[i]
  BY <1>1, <1>2
<1> HIDE DEF u, n
<1>5. ASSUME NEW i \in 1..(n + k)
      PROVE  u[i].id = i /\ Sensible(u[i])
  <2>1. CASE i \in 1..n
    BY <1>1, <1>4, <2>1 DEF ToldIn
  <2>2. CASE i \notin 1..n
    <3>1. i - n \in 1..k /\ n + (i - n) = i
      BY <1>1, <2>2
    <3>2. u[n + (i - n)] = t[i - n] /\ t[i - n].id = n + (i - n) /\ Sensible(t[i - n])
      BY <1>4, <3>1 DEF n
    <3> QED
      BY <3>1, <3>2
  <2> QED
    BY <2>1, <2>2
<1> QED
  BY <1>3, <1>5 DEF ToldIn, u, n

\* What an item is, by its fields.
LEMMA ItemIs ==
  ASSUME NEW n \in Nat, NEW by \in {"system", "user", "assistant", "tool"}, NEW kind \in Kinds, NEW call \in Nat
  PROVE  LET x == Item(n, by, kind, call) IN x \in Things /\ x.id = n /\ x.by = by /\ x.kind = kind
BY DEF Item, Things

\* The calls without a result.
LEMMA UnansweredFacts ==
  ASSUME Told
  PROVE  /\ Unanswered \in Seq(Things) /\ Len(Unanswered) \in Nat /\ DOMAIN Unanswered = 1..Len(Unanswered)
         /\ \A i \in DOMAIN Unanswered : Unanswered[i].id \in Nat
<1>1. Unanswered \in Seq(Things)
  BY PickedFacts DEF Unanswered, Told
<1>2. \A x \in Things : x.id \in Nat
  BY DEF Things
<1> HIDE DEF Things
<1> QED
  BY <1>1, <1>2, MemberFacts

\* What a client says in a turn is told.
LEMMA ToldSaid ==
  ASSUME Told, client \in Clients, NEW said \in client.says, Say(said)
  PROVE  ToldIn(history')
<1> DEFINE calls == Unanswered
           n == Len(history)
           k == Len(calls)
           m == n + k
           results == [i \in DOMAIN calls |-> Item(n + i, "tool", "result", calls[i].id)]
           words == [i \in DOMAIN said |-> Item(m + i, said[i].by, said[i].kind, 0)]
           SaidItems == [by : {"user", "system"}, kind : Contents]
           first == history \o results
<1>1. history' = first \o words
  BY DEF Say
<1>2. ToldIn(history) /\ n \in Nat
  BY DEF Told, ToldIn
<1>3. k \in Nat /\ DOMAIN calls = 1..k /\ \A i \in 1..k : calls[i].id \in Nat
  BY UnansweredFacts
<1>4. said \in Seq(SaidItems) /\ \A i \in DOMAIN said : said[i].by = "system" => said[i].kind = "text"
  BY ClientsSay
<1> HIDE DEF calls, k, n
<1>5. \A i \in 1..k : results[i] \in Things /\ results[i].id = n + i /\ Sensible(results[i])
  <2> TAKE i \in 1..k
  <2> DEFINE number == n + i
             call == calls[i].id
             by == "tool"
             kind == "result"
             x == Item(number, by, kind, call)
  <2>1. number \in Nat /\ call \in Nat
    BY <1>2, <1>3
  <2>2. by \in {"system", "user", "assistant", "tool"} /\ kind \in Kinds
    BY DEF Kinds
  <2>3. results[i] = x
    BY <1>3
  <2> HIDE DEF number, call, by, kind
  <2>4. x \in Things /\ x.id = number /\ x.by = by /\ x.kind = kind
    BY <2>1, <2>2, ItemIs
  <2> HIDE DEF x
  <2>5. Sensible(x)
    BY <2>4 DEF Sensible, by, kind
  <2> QED
    BY <2>3, <2>4, <2>5 DEF number
<1>6. results = [i \in 1..k |-> results[i]]
  BY <1>3
<1> HIDE DEF results
<1>7. ToldIn(first) /\ Len(first) = Len(history) + k
  BY <1>2, <1>3, <1>5, <1>6, ToldOn DEF n
<1>8. Len(first) = m /\ m \in Nat
  BY <1>2, <1>3, <1>7 DEF n
<1> HIDE DEF first, m, SaidItems
<1>9. Len(said) \in Nat /\ DOMAIN said = 1..Len(said) /\ \A i \in DOMAIN said : said[i] \in SaidItems
  BY <1>4
<1>10. \A i \in 1..Len(said) : words[i] \in Things /\ words[i].id = m + i /\ Sensible(words[i])
  <2> TAKE i \in 1..Len(said)
  <2> DEFINE number == m + i
             by == said[i].by
             kind == said[i].kind
             call == 0
             x == Item(number, by, kind, call)
  <2>1. number \in Nat /\ call \in Nat
    BY <1>8, <1>9
  <2>2. by \in {"user", "system"} /\ kind \in Contents /\ (by = "system" => kind = "text")
    BY <1>4, <1>9 DEF SaidItems
  <2>3. words[i] = x
    BY <1>9
  <2> HIDE DEF number, by, kind, call
  <2>4. by \in {"system", "user", "assistant", "tool"} /\ kind \in Kinds
    BY <2>2 DEF Kinds
  <2>5. x \in Things /\ x.id = number /\ x.by = by /\ x.kind = kind
    BY <2>1, <2>4, ItemIs
  <2> HIDE DEF x
  <2>6. Sensible(x)
    BY <2>2, <2>5 DEF Sensible, Contents
  <2> QED
    BY <2>3, <2>5, <2>6 DEF number
<1>11. words = [i \in 1..Len(said) |-> words[i]]
  BY <1>9
<1> HIDE DEF words
<1>12. ToldIn(first \o words)
  BY <1>7, <1>8, <1>9, <1>10, <1>11, ToldOn
<1> QED
  BY <1>1, <1>12

\* What a client keeps of an answer is told.
LEMMA ToldAnswered ==
  ASSUME Told, NEW kinds \in Answers, Answer(kinds)
  PROVE  ToldIn(history')
<1> DEFINE shown == Picked(kinds, {i \in DOMAIN kinds : kinds[i] \in Shown(ep)})
           n == Len(history)
           kept == [i \in DOMAIN shown |-> Item(n + i, "assistant", shown[i], 0)]
           k == Len(shown)
           AnswerKinds == {"text", "reasoning", "call"}
<1>1. history' = history \o kept
  BY DEF Answer
<1>2. ToldIn(history) /\ n \in Nat
  BY DEF Told, ToldIn
<1>3. kinds \in Seq(AnswerKinds)
  BY ClientsSay
<1> HIDE DEF AnswerKinds
<1>4. shown \in Seq(AnswerKinds)
  BY <1>3, PickedFacts
<1> HIDE DEF shown, n
<1>5. k \in Nat /\ DOMAIN shown = 1..k /\ \A i \in 1..k : shown[i] \in AnswerKinds
  BY <1>4
<1>6. \A i \in 1..k : kept[i] \in Things /\ kept[i].id = n + i /\ Sensible(kept[i])
  <2> TAKE i \in 1..k
  <2> DEFINE number == n + i
             by == "assistant"
             kind == shown[i]
             call == 0
             x == Item(number, by, kind, call)
  <2>1. number \in Nat /\ call \in Nat
    BY <1>2, <1>5
  <2>2. by \in {"system", "user", "assistant", "tool"} /\ kind \in Kinds /\ kind \in AnswerKinds
    BY <1>5 DEF Kinds, Contents, AnswerKinds
  <2>3. kept[i] = x
    BY <1>5
  <2> HIDE DEF number, call, by, kind
  <2>4. x \in Things /\ x.id = number /\ x.by = by /\ x.kind = kind
    BY <2>1, <2>2, ItemIs
  <2> HIDE DEF x
  <2>5. Sensible(x)
    BY <2>2, <2>4 DEF Sensible, by, AnswerKinds
  <2> QED
    BY <2>3, <2>4, <2>5 DEF number
<1>7. kept = [i \in 1..k |-> kept[i]]
  BY <1>5
<1> HIDE DEF kept, k
<1>8. ToldIn(history \o kept)
  BY <1>2, <1>5, <1>6, <1>7, ToldOn DEF n
<1> QED
  BY <1>1, <1>8

-----------------------------------------------------------------------------
(* The inductive invariant of the conversation, and what follows from it.     *)

\* What is asked is written from what is told.
BodyWritten == phase \in {"asking", "decoded", "sent"} => body = Written(ep, client.ask, history)

\* The inductive invariant of the conversation.
Conversing == Routed /\ Told /\ BodyWritten

\* Nothing was said in the initial states.
LEMMA ConversationInit == Init => Conversing
<1> SUFFICES ASSUME Init PROVE Conversing
  OBVIOUS
<1>1. Routed
  BY RoutedInit
<1>2. history = <<>> /\ phase = "talk"
  BY DEF Init
<1>3. Told
  <2>1. DOMAIN history = {} /\ history \in Seq(Things)
    BY <1>2
  <2> QED
    BY <2>1 DEF Told
<1> QED
  BY <1>1, <1>2, <1>3 DEF Conversing, BodyWritten

\* What is told stays as it is while the conversation does.
LEMMA ConversationNext == Conversing /\ [Next]_vars => Conversing'
<1> SUFFICES ASSUME Conversing, [Next]_vars PROVE Conversing'
  OBVIOUS
<1>0. Routed' /\ client \in Clients
  BY RoutedNext DEF Conversing, Routed
<1>1. Told /\ BodyWritten
  BY DEF Conversing
<1>2. (Told' <=> ToldIn(history')) /\ ToldIn(history)
  BY <1>1 DEF Told, ToldIn
<1> USE DEF conversation, forwarded
<1>3. ASSUME NEW said \in client.says, Say(said) PROVE Conversing'
  <2>1. UNCHANGED client /\ body' = Written(ep, client.ask, history')
    BY <1>3 DEF Say
  <2>2. BodyWritten'
    BY <2>1 DEF BodyWritten, ep
  <2>3. ToldIn(history')
    BY <1>0, <1>1, <1>3, ToldSaid
  <2> QED
    BY <1>0, <1>2, <2>2, <2>3 DEF Conversing
<1>4. ASSUME UNCHANGED <<client, history, body>>, phase \in {"asking", "decoded", "sent"} \/ phase' \notin {"asking", "decoded", "sent"}
      PROVE  Conversing'
  <2>1. Told'
    BY <1>2, <1>4
  <2>2. BodyWritten'
    BY <1>1, <1>4 DEF BodyWritten, ep
  <2> QED
    BY <1>0, <2>1, <2>2 DEF Conversing
<1>5. CASE Decode
  BY <1>4, <1>5 DEF Decode
<1>6. CASE Attempt
  BY <1>4, <1>6 DEF Attempt
<1>7. CASE GiveUp
  BY <1>4, <1>7 DEF GiveUp
<1>8. CASE Fail
  BY <1>4, <1>8 DEF Fail
<1>9. ASSUME NEW kinds \in Answers, Answer(kinds) PROVE Conversing'
  <2>1. phase' = "talk"
    BY <1>9 DEF Answer
  <2>2. ToldIn(history')
    BY <1>1, <1>9, ToldAnswered
  <2> QED
    BY <1>0, <1>2, <2>1, <2>2 DEF Conversing, BodyWritten
<1>10. CASE UNCHANGED vars
  BY <1>4, <1>10 DEF vars
<1> QED
  BY <1>3, <1>5, <1>6, <1>7, <1>8, <1>9, <1>10 DEF Next

\* The conversation is told, and what is asked is written from it.
LEMMA ConversationAlways == Spec => []Conversing
BY ConversationInit, ConversationNext, PTL DEF Spec

\* What has arrived of a request that was sent.
LEMMA ArrivedSent ==
  ASSUME Conversing, phase = "sent"
  PROVE  /\ Arrived \in Seq(TheItems) /\ Paired(Arrived, Allowed)
         /\ \A x \in TheItems : x \in Members(Arrived) <=> x.id \notin GivenUp
<1> DEFINE ask == client.ask
           c == ep
           p == Provider
           meta == used \ NoMetadata
           M == req.messages
           I == req.instructions
           D == req.dropped
<1>1. /\ Told /\ body = Written(c, ask, history)
      /\ p \in Providers /\ sent = Encode(p, req, meta) /\ sent.refused \notin {"unsupported", "error"}
      /\ req = AsDecoded(c, body)
  BY SentFacts DEF Conversing, BodyWritten
<1>2. c \in Callers
  BY ClientFacts DEF Conversing, Routed, Callers
<1> HIDE DEF ask, c, p, meta
<1>3. LET q == AsDecoded(c, Written(c, ask, history)) IN Carries(q.messages, q.instructions, q.dropped, TheItems)
  BY <1>1, <1>2, ConversationDecoded
<1>4. Carries(M, I, D, TheItems)
  BY <1>1, <1>3
<1>5. Delivers(Encode(p, req, meta), M, I)
  BY <1>1, <1>4, ProviderDelivers
<1>6. Delivers(sent, M, I)
  BY <1>1, <1>5
<1>7. Arrived = ItemsFrom(sent)
  BY DEF Arrived, ItemsFrom
<1> HIDE DEF M, I, D
<1>8. /\ Arrived \in Seq(TheItems) /\ Paired(Arrived, Allowed)
      /\ \A x \in TheItems : x \in Members(Arrived) <=>
           x \in Members(Along(M, SpreadOf)) \cup Members(I) /\ x.id \notin sent.dropped
  BY <1>6, <1>7 DEF Delivers
<1>9. \A x \in TheItems : x \in Members(Along(M, SpreadOf)) \cup Members(I) <=> x.id \notin D
  BY <1>4 DEF Carries
<1> QED
  BY <1>8, <1>9 DEF GivenUp, D

\* Whatever a client said, saw or did in its conversation reaches the provider of a request
\* that was sent, once, or a warning says that it was dropped; and what is not the system's
\* keeps its order, but for content that a message has beside its calls and results
\* (decodeMessage of the endpoints' codecs, encodeMessage of the providers').
THEOREM ConversationSafe == Spec => []ConversationKept
<1>1. Conversing => ConversationKept
  <2> SUFFICES ASSUME Conversing, phase = "sent"
               PROVE  /\ \A i \in DOMAIN history :
                           Cardinality({j \in DOMAIN Arrived : Arrived[j].id = i}) = IF i \in GivenUp THEN 0 ELSE 1
                      /\ \A j, k \in DOMAIN Arrived :
                           j < k /\ Arrived[j].id > Arrived[k].id
                             => "system" \in {Arrived[j].by, Arrived[k].by} \/ MayPass(Arrived[j], Arrived[k])
    BY DEF ConversationKept
  <2>1. /\ Arrived \in Seq(TheItems) /\ Paired(Arrived, Allowed)
        /\ \A x \in TheItems : x \in Members(Arrived) <=> x.id \notin GivenUp
    BY ArrivedSent
  <2>2. Told
    BY DEF Conversing
  <2> DEFINE a == Arrived
  <2> HIDE DEF a
  <2>3. /\ a \in Seq(TheItems) /\ Paired(a, Allowed) /\ Arrived = a
        /\ \A x \in TheItems : x \in Members(a) <=> x.id \notin GivenUp
    BY <2>1 DEF a
  <2>4. DOMAIN a = 1..Len(a) /\ Len(a) \in Nat /\ \A j \in DOMAIN a : a[j] \in TheItems
    BY <2>3
  <2>5. \A j, k \in DOMAIN a : j < k => MayPrecede(a[j], a[k])
    BY <2>3, RelationFacts DEF Paired
  <2>6. ASSUME NEW i \in DOMAIN history
        PROVE  Cardinality({j \in DOMAIN a : a[j].id = i}) = IF i \in GivenUp THEN 0 ELSE 1
    <3> DEFINE x == history[i]
               at == {j \in DOMAIN a : a[j].id = i}
    <3>1. x \in TheItems /\ x.id = i
      BY <2>2, ItemFacts
    <3>2. \A j \in DOMAIN a : a[j].id = i <=> a[j] = x
      BY <2>2, <2>4, <3>1, OneOfANumber
    <3>3. x \in Members(a) <=> \E j \in at : TRUE
      BY <3>2 DEF Members
    <3>4. CASE i \in GivenUp
      <4>1. at = {}
        BY <2>3, <3>1, <3>3, <3>4
      <4> QED
        BY <3>4, <4>1, FS_EmptySet
    <3>5. CASE i \notin GivenUp
      <4>1. PICK j \in at : TRUE
        BY <2>3, <3>1, <3>3, <3>5
      <4>2. \A k \in at : k = j
        <5> TAKE k \in at
        <5>1. k \in Nat /\ j \in Nat /\ k \in DOMAIN a /\ j \in DOMAIN a /\ a[j].id = a[k].id
          BY <2>4, <4>1
        <5>2. ~(k < j) /\ ~(j < k)
          BY <2>5, <5>1 DEF MayPrecede
        <5> QED
          BY <5>1, <5>2
      <4>3. at = {j}
        BY <4>1, <4>2
      <4> QED
        BY <3>5, <4>3, FS_Singleton
    <3> QED
      BY <3>4, <3>5
  <2>7. \A j, k \in DOMAIN a :
           j < k /\ a[j].id > a[k].id => "system" \in {a[j].by, a[k].by} \/ MayPass(a[j], a[k])
    BY <2>5 DEF MayPrecede
  <2> QED
    BY <2>3, <2>6, <2>7
<1> QED
  BY <1>1, ConversationAlways, PTL
=============================================================================
