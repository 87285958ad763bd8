---------------------------- MODULE RecallProofs ----------------------------
(***************************************************************************)
(* For every number of threads, facts, contents and calls: the index, the  *)
(* archive's index and the cached embeddings follow the store, and a       *)
(* search answers what the store says of the facts nobody was writing.     *)
(***************************************************************************)
EXTENDS Recall, TLAPS

MemoShape(memo) ==
  /\ memo = [content |-> memo.content, on |-> memo.on,
             created |-> memo.created, over |-> memo.over]
  /\ memo.content \in Phrases
  /\ memo.on \subseteq EntityIds

CallShape(call) ==
  call = [op |-> call.op, at |-> call.at, fact |-> call.fact,
          touched |-> call.touched, rest |-> call.rest,
          freeze |-> call.freeze, term |-> call.term,
          options |-> call.options, slate |-> call.slate,
          found |-> call.found, near |-> call.near,
          steady |-> call.steady]

IndexShape(lexical) ==
  lexical = [dirty |-> lexical.dirty, texts |-> lexical.texts]

(* The text of a fact as the tiers have it.                                *)
TextOf(f) == IF live[f] = Nil THEN Nil ELSE Text(live[f])

FrozenTextOf(f) == IF frozen[f] = Nil THEN Nil ELSE FrozenText(frozen[f])

(* Facts have the fields of a fact, and whatever is known of one has an id *)
(* that was given out.                                                     *)
MemosSound ==
  /\ DOMAIN live = MemoIds /\ DOMAIN frozen = MemoIds
  /\ \A f \in MemoIds :
       /\ live[f] # Nil => MemoShape(live[f])
       /\ frozen[f] # Nil => MemoShape(frozen[f])
       /\ live[f] # Nil \/ embeds[f] # Nil => f \in used
  /\ labels \in [EntityIds -> Names \cup {Nil}]
  /\ scene \in Scenes

(* The facts whose text a call changed and has not marked the index for.   *)
Unmarked(call) ==
  IF call.at \in {"forget", "mark", "import"} THEN call.touched ELSE {}

(* Those whose embedding it has not dropped.                               *)
Unforgotten(call) == IF call.at = "forget" THEN call.touched ELSE {}

(* Those it archived and has not marked the archive's index for.           *)
Freezing(call) == IF call.op = "archive_facts" THEN call.touched ELSE {}

IndexSound ==
  ~index.dirty =>
    \A f \in MemoIds \ unindexed :
      \/ \E t \in Threads : f \in Unmarked(calls[t])
      \/ index.texts[f] = TextOf(f)

FrozenIndexSound ==
  ~frozenIndex.dirty =>
    \A f \in MemoIds \ stray :
      \/ \E t \in Threads : f \in Freezing(calls[t])
      \/ frozenIndex.texts[f] = FrozenTextOf(f)

EmbedsSound ==
  \A f \in MemoIds \ unembedded :
    embeds[f] # Nil =>
      \/ \E t \in Threads : f \in Unforgotten(calls[t])
      \/ embeds[f] = TextOf(f)
      \/ live[f] = Nil /\ frozen[f] # Nil

CallSound(call) ==
  /\ CallShape(call)
  /\ call.op = "archive_facts" => call.at \in {"mark", "mark_frozen"}
  /\ call.steady # {} =>
       call.at \in {"rank", "hydrate", "embed", "score", "cold", "answer"}
  /\ call.at = "cold" => "include_archive" \in call.options

(* What a search has in hand of a fact that nobody writes meanwhile.       *)
Hot(call, f) == Shown(live[f], call) /\ Holds(TextOf(f), call.term)

Cold(call, f) ==
  /\ "include_archive" \in call.options
  /\ Shown(frozen[f], call)
  /\ Holds(FrozenTextOf(f), call.term)

KeptOld(f) == f \in unembedded /\ embeds[f] # Nil

(* A semantic search that no such fact answers shows the rest of them.     *)
Alone(call, f) ==
  /\ "semantic" \in call.options
  /\ Shown(live[f], call)
  /\ \A g \in call.steady : ~Hot(call, g)

(* What the search has found so far.                                       *)
Gathers(call, f) ==
  /\ call.at = "hydrate" =>
       (f \in call.found <=> live[f] # Nil /\ Holds(TextOf(f), call.term))
  /\ call.at \in {"embed", "score"} => (f \in call.found <=> Hot(call, f))
  /\ call.at = "cold" =>
       /\ Hot(call, f) => f \in call.found
       /\ f \in call.found => Hot(call, f) \/ Alone(call, f)
  /\ call.at = "answer" /\ f \notin stray =>
       /\ Hot(call, f) \/ Cold(call, f) => f \in call.found
       /\ f \in call.found => Hot(call, f) \/ Cold(call, f) \/ Alone(call, f)

(* What it scores, and ranks first.                                        *)
Orders(call, f) ==
  /\ call.at \in {"rank", "hydrate"} => f \notin call.near
  /\ call.at \in {"embed", "score"} =>
       /\ "semantic" \in call.options
       /\ Hot(call, f) => f \in call.slate
       /\ call.found = {} \/ call.slate \subseteq call.found
  /\ call.at = "score" /\ f \in call.slate =>
       Shown(live[f], call) /\ embeds[f] # Nil
  /\ call.at \in {"cold", "answer"} =>
       /\ f \in call.near => Hot(call, f) \/ KeptOld(f)
       /\ "semantic" \in call.options /\ Hot(call, f) =>
            f \in call.near \/ KeptOld(f)

Steady(call, f) ==
  /\ f \in MemoIds \ unindexed
  /\ \A t \in Threads : f \notin calls[t].touched
  /\ Gathers(call, f)
  /\ Orders(call, f)

IInv ==
  /\ MemosSound
  /\ IndexShape(index) /\ IndexShape(frozenIndex)
  /\ IndexSound
  /\ FrozenIndexSound
  /\ EmbedsSound
  /\ DOMAIN calls = Threads
  /\ \A t \in Threads :
       /\ CallSound(calls[t])
       /\ \A f \in calls[t].steady : Steady(calls[t], f)

(* How the threads' calls change in a step: those of mine become call, the *)
(* others see that some facts were written.                                *)
Moved(mine, call, written) ==
  /\ DOMAIN calls' = Threads
  /\ \A u \in Threads :
       calls'[u] = IF u \in mine THEN call ELSE Disturbed(calls[u], written)

(* What a step may not change of a fact that a search has in hand.         *)
Same(f) ==
  /\ live'[f] = live[f] /\ frozen'[f] = frozen[f]
  /\ TextOf(f)' = TextOf(f)
  /\ f \in stray' <=> f \in stray
  /\ f \in unindexed' => f \in unindexed
  /\ KeptOld(f) => KeptOld(f)'
  /\ embeds[f] # Nil => embeds'[f] # Nil

-----------------------------------------------------------------------------

(* What an index is built of.                                              *)
LEMMA RebuiltIsText ==
  ASSUME NEW f \in MemoIds
  PROVE  Rebuilt.texts[f] = TextOf(f)
  BY DEF Rebuilt, TextOf

(* A text is there.                                                        *)
LEMMA TextsArePresent ==
  ASSUME MemosSound, NEW f \in MemoIds
  PROVE  /\ live[f] # Nil => TextOf(f) # Nil
         /\ frozen[f] # Nil => FrozenTextOf(f) # Nil
<1>1. ASSUME NEW memo, MemoShape(memo)
      PROVE  Text(memo) \in Texts /\ FrozenText(memo) \in Texts
  <2>1. {labels[e] : e \in {d \in memo.on : labels[d] # Nil}} \subseteq Names
    BY <1>1 DEF MemosSound, MemoShape
  <2>2. memo.content \in Phrases
    BY <1>1 DEF MemoShape
  <2>. QED
    BY <2>1, <2>2 DEF Text, FrozenText, Texts
<1>. QED
  BY <1>1, NilIsNoText DEF MemosSound, TextOf, FrozenTextOf

(* A call at another step.                                                 *)
LEMMA AtFields ==
  ASSUME NEW call, CallShape(call), NEW step
  PROVE  LET next == At(call, step)
         IN  /\ CallShape(next) /\ next.op = call.op /\ next.at = step
             /\ next.touched = call.touched /\ next.rest = call.rest
             /\ next.term = call.term /\ next.options = call.options
             /\ next.slate = call.slate /\ next.found = call.found
             /\ next.near = call.near /\ next.steady = call.steady
<1>1. At(call, step) =
        [op |-> call.op, at |-> step, fact |-> call.fact,
         touched |-> call.touched, rest |-> call.rest,
         freeze |-> call.freeze, term |-> call.term,
         options |-> call.options, slate |-> call.slate,
         found |-> call.found, near |-> call.near,
         steady |-> call.steady]
  BY DEF CallShape, At
<1>. QED
  BY <1>1 DEF CallShape

(* A call that sees facts written.                                         *)
LEMMA DisturbedFields ==
  ASSUME NEW call, CallShape(call), NEW written
  PROVE  LET next == Disturbed(call, written)
         IN  /\ CallShape(next) /\ next.op = call.op /\ next.at = call.at
             /\ next.touched = call.touched /\ next.rest = call.rest
             /\ next.term = call.term /\ next.options = call.options
             /\ next.slate = call.slate /\ next.found = call.found
             /\ next.near = call.near /\ next.steady = call.steady \ written
<1>1. Disturbed(call, written) =
        [op |-> call.op, at |-> call.at, fact |-> call.fact,
         touched |-> call.touched, rest |-> call.rest,
         freeze |-> call.freeze, term |-> call.term,
         options |-> call.options, slate |-> call.slate,
         found |-> call.found, near |-> call.near,
         steady |-> call.steady \ written]
  BY DEF CallShape, Disturbed
<1>. QED
  BY <1>1 DEF CallShape

(* A call at its first step.                                               *)
LEMMA CallingFields ==
  ASSUME NEW op, NEW step, NEW written
  PROVE  LET next == Calling(op, step, written)
         IN  /\ CallShape(next) /\ next.op = op /\ next.at = step
             /\ next.touched = written /\ next.near = {} /\ next.steady = {}
<1>1. Calling(op, step, written) =
        [op |-> op, at |-> step, fact |-> Nil, touched |-> written,
         rest |-> <<>>, freeze |-> {}, term |-> Nil, options |-> {},
         slate |-> {}, found |-> {}, near |-> {}, steady |-> {}]
  <2>1. PICK one : one = [NoCall EXCEPT !.op = op]
    OBVIOUS
  <2>2. one = [op |-> op, at |-> "idle", fact |-> Nil, touched |-> {},
               rest |-> <<>>, freeze |-> {}, term |-> Nil, options |-> {},
               slate |-> {}, found |-> {}, near |-> {}, steady |-> {}]
    BY <2>1 DEF NoCall
  <2>3. PICK two : two = [one EXCEPT !.at = step]
    OBVIOUS
  <2>4. two = [op |-> op, at |-> step, fact |-> Nil, touched |-> {},
               rest |-> <<>>, freeze |-> {}, term |-> Nil, options |-> {},
               slate |-> {}, found |-> {}, near |-> {}, steady |-> {}]
    BY <2>2, <2>3
  <2>5. Calling(op, step, written) = [two EXCEPT !.touched = written]
    BY <2>1, <2>3 DEF Calling
  <2>. QED
    BY <2>4, <2>5
<1>. QED
  BY <1>1 DEF CallShape

(* A thread between two calls.                                             *)
LEMMA NoCallFields ==
  /\ CallShape(NoCall) /\ NoCall.op = "none" /\ NoCall.at = "idle"
  /\ NoCall.touched = {} /\ NoCall.steady = {}
  BY DEF CallShape, NoCall

(* What is still to be done of a pass is no archiving, and touches nothing.*)
LEMMA WorkingFields ==
  ASSUME NEW call, CallShape(call), NEW rest
  PROVE  LET next == Working(call, rest)
         IN  /\ CallShape(next) /\ next.touched = {}
             /\ next.op = call.op \/ next.op = "none"
             /\ next.at \in {"write", "old", "peek", "freeze", "idle"}
             /\ next.steady = call.steady \/ next.steady = {}
<1>1. CASE rest # <<>>
  <2>1. PICK step \in {"write", "old", "peek"} :
          Working(call, rest) =
            [call EXCEPT !.rest = rest, !.touched = {}, !.at = step]
    BY <1>1 DEF Working
  <2>2. Working(call, rest) =
          [op |-> call.op, at |-> step, fact |-> call.fact, touched |-> {},
           rest |-> rest, freeze |-> call.freeze, term |-> call.term,
           options |-> call.options, slate |-> call.slate,
           found |-> call.found, near |-> call.near,
           steady |-> call.steady]
    BY <2>1 DEF CallShape
  <2>. QED
    BY <2>2 DEF CallShape
<1>2. CASE rest = <<>> /\ call.freeze # {}
  <2>1. Working(call, rest) =
          [call EXCEPT !.rest = <<>>, !.touched = {}, !.at = "freeze"]
    BY <1>2 DEF Working
  <2>2. Working(call, rest) =
          [op |-> call.op, at |-> "freeze", fact |-> call.fact,
           touched |-> {}, rest |-> <<>>, freeze |-> call.freeze,
           term |-> call.term, options |-> call.options,
           slate |-> call.slate, found |-> call.found,
           near |-> call.near, steady |-> call.steady]
    BY <2>1 DEF CallShape
  <2>. QED
    BY <2>2 DEF CallShape
<1>3. CASE rest = <<>> /\ call.freeze = {}
  BY <1>3, NoCallFields DEF Working
<1>. QED
  BY <1>1, <1>2, <1>3

InHand(call) == \A f \in call.steady : Steady(call, f)

CallsSound == \A u \in Threads : CallSound(calls[u]) /\ InHand(calls[u])

(* A search that goes on with the same in hand, of facts that stay the     *)
(* same, goes on in order.                                                 *)
LEMMA SteadyKept ==
  ASSUME NEW call, InHand(call), NEW next,
         next.at = call.at, next.term = call.term,
         next.options = call.options, next.slate = call.slate,
         next.found = call.found, next.near = call.near,
         next.steady \subseteq call.steady,
         \A g \in next.steady :
           Same(g) /\ \A u \in Threads : g \notin calls'[u].touched,
         NEW f \in next.steady
  PROVE  Steady(next, f)'
<1>1. ASSUME NEW g \in next.steady
      PROVE  Steady(call, g) /\ g \in MemoIds
  BY <1>1 DEF InHand, Steady
<1>2. ASSUME NEW g \in next.steady
      PROVE  Hot(next, g)' <=> Hot(call, g)
  BY <1>1, <1>2 DEF Same, Hot, Shown
<1>3. /\ live'[f] # Nil <=> live[f] # Nil
      /\ Cold(next, f)' <=> Cold(call, f)
      /\ Shown(live'[f], next) <=> Shown(live[f], call)
      /\ TextOf(f)' = TextOf(f)
  BY <1>1 DEF Same, Cold, Shown, FrozenTextOf
<1>4. Alone(call, f) => Alone(next, f)'
  BY <1>2, <1>3 DEF Alone
<1>5. Gathers(call, f) => Gathers(next, f)'
  BY <1>2, <1>3, <1>4 DEF Gathers, Same
<1>6. Orders(call, f) => Orders(next, f)'
  BY <1>2, <1>3 DEF Orders, Same
<1>7. f \in MemoIds \ unindexed'
  BY <1>1 DEF Steady, Same
<1>. QED
  BY <1>1, <1>5, <1>6, <1>7 DEF Steady

(* What nobody touches and the step does not write stays the same.         *)
Undisturbed(written) ==
  \A f \in MemoIds \ written :
    (\A u \in Threads : f \notin calls[u].touched) => Same(f)

(* A step that keeps what a search has in hand of the facts that nobody    *)
(* touches keeps the invariant of the searches.                            *)
LEMMA CallsKept ==
  ASSUME IInv, NEW mine \in SUBSET Threads, NEW call, NEW written,
         Moved(mine, call, written),
         mine # {} => CallSound(call),
         \A u \in mine : call.touched \subseteq calls[u].touched \cup written,
         Undisturbed(written), mine # {} => InHand(call)'
  PROVE  CallsSound'
<1>1. ASSUME NEW f \in MemoIds \ written,
             \A u \in Threads : f \notin calls[u].touched
      PROVE  \A u \in Threads : f \notin calls'[u].touched
  <2>. TAKE u \in Threads
  <2>1. CASE u \in mine
    BY <1>1, <2>1 DEF Moved
  <2>2. CASE u \notin mine
    <3>1. PICK old : old = calls[u]
      OBVIOUS
    <3>2. CallShape(old)
      BY <3>1 DEF IInv, CallSound
    <3>3. calls'[u] = Disturbed(old, written)
      BY <2>2, <3>1 DEF Moved
    <3>. QED
      BY <1>1, <3>1, <3>2, <3>3, DisturbedFields
  <2>. QED
    BY <2>1, <2>2
<1>2. ASSUME NEW u \in Threads, u \notin mine
      PROVE  CallSound(calls[u])' /\ \A f \in calls'[u].steady :
                                       Steady(calls[u], f)'
  <2>1. PICK old : old = calls[u]
    OBVIOUS
  <2>2. CallSound(old) /\ \A f \in old.steady : Steady(old, f)
    BY <2>1 DEF IInv
  <2>3. PICK new : new = calls'[u] /\ new = Disturbed(old, written)
    BY <1>2, <2>1 DEF Moved
  <2>4. /\ CallShape(new) /\ new.op = old.op /\ new.at = old.at
        /\ new.term = old.term /\ new.options = old.options
        /\ new.slate = old.slate /\ new.found = old.found
        /\ new.near = old.near /\ new.steady = old.steady \ written
    BY <2>2, <2>3, DisturbedFields DEF CallSound
  <2>5. CallSound(new)
    BY <2>2, <2>4 DEF CallSound
  <2>6. ASSUME NEW f \in new.steady
        PROVE  Steady(new, f)'
    <3>1. ASSUME NEW g \in new.steady
          PROVE  Same(g) /\ \A v \in Threads : g \notin calls'[v].touched
      <4>1. Steady(old, g) /\ g \in MemoIds \ written
        BY <2>2, <2>4, <3>1 DEF Steady
      <4>2. \A v \in Threads : g \notin calls[v].touched
        BY <4>1 DEF Steady
      <4>. QED
        BY <1>1, <4>1, <4>2 DEF Undisturbed
    <3>2. InHand(old) /\ new.steady \subseteq old.steady
      BY <2>2, <2>4 DEF InHand
    <3>. QED
      BY <2>4, <3>1, <3>2, SteadyKept
  <2>7. CallSound(new)'
    BY <2>5 DEF CallSound, CallShape
  <2>. QED
    BY <2>3, <2>6, <2>7
<1>3. ASSUME NEW u \in Threads, u \in mine
      PROVE  CallSound(calls[u])' /\ \A f \in calls'[u].steady :
                                       Steady(calls[u], f)'
  <2>1. calls'[u] = call /\ CallSound(call)
    BY <1>3 DEF Moved
  <2>2. CallSound(call)'
    BY <2>1 DEF CallSound, CallShape
  <2>3. \A f \in call.steady : Steady(call, f)'
    BY <1>3 DEF InHand
  <2>. QED
    BY <2>1, <2>2, <2>3
<1>. QED
  BY <1>2, <1>3 DEF CallsSound, InHand

(* A call that goes on to change texts keeps those it is to mark and drop. *)
Carries(mine, call) ==
  \A u \in mine :
    /\ Unmarked(calls[u]) \subseteq Unmarked(call)
    /\ Unforgotten(calls[u]) \subseteq Unforgotten(call)
    /\ Freezing(calls[u]) \subseteq Freezing(call)

(* No thread forgets what it is to mark and to drop.                       *)
LEMMA MarksKept ==
  ASSUME IInv, NEW mine \in SUBSET Threads, NEW call, NEW written,
         Moved(mine, call, written), Carries(mine, call)
  PROVE  \A u \in Threads :
           /\ Unmarked(calls[u]) \subseteq Unmarked(calls'[u])
           /\ Unforgotten(calls[u]) \subseteq Unforgotten(calls'[u])
           /\ Freezing(calls[u]) \subseteq Freezing(calls'[u])
<1>. TAKE u \in Threads
<1>1. CASE u \in mine
  BY <1>1 DEF Moved, Carries
<1>2. CASE u \notin mine
  <2>1. PICK old : old = calls[u] /\ CallShape(old)
    BY DEF IInv, CallSound
  <2>2. PICK new : new = Disturbed(old, written)
    OBVIOUS
  <2>3. new.op = old.op /\ new.at = old.at /\ new.touched = old.touched
    BY <2>1, <2>2, DisturbedFields
  <2>4. calls'[u] = new
    BY <1>2, <2>1, <2>2 DEF Moved
  <2>. QED
    BY <2>1, <2>3, <2>4 DEF Unmarked, Unforgotten, Freezing
<1>. QED
  BY <1>1, <1>2

(* What changes is marked at once, or the call has yet to mark it.         *)
Announced(mine, call) ==
  \A f \in MemoIds :
    /\ \/ f \in unindexed'
       \/ mine # {} /\ f \in Unmarked(call)
       \/ TextOf(f)' = TextOf(f)
    /\ \/ f \in stray'
       \/ mine # {} /\ f \in Freezing(call)
       \/ f \notin stray /\ frozen'[f] = frozen[f]
    /\ \/ f \in unembedded'
       \/ mine # {} /\ f \in Unforgotten(call)
       \/ embeds[f] = Nil
       \/ /\ TextOf(f)' = TextOf(f)
          /\ live[f] = Nil /\ frozen[f] # Nil
               => live'[f] = Nil /\ frozen'[f] # Nil
       \/ live'[f] = Nil /\ frozen'[f] # Nil

(* A write leaves the caches sound where it says what it has yet to do.    *)
LEMMA CachesKept ==
  ASSUME IInv, NEW mine \in SUBSET Threads, NEW call, NEW written,
         Moved(mine, call, written), Carries(mine, call),
         UNCHANGED <<index, frozenIndex, embeds>>,
         unindexed \subseteq unindexed', unembedded \subseteq unembedded',
         Announced(mine, call)
  PROVE  IndexSound' /\ FrozenIndexSound' /\ EmbedsSound'
<1>1. \A u \in Threads :
        /\ Unmarked(calls[u]) \subseteq Unmarked(calls'[u])
        /\ Unforgotten(calls[u]) \subseteq Unforgotten(calls'[u])
        /\ Freezing(calls[u]) \subseteq Freezing(calls'[u])
  BY MarksKept
<1>2. mine # {} => \E u \in Threads : calls'[u] = call
  BY DEF Moved
<1>3. ASSUME ~index'.dirty, NEW f \in MemoIds \ unindexed'
      PROVE  \/ \E u \in Threads : f \in Unmarked(calls'[u])
             \/ index'.texts[f] = TextOf(f)'
  <2>1. \/ \E u \in Threads : f \in Unmarked(calls[u])
        \/ index.texts[f] = TextOf(f)
    BY <1>3 DEF IInv, IndexSound
  <2>. QED
    BY <1>1, <1>2, <1>3, <2>1 DEF Announced
<1>4. ASSUME ~frozenIndex'.dirty, NEW f \in MemoIds \ stray'
      PROVE  \/ \E u \in Threads : f \in Freezing(calls'[u])
             \/ frozenIndex'.texts[f] = FrozenTextOf(f)'
  <2>9. \/ f \in stray'
        \/ mine # {} /\ f \in Freezing(call)
        \/ f \notin stray /\ frozen'[f] = frozen[f]
    BY <1>4 DEF Announced
  <2>1. CASE mine # {} /\ f \in Freezing(call)
    BY <1>2, <2>1
  <2>2. CASE f \notin stray /\ frozen'[f] = frozen[f]
    <3>1. \/ \E u \in Threads : f \in Freezing(calls[u])
          \/ frozenIndex.texts[f] = FrozenTextOf(f)
      BY <1>4, <2>2 DEF IInv, FrozenIndexSound
    <3>2. FrozenTextOf(f)' = FrozenTextOf(f)
      BY <2>2 DEF FrozenTextOf
    <3>. QED
      BY <1>1, <3>1, <3>2
  <2>. QED
    BY <1>4, <2>9, <2>1, <2>2
<1>5. ASSUME NEW f \in MemoIds \ unembedded', embeds'[f] # Nil
      PROVE  \/ \E u \in Threads : f \in Unforgotten(calls'[u])
             \/ embeds'[f] = TextOf(f)'
             \/ live'[f] = Nil /\ frozen'[f] # Nil
  <2>1. \/ \E u \in Threads : f \in Unforgotten(calls[u])
        \/ embeds[f] = TextOf(f)
        \/ live[f] = Nil /\ frozen[f] # Nil
    BY <1>5 DEF IInv, EmbedsSound
  <2>2. \/ mine # {} /\ f \in Unforgotten(call)
        \/ /\ TextOf(f)' = TextOf(f)
           /\ live[f] = Nil /\ frozen[f] # Nil
                => live'[f] = Nil /\ frozen'[f] # Nil
        \/ live'[f] = Nil /\ frozen'[f] # Nil
    BY <1>5 DEF Announced
  <2>. QED
    BY <1>1, <1>2, <1>5, <2>1, <2>2
<1>. QED
  BY <1>3, <1>4, <1>5 DEF IndexSound, FrozenIndexSound, EmbedsSound

(* A step of one call writes nothing.                                      *)
LEMMA BecomesMoves ==
  ASSUME IInv, NEW t \in Threads, NEW call, Becomes(t, call)
  PROVE  Moved({t}, call, {})
<1>1. ASSUME NEW c, CallShape(c)
      PROVE  Disturbed(c, {}) = c
  BY <1>1 DEF CallShape, Disturbed
<1>2. \A u \in Threads : CallShape(calls[u])
  BY DEF IInv, CallSound
<1>. QED
  BY <1>1, <1>2 DEF IInv, Becomes, Moved

(* A step that changes nothing but one call.                               *)
LEMMA OneCallMoves ==
  ASSUME IInv, NEW t \in Threads, NEW call, Becomes(t, call),
         UNCHANGED <<scene, tables, caches>>, CallSound(call),
         Carries({t}, call), call.touched \subseteq calls[t].touched,
         InHand(call)
  PROVE  IInv'
<1>1. UNCHANGED <<scene, live, frozen, labels, used, stray, index, frozenIndex,
                  embeds, unindexed, unembedded>>
  BY DEF tables, caches
<1>2. Moved({t}, call, {})
  BY BecomesMoves
<1>3. \A f \in MemoIds :
        /\ TextOf(f)' = TextOf(f)
        /\ FrozenTextOf(f)' = FrozenTextOf(f)
        /\ KeptOld(f)' <=> KeptOld(f)
        /\ Same(f)
  BY <1>1 DEF TextOf, FrozenTextOf, Text, KeptOld, Same
<1>4. MemosSound'
  BY <1>1 DEF IInv, MemosSound, MemoShape
<1>5. IndexSound' /\ FrozenIndexSound' /\ EmbedsSound'
  <2>1. Announced({t}, call)
    BY <1>1, <1>3 DEF Announced
  <2>. QED
    BY <1>1, <1>2, <2>1, CachesKept
<1>6. ASSUME NEW f \in call.steady
      PROVE  Steady(call, f)'
  <2>1. ASSUME NEW g \in call.steady
        PROVE  Same(g) /\ \A u \in Threads : g \notin calls'[u].touched
    <3>1. Steady(call, g) /\ g \in MemoIds
      BY <2>1 DEF Steady, InHand
    <3>. QED
      BY <1>3, <3>1 DEF Steady, Becomes, IInv
  <2>. QED
    BY <2>1, SteadyKept
<1>7. CallsSound'
  <2>1. PICK mine, written :
          /\ mine \in SUBSET Threads /\ mine = {t} /\ written = {}
          /\ Moved(mine, call, written)
    BY <1>2
  <2>2. /\ mine # {} => CallSound(call)
        /\ \A u \in mine : call.touched \subseteq calls[u].touched \cup written
    BY <2>1
  <2>3. Undisturbed(written)
    BY <1>3 DEF Undisturbed
  <2>4. InHand(call)'
    BY <1>6 DEF InHand
  <2>. QED
    BY <2>1, <2>2, <2>3, <2>4, CallsKept
<1>8. IndexShape(index)' /\ IndexShape(frozenIndex)'
  BY <1>1 DEF IInv, IndexShape
<1>. QED
  BY <1>2, <1>4, <1>5, <1>7, <1>8 DEF IInv, Moved, CallsSound, InHand

(* Facts that a write does not name stay as they are.                      *)
Spares(written) == \A f \in MemoIds \ written : Same(f)

(* A step that changes facts, names what it writes and leaves the caches   *)
(* alone keeps the invariant; no call is at the write of another process.  *)
LEMMA CallsWrite ==
  ASSUME IInv, NEW mine \in SUBSET Threads, NEW call, NEW written,
         Moved(mine, call, written), Carries(mine, call),
         mine # {} => CallSound(call) /\ call.steady = {},
         \A u \in mine : call.touched \subseteq calls[u].touched \cup written,
         MemosSound', UNCHANGED <<index, frozenIndex, embeds>>,
         unindexed \subseteq unindexed', unembedded \subseteq unembedded',
         Announced(mine, call), Spares(written)
  PROVE  IInv'
<1>1. IndexSound' /\ FrozenIndexSound' /\ EmbedsSound'
  BY CachesKept
<1>2. Undisturbed(written)
  BY DEF Spares, Undisturbed
<1>3. mine # {} => InHand(call)'
  BY DEF InHand
<1>4. CallsSound'
  BY <1>2, <1>3, CallsKept
<1>5. IndexShape(index)' /\ IndexShape(frozenIndex)'
  BY DEF IInv, IndexShape
<1>. QED
  BY <1>1, <1>4, <1>5 DEF IInv, Moved, CallsSound, InHand

(* The same for a write of one thread.                                     *)
LEMMA ThreadWrites ==
  ASSUME IInv, NEW t \in Threads, NEW call, NEW written,
         Wrote(t, call, written), Carries({t}, call),
         CallSound(call), call.steady = {},
         call.touched \subseteq calls[t].touched \cup written,
         MemosSound', UNCHANGED <<index, frozenIndex, embeds>>,
         unindexed \subseteq unindexed', unembedded \subseteq unembedded',
         Announced({t}, call), Spares(written)
  PROVE  IInv'
<1>1. PICK mine \in SUBSET Threads : mine = {t}
  OBVIOUS
<1>2. Moved(mine, call, written)
  BY <1>1 DEF Wrote, Moved
<1>3. Carries(mine, call) /\ Announced(mine, call)
  BY <1>1
<1>4. /\ mine # {} => CallSound(call) /\ call.steady = {}
      /\ \A u \in mine : call.touched \subseteq calls[u].touched \cup written
  BY <1>1
<1>. QED
  BY <1>2, <1>3, <1>4, CallsWrite

(* A call that has nothing to mark or to drop carries nothing.             *)
LEMMA NothingToCarry ==
  ASSUME IInv, NEW t \in Threads, NEW call,
         calls[t].at \notin {"forget", "mark", "import", "mark_frozen"}
  PROVE  Carries({t}, call)
  BY DEF IInv, CallSound, Carries, Unmarked, Unforgotten, Freezing

(* A call that starts has nothing to mark and touches nothing.             *)
LEMMA IdleCarries ==
  ASSUME IInv, NEW t \in Threads, NEW op, Starts(t, op), NEW call
  PROVE  Carries({t}, call) /\ calls[t].touched = {}
<1>1. calls[t] = NoCall
  BY DEF Starts
<1>2. calls[t].at = "idle" /\ calls[t].touched = {}
  BY <1>1, NoCallFields
<1>. QED
  BY <1>2, NothingToCarry

(* A call that added a fact is to mark the index.                          *)
LEMMA AddingFields ==
  ASSUME NEW f
  PROVE  /\ CallSound(Adding(f)) /\ Adding(f).op = "fact_add"
         /\ Adding(f).at = "mark" /\ Adding(f).touched = {f}
         /\ Adding(f).steady = {}
<1>1. PICK call : call = Calling("fact_add", "mark", {f})
  OBVIOUS
<1>2. /\ CallShape(call) /\ call.op = "fact_add" /\ call.at = "mark"
      /\ call.touched = {f} /\ call.steady = {}
  BY <1>1, CallingFields
<1>3. Adding(f) =
        [op |-> call.op, at |-> call.at, fact |-> f,
         touched |-> call.touched, rest |-> call.rest,
         freeze |-> call.freeze, term |-> call.term,
         options |-> call.options, slate |-> call.slate,
         found |-> call.found, near |-> call.near,
         steady |-> call.steady]
  BY <1>1, <1>2 DEF Adding, CallShape
<1>. QED
  BY <1>2, <1>3 DEF CallSound, CallShape

(* A fact with another content, other entities or another successor.       *)
LEMMA MemoFields ==
  ASSUME NEW memo, MemoShape(memo), NEW value
  PROVE  /\ value \in Phrases =>
              /\ MemoShape([memo EXCEPT !.content = value])
              /\ [memo EXCEPT !.content = value].on = memo.on
         /\ value \subseteq EntityIds =>
              MemoShape([memo EXCEPT !.on = memo.on \cup value])
         /\ value \subseteq memo.on =>
              [memo EXCEPT !.on = memo.on \cup value] = memo
         /\ MemoShape([memo EXCEPT !.over = value])
         /\ Text([memo EXCEPT !.over = value]) = Text(memo)
<1>1. [memo EXCEPT !.content = value] =
        [content |-> value, on |-> memo.on, created |-> memo.created,
         over |-> memo.over]
  BY DEF MemoShape
<1>2. [memo EXCEPT !.on = memo.on \cup value] =
        [content |-> memo.content, on |-> memo.on \cup value,
         created |-> memo.created, over |-> memo.over]
  BY DEF MemoShape
<1>3. [memo EXCEPT !.over = value] =
        [content |-> memo.content, on |-> memo.on, created |-> memo.created,
         over |-> value]
  BY DEF MemoShape
<1>4. value \subseteq memo.on => memo.on \cup value = memo.on
  OBVIOUS
<1>5. /\ value \in Phrases => MemoShape([memo EXCEPT !.content = value])
      /\ [memo EXCEPT !.content = value].on = memo.on
  BY <1>1 DEF MemoShape
<1>6. value \subseteq EntityIds =>
        MemoShape([memo EXCEPT !.on = memo.on \cup value])
  BY <1>2 DEF MemoShape
<1>7. value \subseteq memo.on =>
        [memo EXCEPT !.on = memo.on \cup value] = memo
  BY <1>2, <1>4 DEF MemoShape
<1>8. MemoShape([memo EXCEPT !.over = value])
  BY <1>3 DEF MemoShape
<1>9. Text([memo EXCEPT !.over = value]) = Text(memo)
  BY <1>3 DEF Text
<1>. QED
  BY <1>5, <1>6, <1>7, <1>8, <1>9

(* One fact of the hot tier is written.                                    *)
LEMMA OneFactChanges ==
  ASSUME IInv, NEW f \in MemoIds, NEW memo,
         live' = [live EXCEPT ![f] = memo],
         memo = Nil \/ MemoShape(memo), used' \in {used, used \cup {f}},
         memo # Nil => f \in used',
         UNCHANGED <<scene, frozen, labels, embeds, stray>>,
         unindexed' \in {unindexed, unindexed \cup {f}},
         unembedded \subseteq unembedded'
  PROVE  /\ MemosSound' /\ Spares({f})
         /\ live'[f] = memo
         /\ \A g \in MemoIds \ {f} : live'[g] = live[g]
         /\ unindexed \subseteq unindexed'
<1>1. /\ live'[f] = memo /\ DOMAIN live' = MemoIds
      /\ \A g \in MemoIds \ {f} : live'[g] = live[g]
  BY DEF IInv, MemosSound
<1>2. MemosSound'
  BY <1>1 DEF IInv, MemosSound, MemoShape
<1>3. Spares({f})
  <2>1. \A g \in MemoIds \ {f} : TextOf(g)' = TextOf(g)
    BY <1>1 DEF TextOf, Text
  <2>2. \A g \in MemoIds \ {f} : g \in unindexed' => g \in unindexed
    OBVIOUS
  <2>. QED
    BY <1>1, <2>1, <2>2 DEF Spares, Same, KeptOld
<1>. QED
  BY <1>1, <1>2, <1>3

(* fact_add of a new content.                                              *)
LEMMA Step_AddNew ==
  ASSUME IInv, NEW t \in Threads, NEW content \in Phrases, NEW on,
         FactAdds(t, content, on), AddNew(t, content, on)
  PROVE  IInv'
<1>1. /\ Starts(t, "fact_add") /\ on \in scene.links
      /\ UNCHANGED <<scene, frozen, labels, stray, index, frozenIndex, embeds,
                     unindexed, unembedded>>
  BY DEF FactAdds, AddNew
<1>2. PICK f, created :
        /\ f \in MemoIds \ used
        /\ live' = [live EXCEPT ![f] =
                      [content |-> content, on |-> on, created |-> created,
                       over |-> Nil]]
        /\ used' = used \cup {f}
        /\ Wrote(t, Adding(f), {f})
  BY DEF AddNew
<1>3. PICK memo : memo = [content |-> content, on |-> on,
                          created |-> created, over |-> Nil]
  OBVIOUS
<1>4. MemoShape(memo)
  <2>1. on \subseteq EntityIds
    BY <1>1, ScenesAssumption DEF IInv, MemosSound
  <2>. QED
    BY <1>3, <2>1 DEF MemoShape
<1>5. live' = [live EXCEPT ![f] = memo]
  BY <1>2, <1>3
<1>6. /\ MemosSound' /\ Spares({f}) /\ unindexed \subseteq unindexed'
  BY <1>1, <1>2, <1>4, <1>5, OneFactChanges
<1>7. embeds[f] = Nil
  BY <1>2 DEF IInv, MemosSound
<1>8. PICK call : call = Adding(f)
  OBVIOUS
<1>9. /\ CallSound(call) /\ call.at = "mark" /\ call.touched = {f}
      /\ call.steady = {}
  BY <1>8, AddingFields
<1>10. Announced({t}, call)
  <2>1. f \in Unmarked(call)
    BY <1>9 DEF Unmarked
  <2>. QED
    BY <1>1, <1>6, <1>7, <2>1 DEF Announced, Spares, Same
<1>11. Carries({t}, call)
  BY <1>1, IdleCarries
<1>. QED
  BY <1>1, <1>2, <1>6, <1>8, <1>9, <1>10, <1>11, ThreadWrites

(* fact_add of a content that is known: its text changes and its embedding *)
(* is kept.                                                                *)
LEMMA Step_AddKnown ==
  ASSUME IInv, NEW t \in Threads, NEW content \in Phrases, NEW on,
         FactAdds(t, content, on), AddKnown(t, content, on)
  PROVE  IInv'
<1>1. /\ Starts(t, "fact_add") /\ on \in scene.links
      /\ UNCHANGED <<scene, frozen, labels, used, stray, index, frozenIndex,
                     embeds, unindexed>>
  BY DEF FactAdds, AddKnown
<1>2. PICK f \in Holder(content) :
        /\ live' = [live EXCEPT ![f].on = @ \cup on]
        /\ unembedded' = IF on \subseteq live[f].on THEN unembedded
                         ELSE unembedded \cup {f}
        /\ Wrote(t, Adding(f), {f})
  BY DEF AddKnown
<1>3. PICK old : old = live[f] /\ old # Nil /\ f \in MemoIds
                   /\ MemoShape(old) /\ f \in used
  BY <1>2 DEF Holder, Present, IInv, MemosSound
<1>4. PICK memo : memo = [old EXCEPT !.on = old.on \cup on]
  OBVIOUS
<1>5. live' = [live EXCEPT ![f] = memo]
  BY <1>2, <1>3, <1>4
<1>6. MemoShape(memo) /\ (on \subseteq old.on => memo = old)
  <2>1. on \subseteq EntityIds
    BY <1>1, ScenesAssumption DEF IInv, MemosSound
  <2>. QED
    BY <1>3, <1>4, <2>1, MemoFields
<1>7. unembedded \subseteq unembedded'
  BY <1>2
<1>8. /\ MemosSound' /\ Spares({f}) /\ live'[f] = memo
      /\ unindexed \subseteq unindexed'
  BY <1>1, <1>3, <1>5, <1>6, <1>7, OneFactChanges
<1>9. PICK call : call = Adding(f)
  OBVIOUS
<1>10. /\ CallSound(call) /\ call.at = "mark" /\ call.touched = {f}
       /\ call.steady = {}
  BY <1>9, AddingFields
<1>11. \/ f \in unembedded'
       \/ TextOf(f)' = TextOf(f) /\ live'[f] = live[f]
  BY <1>1, <1>2, <1>3, <1>6, <1>8 DEF TextOf, Text
<1>12. Announced({t}, call)
  <2>1. f \in Unmarked(call)
    BY <1>10 DEF Unmarked
  <2>. QED
    BY <1>1, <1>3, <1>8, <1>11, <2>1 DEF Announced, Spares, Same
<1>13. Carries({t}, call)
  BY <1>1, IdleCarries
<1>. QED
  BY <1>1, <1>2, <1>7, <1>8, <1>9, <1>10, <1>12, <1>13, ThreadWrites

(* What a write of one fact leaves a call that is to mark it.              *)
LEMMA CallsFresh ==
  ASSUME NEW op, NEW step, NEW written,
         op = "archive_facts" => step \in {"mark", "mark_frozen"},
         step # "cold"
  PROVE  /\ CallSound(Calling(op, step, written))
         /\ Calling(op, step, written).steady = {}
         /\ Calling(op, step, written).touched = written
         /\ Calling(op, step, written).at = step
         /\ Calling(op, step, written).op = op
  BY CallingFields DEF CallSound

(* fact_update.                                                            *)
LEMMA Step_FactUpdates ==
  ASSUME IInv, NEW t \in Threads, NEW f \in MemoIds, NEW content \in Phrases,
         FactUpdates(t, f, content)
  PROVE  IInv'
<1>1. /\ Starts(t, "fact_update") /\ f \in Present
      /\ UNCHANGED <<scene, frozen, labels, used, stray, index, frozenIndex,
                     embeds, unindexed, unembedded>>
  BY DEF FactUpdates, caches
<1>2. /\ live' = [live EXCEPT ![f].content = content]
      /\ Wrote(t, Calling("fact_update", "forget", {f}), {f})
  BY DEF FactUpdates
<1>3. PICK old : old = live[f] /\ old # Nil /\ MemoShape(old) /\ f \in used
  BY <1>1 DEF Present, IInv, MemosSound
<1>4. PICK memo : memo = [old EXCEPT !.content = content]
  OBVIOUS
<1>5. live' = [live EXCEPT ![f] = memo]
  BY <1>2, <1>3, <1>4
<1>6. MemoShape(memo)
  BY <1>3, <1>4, MemoFields
<1>7. /\ MemosSound' /\ Spares({f}) /\ unindexed \subseteq unindexed'
  BY <1>1, <1>3, <1>5, <1>6, OneFactChanges
<1>8. PICK call : call = Calling("fact_update", "forget", {f})
  OBVIOUS
<1>9. /\ CallSound(call) /\ call.at = "forget" /\ call.touched = {f}
      /\ call.steady = {}
  BY <1>8, CallsFresh
<1>10. Announced({t}, call)
  <2>1. f \in Unmarked(call) /\ f \in Unforgotten(call)
    BY <1>9 DEF Unmarked, Unforgotten
  <2>. QED
    BY <1>1, <1>7, <2>1 DEF Announced, Spares, Same
<1>11. Carries({t}, call)
  BY <1>1, IdleCarries
<1>. QED
  BY <1>1, <1>2, <1>7, <1>8, <1>9, <1>10, <1>11, ThreadWrites

(* fact_delete.                                                            *)
LEMMA Step_FactDeletes ==
  ASSUME IInv, NEW t \in Threads, NEW f \in MemoIds, FactDeletes(t, f)
  PROVE  IInv'
<1>1. /\ Starts(t, "fact_delete")
      /\ UNCHANGED <<scene, frozen, labels, used, stray, index, frozenIndex,
                     embeds, unindexed, unembedded>>
  BY DEF FactDeletes, caches
<1>2. /\ live' = [live EXCEPT ![f] = Nil]
      /\ Wrote(t, Calling("fact_delete", "forget", {f}), {f})
  BY DEF FactDeletes
<1>3. PICK memo : memo = Nil
  OBVIOUS
<1>4. live' = [live EXCEPT ![f] = memo]
  BY <1>2, <1>3
<1>5. /\ MemosSound' /\ Spares({f}) /\ unindexed \subseteq unindexed'
  BY <1>1, <1>3, <1>4, OneFactChanges
<1>6. PICK call : call = Calling("fact_delete", "forget", {f})
  OBVIOUS
<1>7. /\ CallSound(call) /\ call.at = "forget" /\ call.touched = {f}
      /\ call.steady = {}
  BY <1>6, CallsFresh
<1>8. Announced({t}, call)
  <2>1. f \in Unmarked(call) /\ f \in Unforgotten(call)
    BY <1>7 DEF Unmarked, Unforgotten
  <2>. QED
    BY <1>1, <1>5, <2>1 DEF Announced, Spares, Same
<1>9. Carries({t}, call)
  BY <1>1, IdleCarries
<1>. QED
  BY <1>1, <1>2, <1>5, <1>6, <1>7, <1>8, <1>9, ThreadWrites

(* entity_rename: the texts of the facts that are not on it stay.          *)
LEMMA Step_Renames ==
  ASSUME IInv, NEW t \in Threads, NEW e \in EntityIds, NEW name \in Names,
         Renames(t, e, name)
  PROVE  IInv'
<1>1. PICK written : written = {f \in Present : e \in live[f].on}
  OBVIOUS
<1>2. /\ Starts(t, "entity_rename")
      /\ labels' = [labels EXCEPT ![e] = name]
      /\ unembedded' = unembedded \cup written
      /\ Wrote(t, Calling("entity_rename", "mark", written), written)
      /\ UNCHANGED <<scene, live, frozen, used, stray, index, frozenIndex,
                     embeds, unindexed>>
  BY <1>1 DEF Renames
<1>3. MemosSound'
  BY <1>2 DEF IInv, MemosSound, MemoShape
<1>4. \A f \in MemoIds \ written : TextOf(f)' = TextOf(f)
  <2>. TAKE f \in MemoIds \ written
  <2>1. CASE live[f] = Nil
    BY <1>2, <2>1 DEF TextOf
  <2>2. CASE live[f] # Nil
    <3>1. e \notin live[f].on
      BY <1>1, <2>2 DEF Present
    <3>2. \A d \in live[f].on : labels'[d] = labels[d]
      BY <1>2, <2>2, <3>1 DEF IInv, MemosSound, MemoShape
    <3>3. {labels'[d] : d \in {c \in live[f].on : labels'[c] # Nil}}
            = {labels[d] : d \in {c \in live[f].on : labels[c] # Nil}}
      BY <3>2
    <3>. QED
      BY <1>2, <2>2, <3>3 DEF TextOf, Text
  <2>. QED
    BY <2>1, <2>2
<1>5. Spares(written)
  BY <1>2, <1>4 DEF Spares, Same, KeptOld
<1>6. PICK call : call = Calling("entity_rename", "mark", written)
  OBVIOUS
<1>7. /\ CallSound(call) /\ call.at = "mark" /\ call.touched = written
      /\ call.steady = {}
  BY <1>6, CallsFresh
<1>8. Announced({t}, call)
  <2>1. \A f \in written : f \in Unmarked(call) /\ f \in unembedded'
    BY <1>2, <1>7 DEF Unmarked
  <2>. QED
    BY <1>2, <1>4, <2>1 DEF Announced
<1>9. Carries({t}, call)
  BY <1>2, IdleCarries
<1>. QED
  BY <1>2, <1>3, <1>5, <1>6, <1>7, <1>8, <1>9, ThreadWrites

(* sync_import of a record: what the call imported before stays to be      *)
(* marked.                                                                 *)
LEMMA Step_ImportsFact ==
  ASSUME IInv, NEW t \in Threads, NEW f \in MemoIds, NEW content \in Phrases,
         ImportsFact(t, f, content)
  PROVE  IInv'
<1>1. /\ Starts(t, "sync_import") \/ calls[t].at = "import"
      /\ f \in used => f \in Present
      /\ used' = used \cup {f} /\ unembedded' = unembedded \cup {f}
      /\ UNCHANGED <<scene, frozen, labels, stray, index, frozenIndex, embeds,
                     unindexed>>
  BY DEF ImportsFact
<1>2. PICK touched, step :
        /\ touched = calls[t].touched \cup {f}
        /\ step \in {"mark", "import"}
        /\ Wrote(t, Calling("sync_import", step, touched), {f})
  <2>1. PICK touched : touched = calls[t].touched \cup {f}
    OBVIOUS
  <2>2. \/ Wrote(t, Calling("sync_import", "mark", touched), {f})
        \/ Wrote(t, Calling("sync_import", "import", touched), {f})
    BY <2>1 DEF ImportsFact
  <2>. QED
    BY <2>1, <2>2
<1>3. PICK memo : /\ live' = [live EXCEPT ![f] = memo]
                  /\ MemoShape(memo)
  <2>1. CASE f \in used
    <3>1. PICK old : old = live[f] /\ MemoShape(old)
      BY <1>1, <2>1 DEF Present, IInv, MemosSound
    <3>2. live' = [live EXCEPT ![f] = [old EXCEPT !.content = content]]
      BY <2>1, <3>1 DEF ImportsFact
    <3>. QED
      BY <3>1, <3>2, MemoFields
  <2>2. CASE f \notin used
    <3>1. PICK memo : memo = [content |-> content, on |-> {},
                              created |-> clock, over |-> Nil]
      OBVIOUS
    <3>2. live' = [live EXCEPT ![f] = memo]
      BY <2>2, <3>1 DEF ImportsFact
    <3>3. MemoShape(memo)
      BY <3>1 DEF MemoShape
    <3>. QED
      BY <3>2, <3>3
  <2>. QED
    BY <2>1, <2>2
<1>4. unembedded \subseteq unembedded' /\ f \in used'
  BY <1>1
<1>5. /\ MemosSound' /\ Spares({f}) /\ unindexed \subseteq unindexed'
  BY <1>1, <1>3, <1>4, OneFactChanges
<1>6. PICK call : call = Calling("sync_import", step, touched)
  OBVIOUS
<1>7. /\ CallSound(call) /\ call.at = step /\ call.touched = touched
      /\ call.steady = {}
  BY <1>2, <1>6, CallsFresh
<1>8. Announced({t}, call)
  <2>1. f \in Unmarked(call) /\ f \in unembedded'
    BY <1>1, <1>2, <1>7 DEF Unmarked
  <2>. QED
    BY <1>1, <1>5, <2>1 DEF Announced, Spares, Same
<1>9. Carries({t}, call)
  <2>1. CASE Starts(t, "sync_import")
    BY <2>1, IdleCarries
  <2>2. CASE calls[t].at = "import"
    BY <1>2, <1>7, <2>2
       DEF IInv, CallSound, Carries, Unmarked, Unforgotten, Freezing
  <2>. QED
    BY <1>1, <2>1, <2>2
<1>. QED
  BY <1>1, <1>2, <1>4, <1>5, <1>6, <1>7, <1>8, <1>9, ThreadWrites

(* Facts go to the archive, or some of them are copied and none goes.      *)
LEMMA FreezesSound ==
  ASSUME IInv, NEW t \in Threads, NEW asked, Freezes(t, asked),
         UNCHANGED <<scene, labels, used, index, frozenIndex, embeds,
                     unindexed, unembedded>>,
         calls[t].at \in {"idle", "freeze"}
  PROVE  IInv'
<1>1. PICK ids : ids = asked \cap Present /\ ids \subseteq MemoIds
  BY DEF Present
<1>2. \A call : Carries({t}, call)
  BY NothingToCarry
<1>3. \A f \in ids : live[f] # Nil /\ MemoShape(live[f]) /\ f \in used
  BY <1>1 DEF Present, IInv, MemosSound
<1>4. CASE /\ frozen' = Copied(ids)
           /\ live' = [f \in MemoIds |-> IF f \in ids THEN Nil ELSE live[f]]
           /\ stray' = stray \ ids
           /\ Wrote(t, Calling("archive_facts", "mark", ids), ids)
  <2>1. /\ DOMAIN live' = MemoIds /\ DOMAIN frozen' = MemoIds
        /\ \A f \in ids : live'[f] = Nil /\ frozen'[f] = live[f]
        /\ \A f \in MemoIds \ ids :
             live'[f] = live[f] /\ frozen'[f] = frozen[f]
    BY <1>1, <1>4 DEF Copied
  <2>2. MemosSound'
    BY <1>3, <2>1 DEF IInv, MemosSound, MemoShape
  <2>3. \A f \in MemoIds \ ids : TextOf(f)' = TextOf(f)
    BY <2>1 DEF TextOf, Text
  <2>4. \A f \in MemoIds \ ids : f \in stray' <=> f \in stray
    BY <1>4
  <2>5. Spares(ids)
    BY <2>1, <2>3, <2>4 DEF Spares, Same, KeptOld
  <2>6. PICK call : call = Calling("archive_facts", "mark", ids)
    OBVIOUS
  <2>7. /\ CallSound(call) /\ call.at = "mark" /\ call.touched = ids
        /\ call.steady = {} /\ call.op = "archive_facts"
    BY <2>6, CallsFresh
  <2>8. Announced({t}, call)
    <3>1. /\ Unmarked(call) = ids /\ Freezing(call) = ids
      BY <2>7 DEF Unmarked, Freezing
    <3>2. \A f \in ids : live'[f] = Nil /\ frozen'[f] # Nil
      BY <1>3, <2>1
    <3>. QED
      BY <2>1, <2>3, <2>4, <3>1, <3>2 DEF Announced
  <2>. QED
    BY <1>2, <1>4, <2>2, <2>5, <2>6, <2>7, <2>8, ThreadWrites
<1>5. ASSUME NEW copied \in SUBSET ids,
             frozen' = Copied(copied), stray' = stray \cup copied,
             Wrote(t, NoCall, copied), UNCHANGED live
      PROVE  IInv'
  <2>1. /\ DOMAIN frozen' = MemoIds
        /\ \A f \in copied : frozen'[f] = live[f]
        /\ \A f \in MemoIds \ copied : frozen'[f] = frozen[f]
    BY <1>1, <1>5 DEF Copied
  <2>2. MemosSound'
    BY <1>3, <1>5, <2>1 DEF IInv, MemosSound, MemoShape
  <2>3. \A f \in MemoIds : TextOf(f)' = TextOf(f)
    BY <1>5 DEF TextOf, Text
  <2>4. Spares(copied)
    BY <1>5, <2>1, <2>3 DEF Spares, Same, KeptOld
  <2>5. PICK call : call = NoCall
    OBVIOUS
  <2>6. /\ CallSound(call) /\ call.touched = {} /\ call.steady = {}
    BY <2>5, NoCallFields DEF CallSound
  <2>7. Announced({t}, call)
    <3>1. \A f \in copied : f \in stray' /\ live[f] # Nil
      BY <1>3, <1>5
    <3>. QED
      BY <1>5, <2>1, <2>3, <3>1 DEF Announced
  <2>. QED
    BY <1>2, <1>5, <2>2, <2>4, <2>5, <2>6, <2>7, ThreadWrites
<1>6. CASE Wrote(t, NoCall, {}) /\ UNCHANGED <<live, frozen, stray>>
  <2>1. PICK written : written = {}
    OBVIOUS
  <2>2. MemosSound'
    BY <1>6 DEF IInv, MemosSound, MemoShape
  <2>3. \A f \in MemoIds : TextOf(f)' = TextOf(f)
    BY <1>6 DEF TextOf, Text
  <2>4. Spares(written)
    BY <1>6, <2>3 DEF Spares, Same, KeptOld
  <2>5. PICK call : call = NoCall
    OBVIOUS
  <2>6. /\ CallSound(call) /\ call.touched = {} /\ call.steady = {}
    BY <2>5, NoCallFields DEF CallSound
  <2>7. Announced({t}, call)
    BY <1>6, <2>3 DEF Announced
  <2>8. Wrote(t, call, written)
    BY <1>6, <2>1, <2>5
  <2>. QED
    BY <1>2, <2>2, <2>4, <2>6, <2>7, <2>8, ThreadWrites
<1>. QED
  BY <1>1, <1>4, <1>5, <1>6 DEF Freezes

(* archive_facts of a client ...                                           *)
LEMMA Step_ArchivesFacts ==
  ASSUME IInv, NEW t \in Threads, NEW asked, ArchivesFacts(t, asked)
  PROVE  IInv'
<1>1. calls[t].at = "idle"
  BY NoCallFields DEF ArchivesFacts, Starts
<1>2. /\ Freezes(t, asked)
      /\ UNCHANGED <<scene, labels, used, index, frozenIndex, embeds,
                     unindexed, unembedded>>
  BY DEF ArchivesFacts
<1>. QED
  BY <1>1, <1>2, FreezesSound

(* ... and at the end of a pass.                                           *)
LEMMA Step_Freeze ==
  ASSUME IInv, NEW t \in Threads, Freeze(t)
  PROVE  IInv'
<1>1. PICK asked : Freezes(t, asked)
  BY DEF Freeze
<1>2. /\ calls[t].at = "freeze"
      /\ UNCHANGED <<scene, labels, used, index, frozenIndex, embeds,
                     unindexed, unembedded>>
  BY DEF Freeze
<1>. QED
  BY <1>1, <1>2, FreezesSound

(* Another process writes a fact, marks nothing and has no call.           *)
LEMMA ForeignSound ==
  ASSUME IInv, NEW f \in MemoIds, NEW memo, Foreign(f, memo),
         memo = Nil \/ MemoShape(memo)
  PROVE  IInv'
<1>1. /\ live' = [live EXCEPT ![f] = memo]
      /\ unindexed' = unindexed \cup {f} /\ unembedded' = unembedded \cup {f}
      /\ calls' = [t \in Threads |-> Disturbed(calls[t], {f})]
      /\ UNCHANGED <<scene, frozen, labels, used, stray, index, frozenIndex,
                     embeds>>
  BY DEF Foreign
<1>2. f \in used
  BY DEF Foreign, Present, IInv, MemosSound
<1>3. /\ MemosSound' /\ Spares({f}) /\ unindexed \subseteq unindexed'
      /\ unembedded \subseteq unembedded'
  <2>1. unembedded \subseteq unembedded'
    BY <1>1
  <2>. QED
    BY <1>1, <1>2, <2>1, OneFactChanges
<1>4. PICK mine, call : mine = {} /\ call = NoCall
  OBVIOUS
<1>5. /\ mine \in SUBSET Threads
      /\ Moved(mine, call, {f}) /\ Carries(mine, call)
  BY <1>1, <1>4 DEF Moved, Carries
<1>6. Announced(mine, call)
  <2>1. f \in unindexed' /\ f \in unembedded'
    BY <1>1
  <2>. QED
    BY <1>1, <1>3, <2>1 DEF Announced, Spares, Same
<1>7. /\ mine # {} => CallSound(call) /\ call.steady = {}
      /\ \A u \in mine : call.touched \subseteq calls[u].touched \cup {f}
  BY <1>4
<1>. QED
  BY <1>1, <1>3, <1>5, <1>6, <1>7, CallsWrite

(* The other process changes a fact ...                                    *)
LEMMA Step_ForeignUpdate ==
  ASSUME IInv, NEW f \in MemoIds, NEW content \in Phrases,
         ForeignUpdate(f, content)
  PROVE  IInv'
<1>1. PICK old : old = live[f] /\ MemoShape(old)
  BY DEF ForeignUpdate, Present, IInv, MemosSound
<1>2. PICK memo : memo = [old EXCEPT !.content = content]
  OBVIOUS
<1>3. Foreign(f, memo)
  BY <1>1, <1>2 DEF ForeignUpdate
<1>4. MemoShape(memo)
  BY <1>1, <1>2, MemoFields
<1>. QED
  BY <1>3, <1>4, ForeignSound

(* ... or deletes it.                                                      *)
LEMMA Step_ForeignDelete ==
  ASSUME IInv, NEW f \in MemoIds, ForeignDelete(f)
  PROVE  IInv'
<1>1. PICK memo : memo = Nil
  OBVIOUS
<1>. QED
  BY <1>1, ForeignSound DEF ForeignDelete

(* A step of a call that has nothing to mark and is no search.             *)
LEMMA QuietMoves ==
  ASSUME IInv, NEW t \in Threads, NEW call, Becomes(t, call),
         UNCHANGED <<scene, tables, caches>>, CallSound(call),
         call.touched \subseteq calls[t].touched, call.steady = {},
         calls[t].at \notin {"forget", "mark", "import", "mark_frozen"}
  PROVE  IInv'
<1>1. Carries({t}, call) /\ InHand(call)
  BY NothingToCarry DEF InHand
<1>. QED
  BY <1>1, OneCallMoves

(* A thread between two calls has nothing in hand.                         *)
LEMMA NoCallSound ==
  CallSound(NoCall) /\ NoCall.touched = {} /\ NoCall.steady = {}
  BY NoCallFields DEF CallSound

(* A call with other facts to retire.                                      *)
LEMMA RestFields ==
  ASSUME NEW op, NEW step, NEW value, step # "cold", op # "archive_facts"
  PROVE  LET call == Calling(op, step, {})
             next == [call EXCEPT !.rest = value]
             cold == [call EXCEPT !.freeze = value]
         IN  /\ CallSound(next) /\ next.touched = {} /\ next.steady = {}
             /\ CallSound(cold) /\ cold.touched = {} /\ cold.steady = {}
             /\ cold.op = op
<1>1. PICK call : call = Calling(op, step, {})
  OBVIOUS
<1>2. /\ CallShape(call) /\ call.op = op /\ call.at = step
      /\ call.touched = {} /\ call.steady = {}
  BY <1>1, CallingFields
<1>3. [call EXCEPT !.rest = value] =
        [op |-> op, at |-> step, fact |-> call.fact, touched |-> {},
         rest |-> value, freeze |-> call.freeze, term |-> call.term,
         options |-> call.options, slate |-> call.slate,
         found |-> call.found, near |-> call.near,
         steady |-> {}]
  BY <1>2 DEF CallShape
<1>4. [call EXCEPT !.freeze = value] =
        [op |-> op, at |-> step, fact |-> call.fact, touched |-> {},
         rest |-> call.rest, freeze |-> value, term |-> call.term,
         options |-> call.options, slate |-> call.slate,
         found |-> call.found, near |-> call.near,
         steady |-> {}]
  BY <1>2 DEF CallShape
<1>. QED
  BY <1>1, <1>3, <1>4 DEF CallSound, CallShape

(* What a pass goes on with is in order, and so is what it goes on with    *)
(* after an error.                                                         *)
LEMMA WorkingSound ==
  ASSUME NEW call, CallSound(call), call.op # "archive_facts",
         call.steady = {}, NEW rest
  PROVE  LET next == Working(call, rest)
         IN  CallSound(next) /\ next.touched = {} /\ next.steady = {}
<1>1. PICK next : next = Working(call, rest)
  OBVIOUS
<1>2. /\ CallShape(next) /\ next.touched = {}
      /\ next.op = call.op \/ next.op = "none"
      /\ next.at \in {"write", "old", "peek", "freeze", "idle"}
      /\ next.steady = call.steady \/ next.steady = {}
  BY <1>1, WorkingFields DEF CallSound
<1>3. CallSound(next)
  BY <1>2 DEF CallSound
<1>. QED
  BY <1>1, <1>2, <1>3

(* An error ends a call or goes to its next fact.                          *)
LEMMA FailedSound ==
  ASSUME NEW call, CallSound(call), call.op # "archive_facts",
         call.steady = {}
  PROVE  LET next == Failed(call)
         IN  CallSound(next) /\ next.touched = {} /\ next.steady = {}
  BY WorkingSound, NoCallSound DEF Failed, Rest

(* A call that is no search is in order at another step.                   *)
LEMMA AtSound ==
  ASSUME NEW call, CallSound(call), call.op # "archive_facts",
         call.steady = {}, NEW step, step # "cold"
  PROVE  LET next == At(call, step)
         IN  /\ CallSound(next) /\ next.touched = call.touched
             /\ next.steady = {}
  BY AtFields DEF CallSound

(* fact_supersede of a client.                                             *)
LEMMA Step_Supersedes ==
  ASSUME IInv, NEW t \in Threads, NEW old, NEW new, Supersedes(t, old, new)
  PROVE  IInv'
<1>1. PICK pair : pair = <<<<old, new>>>>
  OBVIOUS
<1>2. PICK call :
        call = [Calling("fact_supersede", "old", {}) EXCEPT !.rest = pair]
  OBVIOUS
<1>3. /\ Becomes(t, call) /\ UNCHANGED <<scene, tables, caches>>
      /\ calls[t].at = "idle"
  BY <1>1, <1>2, NoCallFields DEF Supersedes, Starts
<1>4. CallSound(call) /\ call.touched = {} /\ call.steady = {}
  BY <1>2, RestFields
<1>. QED
  BY <1>3, <1>4, QuietMoves

(* maybe_resolve_atomic_conflict.                                          *)
LEMMA Step_Resolve ==
  ASSUME IInv, NEW t \in Threads, Resolve(t)
  PROVE  IInv'
<1>1. calls[t].at = "resolve" /\ UNCHANGED <<scene, tables, caches>>
  BY DEF Resolve
<1>2. \/ \E rest : Becomes(t, [Calling("fact_add", "old", {}) EXCEPT
                                 !.rest = rest])
      \/ Becomes(t, NoCall)
  BY DEF Resolve
<1>3. PICK call : /\ Becomes(t, call) /\ CallSound(call)
                  /\ call.touched = {} /\ call.steady = {}
  BY <1>2, RestFields, NoCallSound
<1>. QED
  BY <1>1, <1>3, QuietMoves

(* The steps of a pass between two writes.                                 *)
LEMMA PassMoves ==
  ASSUME IInv, NEW t \in Threads, NEW step,
         calls[t].at \in {"peek", "old", "new"}, step # "cold",
         \/ Becomes(t, At(calls[t], step))
         \/ Becomes(t, Rest(calls[t]))
         \/ Becomes(t, Failed(calls[t])),
         UNCHANGED <<scene, tables, caches>>
  PROVE  IInv'
<1>1. PICK old : old = calls[t]
  OBVIOUS
<1>2. CallSound(old) /\ old.op # "archive_facts" /\ old.steady = {}
  BY <1>1 DEF IInv, CallSound
<1>3. CASE Becomes(t, At(old, step))
  <2>1. PICK call : call = At(old, step)
    OBVIOUS
  <2>2. /\ CallSound(call) /\ call.touched = old.touched
        /\ call.steady = {}
    BY <1>2, <2>1, AtSound
  <2>. QED
    BY <1>1, <1>3, <2>1, <2>2, QuietMoves
<1>4. CASE Becomes(t, Rest(old))
  <2>1. PICK call : call = Rest(old)
    OBVIOUS
  <2>2. CallSound(call) /\ call.touched = {} /\ call.steady = {}
    BY <1>2, <2>1, WorkingSound DEF Rest
  <2>. QED
    BY <1>4, <2>1, <2>2, QuietMoves
<1>5. CASE Becomes(t, Failed(old))
  <2>1. PICK call : call = Failed(old)
    OBVIOUS
  <2>2. CallSound(call) /\ call.touched = {} /\ call.steady = {}
    BY <1>2, <2>1, FailedSound
  <2>. QED
    BY <1>5, <2>1, <2>2, QuietMoves
<1>. QED
  BY <1>1, <1>3, <1>4, <1>5

(* The look before a pass supersedes.                                      *)
LEMMA Step_Peek ==
  ASSUME IInv, NEW t \in Threads, Peek(t)
  PROVE  IInv'
<1>1. /\ calls[t].at = "peek" /\ UNCHANGED <<scene, tables, caches>>
      /\ Becomes(t, At(calls[t], "old")) \/ Becomes(t, Rest(calls[t]))
  BY DEF Peek
<1>. QED
  BY <1>1, PassMoves

(* The old fact is read ...                                                *)
LEMMA Step_ReadOld ==
  ASSUME IInv, NEW t \in Threads, ReadOld(t)
  PROVE  IInv'
<1>1. /\ calls[t].at = "old" /\ UNCHANGED <<scene, tables, caches>>
      /\ Becomes(t, At(calls[t], "new")) \/ Becomes(t, Failed(calls[t]))
  BY DEF ReadOld
<1>. QED
  BY <1>1, PassMoves

(* ... and the new one ...                                                 *)
LEMMA Step_ReadNew ==
  ASSUME IInv, NEW t \in Threads, ReadNew(t)
  PROVE  IInv'
<1>1. /\ calls[t].at = "new" /\ UNCHANGED <<scene, tables, caches>>
      /\ Becomes(t, At(calls[t], "write")) \/ Becomes(t, Failed(calls[t]))
  BY DEF ReadNew
<1>. QED
  BY <1>1, PassMoves

(* ... and the old one updated: its text is the same.                      *)
LEMMA Step_WriteOver ==
  ASSUME IInv, NEW t \in Threads, WriteOver(t)
  PROVE  IInv'
<1>1. /\ calls[t].at = "write"
      /\ UNCHANGED <<scene, frozen, labels, used, stray, caches>>
  BY DEF WriteOver
<1>2. PICK now : now = calls[t]
  OBVIOUS
<1>3. CallSound(now) /\ now.op # "archive_facts" /\ now.steady = {}
  BY <1>1, <1>2 DEF IInv, CallSound
<1>4. CASE Becomes(t, Failed(calls[t])) /\ UNCHANGED live
  <2>1. PICK call : call = Failed(now)
    OBVIOUS
  <2>2. CallSound(call) /\ call.touched = {} /\ call.steady = {}
    BY <1>3, <2>1, FailedSound
  <2>3. UNCHANGED <<scene, tables, caches>>
    BY <1>4 DEF WriteOver, tables
  <2>. QED
    BY <1>1, <1>2, <1>4, <2>1, <2>2, <2>3, QuietMoves
<1>5. ASSUME NEW f \in Present, NEW over,
             live' = [live EXCEPT ![f].over = over],
             Wrote(t, [now EXCEPT !.at = "forget", !.touched = {f}], {f})
      PROVE  IInv'
  <2>1. PICK old : old = live[f] /\ old # Nil /\ MemoShape(old)
                   /\ f \in MemoIds /\ f \in used
    BY <1>5 DEF Present, IInv, MemosSound
  <2>2. PICK memo : memo = [old EXCEPT !.over = over]
    OBVIOUS
  <2>3. live' = [live EXCEPT ![f] = memo]
    BY <1>5, <2>1, <2>2
  <2>4. MemoShape(memo) /\ Text(memo) = Text(old)
    BY <2>1, <2>2, MemoFields
  <2>5. UNCHANGED <<index, frozenIndex, embeds, unindexed, unembedded>>
    BY <1>1 DEF caches
  <2>6. /\ MemosSound' /\ Spares({f}) /\ live'[f] = memo
    BY <1>1, <2>1, <2>3, <2>4, <2>5, OneFactChanges
  <2>7. PICK call : call = [now EXCEPT !.at = "forget", !.touched = {f}]
    OBVIOUS
  <2>8. call = [op |-> now.op, at |-> "forget", fact |-> now.fact,
                touched |-> {f}, rest |-> now.rest, freeze |-> now.freeze,
                term |-> now.term, options |-> now.options,
                slate |-> now.slate, found |-> now.found, near |-> now.near,
                steady |-> {}]
    BY <1>3, <2>7 DEF CallSound, CallShape
  <2>9. /\ CallSound(call) /\ call.touched = {f} /\ call.steady = {}
        /\ call.at = "forget"
    BY <1>3, <2>8 DEF CallSound, CallShape
  <2>10. Announced({t}, call)
    <3>1. f \in Unmarked(call) /\ f \in Unforgotten(call)
      BY <2>9 DEF Unmarked, Unforgotten
    <3>. QED
      BY <1>1, <2>6, <3>1 DEF Announced, Spares, Same
  <2>11. Carries({t}, call)
    BY <1>1, NothingToCarry
  <2>. QED
    BY <1>5, <2>5, <2>6, <2>7, <2>9, <2>10, <2>11, ThreadWrites
<1>. QED
  BY <1>2, <1>4, <1>5 DEF WriteOver

(* consolidate_semantic, whatever pairs it makes.                          *)
LEMMA Step_ConsolidatesSemantic ==
  ASSUME IInv, NEW t \in Threads, NEW at, ConsolidatesSemantic(t, at)
  PROVE  IInv'
<1>1. PICK call, rest :
        /\ call = Calling("consolidate_semantic", "peek", {})
        /\ Becomes(t, Working(call, rest))
  BY DEF ConsolidatesSemantic
<1>2. UNCHANGED <<scene, tables, caches>> /\ calls[t].at = "idle"
  BY NoCallFields DEF ConsolidatesSemantic, Starts
<1>3. CallSound(call) /\ call.op # "archive_facts" /\ call.steady = {}
  BY <1>1, CallsFresh
<1>4. PICK next : next = Working(call, rest)
  OBVIOUS
<1>5. CallSound(next) /\ next.touched = {} /\ next.steady = {}
  BY <1>3, <1>4, WorkingSound
<1>. QED
  BY <1>1, <1>2, <1>4, <1>5, QuietMoves

(* consolidate_gac, whatever clusters it makes.                            *)
LEMMA Step_ConsolidatesGeometric ==
  ASSUME IInv, NEW t \in Threads, ConsolidatesGeometric(t)
  PROVE  IInv'
<1>1. PICK call : call = Calling("consolidate_gac", "peek", {})
  OBVIOUS
<1>2. \/ \E rest : Becomes(t, Working(call, rest))
      \/ \E ids : Becomes(t, Working([call EXCEPT !.freeze = ids], <<>>))
  BY <1>1 DEF ConsolidatesGeometric
<1>3. UNCHANGED <<scene, tables, caches>> /\ calls[t].at = "idle"
  BY NoCallFields DEF ConsolidatesGeometric, Starts
<1>4. PICK now, rest :
        /\ Becomes(t, Working(now, rest))
        /\ CallSound(now) /\ now.op # "archive_facts" /\ now.steady = {}
  <2>1. CASE \E rest : Becomes(t, Working(call, rest))
    BY <1>1, <2>1, CallsFresh
  <2>2. CASE \E ids : Becomes(t, Working([call EXCEPT !.freeze = ids], <<>>))
    BY <1>1, <2>2, RestFields
  <2>. QED
    BY <1>2, <2>1, <2>2
<1>5. PICK next : next = Working(now, rest)
  OBVIOUS
<1>6. CallSound(next) /\ next.touched = {} /\ next.steady = {}
  BY <1>4, <1>5, WorkingSound
<1>. QED
  BY <1>3, <1>4, <1>5, <1>6, QuietMoves

(* A search at its next step, with other facts in hand.                    *)
Keeps(call, next) ==
  /\ CallShape(next) /\ next.op = call.op /\ next.touched = call.touched
  /\ next.term = call.term /\ next.options = call.options
  /\ next.steady = call.steady

(* A search with other finds.                                              *)
LEMMA FoundFields ==
  ASSUME NEW call, CallShape(call), NEW found, NEW next,
         next = [call EXCEPT !.found = found]
  PROVE  /\ Keeps(call, next) /\ next.at = call.at
         /\ next.found = found /\ next.near = call.near
<1>1. next =
        [op |-> call.op, at |-> call.at, fact |-> call.fact,
         touched |-> call.touched, rest |-> call.rest,
         freeze |-> call.freeze, term |-> call.term,
         options |-> call.options, slate |-> call.slate,
         found |-> found, near |-> call.near,
         steady |-> call.steady]
  BY DEF CallShape
<1>. QED
  BY <1>1 DEF CallShape, Keeps

(* A search that ranks other finds first.                                  *)
LEMMA NearFields ==
  ASSUME NEW call, CallShape(call), NEW near, NEW next,
         next = [call EXCEPT !.near = near]
  PROVE  Keeps(call, next) /\ next.found = call.found /\ next.near = near
<1>1. next =
        [op |-> call.op, at |-> call.at, fact |-> call.fact,
         touched |-> call.touched, rest |-> call.rest,
         freeze |-> call.freeze, term |-> call.term,
         options |-> call.options, slate |-> call.slate,
         found |-> call.found, near |-> near, steady |-> call.steady]
  BY DEF CallShape
<1>. QED
  BY <1>1 DEF CallShape, Keeps

(* A search starts with the facts that nobody writes.                      *)
LEMMA Step_Searches ==
  ASSUME IInv, NEW t \in Threads, NEW term, NEW options,
         Searches(t, term, options)
  PROVE  IInv'
<1>1. PICK now, quiet :
        /\ now = Calling("search", "rank", {})
        /\ quiet = MemoIds \ (Touched \cup unindexed)
  OBVIOUS
<1>2. PICK call : call = [now EXCEPT !.term = term, !.options = options,
                                     !.steady = quiet]
  OBVIOUS
<1>3. /\ Becomes(t, call) /\ UNCHANGED <<scene, tables, caches>>
      /\ calls[t].at = "idle"
  BY <1>1, <1>2, NoCallFields DEF Searches, Starts
<1>4. CallShape(now) /\ now.op = "search" /\ now.at = "rank"
        /\ now.touched = {} /\ now.near = {}
  BY <1>1, CallingFields
<1>5. call = [op |-> "search", at |-> "rank", fact |-> now.fact,
              touched |-> {}, rest |-> now.rest, freeze |-> now.freeze,
              term |-> term, options |-> options, slate |-> now.slate,
              found |-> now.found, near |-> now.near,
              steady |-> quiet]
  <2>1. PICK one : one = [now EXCEPT !.term = term]
    OBVIOUS
  <2>2. one = [op |-> "search", at |-> "rank", fact |-> now.fact,
               touched |-> {}, rest |-> now.rest, freeze |-> now.freeze,
               term |-> term, options |-> now.options, slate |-> now.slate,
               found |-> now.found, near |-> now.near,
               steady |-> now.steady]
    BY <1>4, <2>1 DEF CallShape
  <2>3. PICK two : two = [one EXCEPT !.options = options]
    OBVIOUS
  <2>4. two = [op |-> "search", at |-> "rank", fact |-> now.fact,
               touched |-> {}, rest |-> now.rest, freeze |-> now.freeze,
               term |-> term, options |-> options, slate |-> now.slate,
               found |-> now.found, near |-> now.near,
               steady |-> now.steady]
    BY <2>2, <2>3
  <2>5. call = [two EXCEPT !.steady = quiet]
    BY <1>2, <2>1, <2>3
  <2>. QED
    BY <2>4, <2>5
<1>6. /\ CallSound(call) /\ call.touched = {} /\ call.at = "rank"
      /\ call.near = {} /\ call.steady = quiet
  BY <1>4, <1>5 DEF CallSound, CallShape
<1>7. InHand(call)
  BY <1>1, <1>6 DEF InHand, Steady, Gathers, Orders, Touched
<1>8. Carries({t}, call)
  BY <1>3, NothingToCarry
<1>. QED
  BY <1>3, <1>6, <1>7, <1>8, OneCallMoves

(* What the hot tier has found is what the search shows of the archive.    *)
LEMMA AfterHotSteady ==
  ASSUME NEW call, CallShape(call), NEW f, f \in MemoIds \ unindexed,
         \A t \in Threads : f \notin calls[t].touched,
         Hot(call, f) => f \in call.found,
         f \in call.found => Hot(call, f) \/ Alone(call, f),
         f \in call.near => Hot(call, f) \/ KeptOld(f),
         "semantic" \in call.options /\ Hot(call, f) =>
           f \in call.near \/ KeptOld(f)
  PROVE  Steady(AfterHot(call), f)
<1>1. PICK step : /\ step = IF "include_archive" \in call.options THEN "cold"
                            ELSE "answer"
                  /\ AfterHot(call) = At(call, step)
  BY DEF AfterHot
<1>2. PICK next : next = At(call, step)
  OBVIOUS
<1>3. /\ next.at = step /\ next.found = call.found /\ next.near = call.near
      /\ next.options = call.options /\ next.term = call.term
      /\ next.steady = call.steady
  BY <1>2, AtFields
<1>4. \A g : Hot(next, g) <=> Hot(call, g)
  BY <1>3 DEF Hot, Shown
<1>5. step = "answer" => ~Cold(next, f)
  BY <1>1, <1>3 DEF Cold
<1>6. step \in {"cold", "answer"}
  BY <1>1
<1>7. Alone(next, f) <=> Alone(call, f)
  BY <1>3, <1>4 DEF Alone, Shown
<1>8. Gathers(next, f)
  BY <1>3, <1>4, <1>5, <1>6, <1>7 DEF Gathers
<1>9. Orders(next, f)
  BY <1>3, <1>4, <1>6 DEF Orders
<1>10. Steady(next, f)
  BY <1>8, <1>9 DEF Steady
<1>. QED
  BY <1>1, <1>2, <1>10

(* A search whose hot tier is done is in order.                            *)
LEMMA AfterHotSound ==
  ASSUME NEW call, CallShape(call), call.op # "archive_facts"
  PROVE  LET next == AfterHot(call)
         IN  /\ CallSound(next) /\ next.touched = call.touched
             /\ next.steady = call.steady
<1>1. PICK step : /\ step = IF "include_archive" \in call.options THEN "cold"
                            ELSE "answer"
                  /\ AfterHot(call) = At(call, step)
  BY DEF AfterHot
<1>2. PICK next : next = At(call, step)
  OBVIOUS
<1>3. /\ CallShape(next) /\ next.at = step /\ next.op = call.op
      /\ next.options = call.options /\ next.touched = call.touched
      /\ next.steady = call.steady
  BY <1>2, AtFields
<1>4. step \in {"cold", "answer"}
      /\ (step = "cold" => "include_archive" \in call.options)
  BY <1>1
<1>5. CallSound(next)
  BY <1>3, <1>4 DEF CallSound
<1>. QED
  BY <1>1, <1>2, <1>3, <1>5

(* The finds are read: of the texts in the index those that are shown      *)
(* stay.                                                                   *)
LEMMA Step_Hydrate ==
  ASSUME IInv, NEW t \in Threads, Hydrate(t)
  PROVE  IInv'
<1>1. PICK now, found, mid, slate :
        /\ now = calls[t]
        /\ found = {f \in now.found : Shown(live[f], now)}
        /\ mid = [now EXCEPT !.found = found]
        /\ slate = IF found = {} THEN {f \in MemoIds : Shown(live[f], now)}
                   ELSE found
  OBVIOUS
<1>2. /\ now.at = "hydrate" /\ CallSound(now) /\ CallShape(now)
      /\ now.op # "archive_facts" /\ InHand(now)
  BY <1>1 DEF Hydrate, IInv, CallSound, InHand
<1>3. Keeps(now, mid) /\ mid.found = found /\ mid.near = now.near
  BY <1>1, <1>2, FoundFields
<1>4. CallShape(mid) /\ mid.op # "archive_facts"
  BY <1>2, <1>3 DEF Keeps
<1>5. ASSUME NEW f \in now.steady
      PROVE  /\ f \in MemoIds \ unindexed
             /\ \A u \in Threads : f \notin calls[u].touched
             /\ f \in found <=> Hot(mid, f)
             /\ f \notin mid.near
  <2>1. /\ f \in MemoIds \ unindexed
        /\ \A u \in Threads : f \notin calls[u].touched
        /\ Gathers(now, f) /\ Orders(now, f)
    BY <1>2, <1>5 DEF InHand, Steady
  <2>2. f \in now.found <=> live[f] # Nil /\ Holds(TextOf(f), now.term)
    BY <1>2, <2>1 DEF Gathers
  <2>3. f \in found <=> Hot(mid, f)
    BY <1>1, <1>3, <2>2 DEF Hot, Shown, Keeps
  <2>4. f \notin mid.near
    BY <1>2, <1>3, <2>1 DEF Orders
  <2>. QED
    BY <2>1, <2>3, <2>4
<1>6. UNCHANGED <<scene, tables, caches>>
  BY DEF Hydrate
<1>7. ASSUME Becomes(t, AfterHot(mid)), "semantic" \notin now.options
      PROVE  IInv'
  <2>1. PICK call : call = AfterHot(mid)
    OBVIOUS
  <2>2. /\ CallSound(call) /\ call.touched = now.touched
        /\ call.steady = now.steady
    BY <1>3, <1>4, <2>1, AfterHotSound DEF Keeps
  <2>3. "semantic" \notin mid.options
    BY <1>3, <1>7 DEF Keeps
  <2>4. InHand(call)
    BY <1>3, <1>4, <1>5, <2>1, <2>2, <2>3, AfterHotSteady DEF InHand
  <2>5. Carries({t}, call)
    BY <1>1, <1>2, NothingToCarry
  <2>. QED
    BY <1>1, <1>6, <1>7, <2>1, <2>2, <2>4, <2>5, OneCallMoves
<1>8. ASSUME Becomes(t, [mid EXCEPT !.at = "embed", !.slate = slate]),
             "semantic" \in now.options
      PROVE  IInv'
  <2>1. PICK call : call = [mid EXCEPT !.at = "embed", !.slate = slate]
    OBVIOUS
  <2>2. /\ Keeps(mid, call) /\ call.at = "embed" /\ call.found = found
        /\ call.slate = slate
    <3>1. call =
            [op |-> mid.op, at |-> "embed", fact |-> mid.fact,
             touched |-> mid.touched, rest |-> mid.rest,
             freeze |-> mid.freeze, term |-> mid.term,
             options |-> mid.options, slate |-> slate,
             found |-> mid.found, near |-> mid.near,
             steady |-> mid.steady]
      BY <1>4, <2>1 DEF CallShape
    <3>. QED
      BY <1>3, <3>1 DEF CallShape, Keeps
  <2>3. CallSound(call)
    BY <1>4, <2>2 DEF CallSound, Keeps
  <2>4. ASSUME NEW f \in call.steady
        PROVE  Steady(call, f)
    <3>1. /\ f \in MemoIds \ unindexed
          /\ \A u \in Threads : f \notin calls[u].touched
          /\ f \in found <=> Hot(mid, f)
      BY <1>3, <1>5, <2>2, <2>4 DEF Keeps
    <3>2. Hot(call, f) <=> Hot(mid, f)
      BY <2>2 DEF Hot, Shown, Keeps
    <3>3. Gathers(call, f)
      BY <2>2, <3>1, <3>2 DEF Gathers
    <3>4. /\ "semantic" \in call.options
          /\ Hot(call, f) => f \in call.slate
          /\ call.found = {} \/ call.slate \subseteq call.found
      BY <1>1, <1>3, <1>8, <2>2, <3>1, <3>2 DEF Keeps
    <3>5. Orders(call, f)
      BY <2>2, <3>4 DEF Orders
    <3>. QED
      BY <3>1, <3>3, <3>5 DEF Steady
  <2>5. InHand(call)
    BY <2>4 DEF InHand
  <2>6. Carries({t}, call)
    BY <1>1, <1>2, NothingToCarry
  <2>7. call.touched \subseteq calls[t].touched
    BY <1>1, <1>3, <2>2 DEF Keeps
  <2>. QED
    BY <1>6, <1>8, <2>1, <2>3, <2>5, <2>6, <2>7, OneCallMoves
<1>9. IF "semantic" \notin now.options THEN Becomes(t, AfterHot(mid))
      ELSE Becomes(t, [mid EXCEPT !.at = "embed", !.slate = slate])
  <2>1. /\ mid = [calls[t] EXCEPT
                    !.found = {f \in @ : Shown(live[f], calls[t])}]
        /\ mid.options = now.options
    BY <1>1, <1>2, <1>3 DEF CallShape, Keeps
  <2>2. slate = IF mid.found = {}
                THEN {f \in MemoIds : Shown(live[f], calls[t])}
                ELSE mid.found
    BY <1>1, <1>3
  <2>. QED
    BY <2>1, <2>2 DEF Hydrate
<1>. QED
  BY <1>7, <1>8, <1>9

(* The slate is scored and found: what is near of it has an embedding      *)
(* that is its fact's, or was kept.                                        *)
LEMMA Step_Score ==
  ASSUME IInv, NEW t \in Threads, Score(t)
  PROVE  IInv'
<1>1. PICK now, scored, found, first :
        /\ now = calls[t]
        /\ scored = {f \in now.slate : embeds[f] # Nil}
        /\ found = now.found \cup scored
        /\ first = scored \cap Hits(embeds, now.term)
  OBVIOUS
<1>2. /\ now.at = "score" /\ CallSound(now) /\ CallShape(now)
      /\ now.op # "archive_facts" /\ InHand(now)
  BY <1>1 DEF Score, IInv, CallSound, InHand
<1>3. PICK late, mid : /\ late = [now EXCEPT !.found = found]
                       /\ mid = [late EXCEPT !.near = first]
  OBVIOUS
<1>4. Keeps(now, mid) /\ mid.found = found /\ mid.near = first
  <2>1. Keeps(now, late) /\ late.found = found
    BY <1>2, <1>3, FoundFields
  <2>2. CallShape(late)
    BY <2>1 DEF Keeps
  <2>3. Keeps(late, mid) /\ mid.found = late.found /\ mid.near = first
    <3>1. mid = [late EXCEPT !.near = first]
      BY <1>3
    <3>2. Keeps(late, mid)
      BY <2>2, <3>1, NearFields
    <3>3. mid.found = late.found /\ mid.near = first
      BY <2>2, <3>1, NearFields
    <3>. QED
      BY <3>2, <3>3
  <2>. QED
    BY <2>1, <2>3 DEF Keeps
<1>5. CallShape(mid) /\ mid.op # "archive_facts"
  BY <1>2, <1>4 DEF Keeps
<1>6. \A g : Hot(mid, g) <=> Hot(now, g)
  BY <1>4 DEF Hot, Shown, Keeps
<1>7. ASSUME NEW f \in now.steady
      PROVE  /\ f \in MemoIds \ unindexed
             /\ \A u \in Threads : f \notin calls[u].touched
             /\ f \in now.found <=> Hot(now, f)
             /\ "semantic" \in now.options
             /\ Hot(now, f) => f \in now.slate
             /\ now.found = {} \/ now.slate \subseteq now.found
             /\ f \in now.slate => Shown(live[f], now) /\ embeds[f] # Nil
  BY <1>2, <1>7 DEF InHand, Steady, Gathers, Orders
<1>8. ASSUME NEW f \in now.steady
      PROVE  /\ Hot(mid, f) => f \in found
             /\ f \in found => Hot(mid, f) \/ Alone(mid, f)
  <2>1. CASE now.found = {}
    <3>1. \A g \in now.steady : ~Hot(now, g)
      BY <1>7, <2>1
    <3>2. f \in found => Shown(live[f], now)
      BY <1>1, <1>7, <1>8, <2>1
    <3>. QED
      BY <1>4, <1>6, <1>7, <1>8, <3>1, <3>2 DEF Alone, Shown, Keeps
  <2>2. CASE now.slate \subseteq now.found
    BY <1>1, <1>6, <1>7, <1>8, <2>2
  <2>. QED
    BY <1>7, <1>8, <2>1, <2>2
<1>9. ASSUME NEW f \in now.steady
      PROVE  /\ f \in first => Hot(mid, f) \/ KeptOld(f)
             /\ Hot(mid, f) => f \in first \/ KeptOld(f)
  <2>1. f \in MemoIds
    BY <1>7, <1>9
  <2>2. ASSUME f \in scored
        PROVE  f \in first \/ KeptOld(f) <=> Hot(now, f) \/ KeptOld(f)
    <3>1. /\ embeds[f] # Nil /\ Shown(live[f], now) /\ live[f] # Nil
      BY <1>1, <1>7, <1>9, <2>2 DEF Shown
    <3>2. \A u \in Threads : f \notin Unforgotten(calls[u])
      BY <1>7, <1>9 DEF Unforgotten
    <3>3. KeptOld(f) \/ embeds[f] = TextOf(f)
      BY <2>1, <3>1, <3>2 DEF IInv, EmbedsSound, KeptOld
    <3>4. f \in first <=> Holds(embeds[f], now.term)
      BY <1>1, <2>1, <2>2, <3>1 DEF Hits
    <3>. QED
      BY <3>1, <3>3, <3>4 DEF Hot
  <2>3. f \in first \/ Hot(now, f) => f \in scored
    BY <1>1, <1>7, <1>9
  <2>. QED
    BY <1>6, <2>2, <2>3
<1>10. UNCHANGED <<scene, tables, caches>> /\ Becomes(t, AfterHot(mid))
  <2>1. mid = [calls[t] EXCEPT !.found = @ \cup scored, !.near = first]
    BY <1>1, <1>2, <1>3 DEF CallShape
  <2>. QED
    BY <1>1, <2>1 DEF Score
<1>11. PICK call : call = AfterHot(mid)
  OBVIOUS
<1>12. /\ CallSound(call) /\ call.touched = now.touched
       /\ call.steady = now.steady
  BY <1>4, <1>5, <1>11, AfterHotSound DEF Keeps
<1>13. ASSUME NEW f \in now.steady
       PROVE  Steady(AfterHot(mid), f)
  BY <1>4, <1>5, <1>7, <1>8, <1>9, <1>13, AfterHotSteady
<1>14. InHand(call)
  BY <1>11, <1>12, <1>13 DEF InHand
<1>15. Carries({t}, call)
  BY <1>1, <1>2, NothingToCarry
<1>. QED
  BY <1>1, <1>10, <1>11, <1>12, <1>14, <1>15, OneCallMoves

(* The answer is given.                                                    *)
LEMMA Step_Answer ==
  ASSUME IInv, NEW t \in Threads, Answer(t)
  PROVE  IInv'
<1>1. /\ calls[t].at = "answer" /\ UNCHANGED <<scene, tables, caches>>
      /\ Becomes(t, NoCall)
  BY DEF Answer
<1>2. PICK call : call = NoCall
  OBVIOUS
<1>. QED
  BY <1>1, <1>2, NoCallSound, QuietMoves

(* A step of one call that changes no fact, and the caches as it goes.     *)
LEMMA CachesMove ==
  ASSUME IInv, NEW t \in Threads, NEW call, Becomes(t, call),
         UNCHANGED <<scene, tables>>, CallSound(call),
         call.touched \subseteq calls[t].touched,
         unindexed' \subseteq unindexed,
         \A f \in MemoIds : embeds'[f] # Nil => f \in used,
         \A f \in MemoIds :
           (\A u \in Threads : f \notin calls[u].touched)
           => /\ KeptOld(f) => KeptOld(f)'
              /\ embeds[f] # Nil => embeds'[f] # Nil,
         InHand(call)'
  PROVE  /\ MemosSound'
         /\ DOMAIN calls' = Threads
         /\ calls'[t] = call
         /\ \A u \in Threads \ {t} : calls'[u] = calls[u]
         /\ CallsSound'
<1>1. UNCHANGED <<scene, live, frozen, labels, used, stray>>
  BY DEF tables
<1>2. MemosSound'
  BY <1>1 DEF IInv, MemosSound, MemoShape
<1>3. Moved({t}, call, {})
  BY BecomesMoves
<1>4. PICK mine, written :
        /\ mine \in SUBSET Threads /\ mine = {t} /\ written = {}
        /\ Moved(mine, call, written)
  BY <1>3
<1>5. Undisturbed(written)
  <2>1. ASSUME NEW f \in MemoIds,
               \A u \in Threads : f \notin calls[u].touched
        PROVE  Same(f)
    BY <1>1, <2>1 DEF Same, TextOf, Text
  <2>. QED
    BY <2>1 DEF Undisturbed
<1>6. mine # {} => CallSound(call)
  BY <1>4
<1>7. \A u \in mine : call.touched \subseteq calls[u].touched \cup written
  BY <1>4
<1>9. CallsSound'
  BY <1>4, <1>5, <1>6, <1>7, CallsKept
<1>10. /\ DOMAIN calls' = Threads /\ calls'[t] = call
       /\ \A u \in Threads \ {t} : calls'[u] = calls[u]
  BY DEF Becomes, IInv
<1>. QED
  BY <1>2, <1>9, <1>10

(* The embeddings are dropped: what a call has not dropped yet is still    *)
(* touched, and of the rest nothing changed.                               *)
LEMMA Step_Forget ==
  ASSUME IInv, NEW t \in Threads, Forget(t)
  PROVE  IInv'
<1>1. PICK now, call : now = calls[t] /\ call = At(now, "mark")
  OBVIOUS
<1>2. /\ CallSound(now) /\ CallShape(now) /\ now.at = "forget"
      /\ now.op # "archive_facts" /\ now.steady = {}
  BY <1>1 DEF Forget, IInv, CallSound
<1>3. /\ CallSound(call) /\ call.touched = now.touched /\ call.steady = {}
      /\ call.at = "mark" /\ call.op = now.op
  BY <1>1, <1>2, AtFields, AtSound
<1>4. /\ Becomes(t, call) /\ UNCHANGED <<scene, tables>>
      /\ UNCHANGED <<index, frozenIndex, unindexed>>
      /\ unembedded' = unembedded \ now.touched
      /\ \A f \in MemoIds : embeds'[f] = IF f \in now.touched THEN Nil
                                         ELSE embeds[f]
  BY <1>1 DEF Forget
<1>5. UNCHANGED <<scene, live, frozen, labels, used, stray>>
  BY <1>4 DEF tables
<1>6. /\ MemosSound' /\ DOMAIN calls' = Threads /\ calls'[t] = call
      /\ \A u \in Threads \ {t} : calls'[u] = calls[u]
      /\ CallsSound'
  <2>1. \A f \in MemoIds : embeds'[f] # Nil => f \in used
    BY <1>4 DEF IInv, MemosSound
  <2>2. \A f \in MemoIds :
          (\A u \in Threads : f \notin calls[u].touched)
          => /\ KeptOld(f) => KeptOld(f)'
             /\ embeds[f] # Nil => embeds'[f] # Nil
    BY <1>1, <1>4 DEF KeptOld
  <2>3. /\ call.touched \subseteq calls[t].touched
        /\ InHand(call)'
        /\ unindexed' \subseteq unindexed
    BY <1>1, <1>3, <1>4 DEF InHand
  <2>. QED
    BY <1>3, <1>4, <2>1, <2>2, <2>3, CachesMove
<1>7. \A f \in MemoIds :
        TextOf(f)' = TextOf(f) /\ FrozenTextOf(f)' = FrozenTextOf(f)
  BY <1>5 DEF TextOf, FrozenTextOf, Text
<1>8. \A u \in Threads : /\ Unmarked(calls[u]) \subseteq Unmarked(calls'[u])
                         /\ Freezing(calls[u]) \subseteq Freezing(calls'[u])
  BY <1>1, <1>2, <1>3, <1>6 DEF Unmarked, Freezing
<1>9. IndexSound'
  BY <1>4, <1>7, <1>8 DEF IInv, IndexSound
<1>10. FrozenIndexSound'
  BY <1>4, <1>5, <1>7, <1>8 DEF IInv, FrozenIndexSound
<1>11. ASSUME NEW f \in MemoIds \ unembedded', embeds'[f] # Nil
       PROVE  \/ \E u \in Threads : f \in Unforgotten(calls'[u])
              \/ embeds'[f] = TextOf(f)'
              \/ live'[f] = Nil /\ frozen'[f] # Nil
  <2>1. f \notin now.touched /\ embeds'[f] = embeds[f] /\ f \notin unembedded
    BY <1>4, <1>11
  <2>2. f \notin Unforgotten(calls[t])
    BY <1>1, <2>1 DEF Unforgotten
  <2>. QED
    BY <1>5, <1>6, <1>7, <1>11, <2>1, <2>2 DEF IInv, EmbedsSound
<1>12. EmbedsSound'
  BY <1>11 DEF EmbedsSound
<1>13. IndexShape(index)' /\ IndexShape(frozenIndex)'
  BY <1>4 DEF IInv, IndexShape
<1>. QED
  BY <1>6, <1>9, <1>10, <1>12, <1>13 DEF IInv, CallsSound, InHand

(* What a call goes on with has nothing to mark in the hot tier's index,   *)
(* and an archiving has yet to mark the archive's.                         *)
LEMMA OnwardSound ==
  ASSUME NEW call, CallSound(call), call.at = "mark"
  PROVE  LET next == Onward(call)
         IN  /\ CallSound(next) /\ next.touched \subseteq call.touched
             /\ next.steady = {}
             /\ call.op = "archive_facts" =>
                  next.op = call.op /\ next.touched = call.touched
<1>1. CallShape(call) /\ call.steady = {}
  BY DEF CallSound
<1>2. PICK next : next = Onward(call)
  OBVIOUS
<1>3. CASE call.op = "archive_facts"
  <2>1. next = At(call, "mark_frozen")
    BY <1>2, <1>3 DEF Onward
  <2>2. /\ CallShape(next) /\ next.op = call.op /\ next.at = "mark_frozen"
        /\ next.touched = call.touched /\ next.steady = call.steady
    BY <1>1, <2>1, AtFields
  <2>3. CallSound(next)
    BY <1>1, <2>2 DEF CallSound
  <2>. QED
    BY <1>1, <1>2, <2>2, <2>3
<1>4. CASE call.op # "archive_facts" /\ next = Rest(call)
  <2>1. CallSound(next) /\ next.touched = {} /\ next.steady = {}
    BY <1>1, <1>4, WorkingSound DEF Rest
  <2>. QED
    BY <1>2, <1>4, <2>1
<1>5. CASE /\ call.op # "archive_facts"
           /\ next = [call EXCEPT !.at = "resolve", !.touched = {}]
  <2>1. next = [op |-> call.op, at |-> "resolve", fact |-> call.fact,
                touched |-> {}, rest |-> call.rest,
                freeze |-> call.freeze, term |-> call.term,
                options |-> call.options, slate |-> call.slate,
                found |-> call.found, near |-> call.near,
                steady |-> call.steady]
    BY <1>1, <1>5 DEF CallShape
  <2>2. CallSound(next) /\ next.touched = {} /\ next.steady = {}
    BY <1>1, <1>5, <2>1 DEF CallSound, CallShape
  <2>. QED
    BY <1>2, <1>5, <2>2
<1>6. CASE call.op # "archive_facts" /\ next = NoCall
  BY <1>2, <1>6, NoCallSound
<1>. QED
  BY <1>2, <1>3, <1>4, <1>5, <1>6 DEF Onward

(* The index is marked, and promises nothing.                              *)
LEMMA Step_MarkDirty ==
  ASSUME IInv, NEW t \in Threads, MarkDirty(t)
  PROVE  IInv'
<1>1. PICK now, call : now = calls[t] /\ call = Onward(now)
  OBVIOUS
<1>2. CallSound(now) /\ now.at = "mark"
  BY <1>1 DEF MarkDirty, IInv
<1>3. /\ CallSound(call) /\ call.touched \subseteq now.touched
      /\ call.steady = {}
      /\ now.op = "archive_facts" =>
           call.op = now.op /\ call.touched = now.touched
  BY <1>1, <1>2, OnwardSound
<1>4. /\ Becomes(t, call) /\ UNCHANGED <<scene, tables>>
      /\ UNCHANGED <<frozenIndex, embeds, unindexed, unembedded>>
      /\ index' = [index EXCEPT !.dirty = TRUE]
  BY <1>1 DEF MarkDirty
<1>5. UNCHANGED <<scene, live, frozen, labels, used, stray>>
  BY <1>4 DEF tables
<1>6. /\ MemosSound' /\ DOMAIN calls' = Threads /\ calls'[t] = call
      /\ \A u \in Threads \ {t} : calls'[u] = calls[u]
      /\ CallsSound'
  <2>1. \A f \in MemoIds : embeds'[f] # Nil => f \in used
    BY <1>4 DEF IInv, MemosSound
  <2>2. \A f \in MemoIds :
          (\A u \in Threads : f \notin calls[u].touched)
          => /\ KeptOld(f) => KeptOld(f)'
             /\ embeds[f] # Nil => embeds'[f] # Nil
    BY <1>4 DEF KeptOld
  <2>3. /\ call.touched \subseteq calls[t].touched
        /\ InHand(call)'
        /\ unindexed' \subseteq unindexed
    BY <1>1, <1>3, <1>4 DEF InHand
  <2>. QED
    BY <1>3, <1>4, <2>1, <2>2, <2>3, CachesMove
<1>7. \A f \in MemoIds :
        TextOf(f)' = TextOf(f) /\ FrozenTextOf(f)' = FrozenTextOf(f)
  BY <1>5 DEF TextOf, FrozenTextOf, Text
<1>8. \A u \in Threads :
        /\ Freezing(calls[u]) \subseteq Freezing(calls'[u])
        /\ Unforgotten(calls[u]) \subseteq Unforgotten(calls'[u])
  BY <1>1, <1>2, <1>3, <1>6 DEF Freezing, Unforgotten
<1>9. index' = [dirty |-> TRUE, texts |-> index.texts]
  BY <1>4 DEF IInv, IndexShape
<1>10. IndexSound'
  BY <1>9 DEF IndexSound
<1>11. FrozenIndexSound'
  BY <1>4, <1>5, <1>7, <1>8 DEF IInv, FrozenIndexSound
<1>12. EmbedsSound'
  BY <1>4, <1>5, <1>7, <1>8 DEF IInv, EmbedsSound
<1>13. IndexShape(index)' /\ IndexShape(frozenIndex)'
  BY <1>4, <1>9 DEF IInv, IndexShape
<1>. QED
  BY <1>6, <1>10, <1>11, <1>12, <1>13 DEF IInv, CallsSound, InHand

(* The archive's index is marked.                                          *)
LEMMA Step_MarkFrozen ==
  ASSUME IInv, NEW t \in Threads, MarkFrozen(t)
  PROVE  IInv'
<1>1. PICK now, call : now = calls[t] /\ call = NoCall
  OBVIOUS
<1>2. CallSound(now) /\ now.at = "mark_frozen"
  BY <1>1 DEF MarkFrozen, IInv
<1>3. CallSound(call) /\ call.touched = {} /\ call.steady = {}
  BY <1>1, NoCallSound
<1>4. /\ Becomes(t, call) /\ UNCHANGED <<scene, tables>>
      /\ UNCHANGED <<index, embeds, unindexed, unembedded>>
      /\ frozenIndex' = [frozenIndex EXCEPT !.dirty = TRUE]
  BY <1>1 DEF MarkFrozen
<1>5. UNCHANGED <<scene, live, frozen, labels, used, stray>>
  BY <1>4 DEF tables
<1>6. /\ MemosSound' /\ DOMAIN calls' = Threads /\ calls'[t] = call
      /\ \A u \in Threads \ {t} : calls'[u] = calls[u]
      /\ CallsSound'
  <2>1. \A f \in MemoIds : embeds'[f] # Nil => f \in used
    BY <1>4 DEF IInv, MemosSound
  <2>2. \A f \in MemoIds :
          (\A u \in Threads : f \notin calls[u].touched)
          => /\ KeptOld(f) => KeptOld(f)'
             /\ embeds[f] # Nil => embeds'[f] # Nil
    BY <1>4 DEF KeptOld
  <2>3. /\ call.touched \subseteq calls[t].touched
        /\ InHand(call)'
        /\ unindexed' \subseteq unindexed
    BY <1>1, <1>3, <1>4 DEF InHand
  <2>. QED
    BY <1>3, <1>4, <2>1, <2>2, <2>3, CachesMove
<1>7. \A f \in MemoIds : TextOf(f)' = TextOf(f)
  BY <1>5 DEF TextOf, Text
<1>8. \A u \in Threads :
        /\ Unmarked(calls[u]) \subseteq Unmarked(calls'[u])
        /\ Unforgotten(calls[u]) \subseteq Unforgotten(calls'[u])
  BY <1>1, <1>2, <1>3, <1>6 DEF Unmarked, Unforgotten
<1>9. frozenIndex' = [dirty |-> TRUE, texts |-> frozenIndex.texts]
  BY <1>4 DEF IInv, IndexShape
<1>10. IndexSound'
  BY <1>4, <1>7, <1>8 DEF IInv, IndexSound
<1>11. FrozenIndexSound'
  BY <1>9 DEF FrozenIndexSound
<1>12. EmbedsSound'
  BY <1>4, <1>5, <1>7, <1>8 DEF IInv, EmbedsSound
<1>13. IndexShape(index)' /\ IndexShape(frozenIndex)'
  BY <1>4, <1>9 DEF IInv, IndexShape
<1>. QED
  BY <1>6, <1>10, <1>11, <1>12, <1>13 DEF IInv, CallsSound, InHand

(* The index is built or used: of a fact that nobody touches it has the    *)
(* text.                                                                   *)
LEMMA Step_Rank ==
  ASSUME IInv, NEW t \in Threads, Rank(t)
  PROVE  IInv'
<1>1. PICK now, found, call :
        /\ now = calls[t] /\ found = Hits(index'.texts, now.term)
        /\ call = [now EXCEPT !.at = "hydrate", !.found = found]
  OBVIOUS
<1>2. /\ CallSound(now) /\ CallShape(now) /\ now.at = "rank"
      /\ now.op # "archive_facts" /\ InHand(now)
  BY <1>1 DEF Rank, IInv, CallSound, InHand
<1>3. /\ Keeps(now, call) /\ call.at = "hydrate" /\ call.found = found
      /\ call.near = now.near
  <2>1. call =
          [op |-> now.op, at |-> "hydrate", fact |-> now.fact,
           touched |-> now.touched, rest |-> now.rest,
           freeze |-> now.freeze, term |-> now.term,
           options |-> now.options, slate |-> now.slate,
           found |-> found, near |-> now.near,
           steady |-> now.steady]
    BY <1>1, <1>2 DEF CallShape
  <2>. QED
    BY <2>1 DEF CallShape, Keeps
<1>4. /\ Becomes(t, call) /\ UNCHANGED <<scene, tables>>
      /\ UNCHANGED <<frozenIndex, embeds, unembedded>>
      /\ index' = IF index.dirty THEN Rebuilt ELSE index
      /\ unindexed' = IF index.dirty THEN {} ELSE unindexed
  BY <1>1 DEF Rank
<1>5. UNCHANGED <<scene, live, frozen, labels, used, stray>>
  BY <1>4 DEF tables
<1>6. \A f \in MemoIds :
        /\ TextOf(f)' = TextOf(f) /\ FrozenTextOf(f)' = FrozenTextOf(f)
        /\ Rebuilt.texts[f] = TextOf(f)
  BY <1>5, RebuiltIsText DEF TextOf, FrozenTextOf, Text
<1>7. CallSound(call)
  BY <1>2, <1>3 DEF CallSound, Keeps
<1>8. ASSUME NEW f \in MemoIds \ unindexed,
             \A u \in Threads : f \notin calls[u].touched
      PROVE  f \in found <=> live[f] # Nil /\ Holds(TextOf(f), now.term)
  <2>1. \A u \in Threads : f \notin Unmarked(calls[u])
    BY <1>8 DEF Unmarked
  <2>2. index'.texts[f] = TextOf(f)
    BY <1>4, <1>6, <1>8, <2>1 DEF IInv, IndexSound
  <2>3. TextOf(f) # Nil <=> live[f] # Nil
    BY TextsArePresent DEF IInv, TextOf
  <2>. QED
    BY <1>1, <2>2, <2>3 DEF Hits
<1>9. InHand(call)'
  <2>1. ASSUME NEW f \in call.steady
        PROVE  Steady(call, f)'
    <3>1. /\ f \in MemoIds \ unindexed
          /\ \A u \in Threads : f \notin calls[u].touched
          /\ Orders(now, f)
      BY <1>2, <1>3, <2>1 DEF Keeps, InHand, Steady
    <3>2. \A u \in Threads : f \notin calls'[u].touched
      BY <1>1, <1>3, <1>4, <3>1 DEF Keeps, Becomes, IInv
    <3>3. f \in MemoIds \ unindexed'
      BY <1>4, <3>1
    <3>4. f \in call.found
            <=> live'[f] # Nil /\ Holds(TextOf(f)', call.term)
      BY <1>3, <1>5, <1>6, <1>8, <3>1 DEF Keeps
    <3>5. Gathers(call, f)'
      BY <1>3, <3>4 DEF Gathers
    <3>6. f \notin call.near
      BY <1>2, <1>3, <3>1 DEF Orders
    <3>7. Orders(call, f)'
      BY <1>3, <3>6 DEF Orders
    <3>. QED
      BY <3>2, <3>3, <3>5, <3>7 DEF Steady
  <2>. QED
    BY <2>1 DEF InHand
<1>10. /\ MemosSound' /\ DOMAIN calls' = Threads /\ calls'[t] = call
       /\ \A u \in Threads \ {t} : calls'[u] = calls[u]
       /\ CallsSound'
  <2>1. \A f \in MemoIds : embeds'[f] # Nil => f \in used
    BY <1>4 DEF IInv, MemosSound
  <2>2. \A f \in MemoIds :
          (\A u \in Threads : f \notin calls[u].touched)
          => /\ KeptOld(f) => KeptOld(f)'
             /\ embeds[f] # Nil => embeds'[f] # Nil
    BY <1>4 DEF KeptOld
  <2>3. /\ call.touched \subseteq calls[t].touched
        /\ unindexed' \subseteq unindexed
    BY <1>1, <1>3, <1>4 DEF Keeps
  <2>. QED
    BY <1>4, <1>7, <1>9, <2>1, <2>2, <2>3, CachesMove
<1>11. \A u \in Threads :
         /\ Unmarked(calls[u]) \subseteq Unmarked(calls'[u])
         /\ Unforgotten(calls[u]) \subseteq Unforgotten(calls'[u])
         /\ Freezing(calls[u]) \subseteq Freezing(calls'[u])
  BY <1>1, <1>2, <1>10 DEF Unmarked, Unforgotten, Freezing
<1>12. IndexSound'
  <2>1. CASE index.dirty
    BY <1>4, <1>6, <2>1 DEF IndexSound
  <2>2. CASE ~index.dirty
    BY <1>4, <1>6, <1>11, <2>2 DEF IInv, IndexSound
  <2>. QED
    BY <2>1, <2>2
<1>13. FrozenIndexSound'
  BY <1>4, <1>5, <1>6, <1>11 DEF IInv, FrozenIndexSound
<1>14. EmbedsSound'
  BY <1>4, <1>5, <1>6, <1>11 DEF IInv, EmbedsSound
<1>15. IndexShape(index)' /\ IndexShape(frozenIndex)'
  BY <1>4 DEF IInv, IndexShape, Rebuilt
<1>. QED
  BY <1>10, <1>12, <1>13, <1>14, <1>15 DEF IInv, CallsSound, InHand

(* Embeddings that are missing are made.                                   *)
LEMMA Step_Embed ==
  ASSUME IInv, NEW t \in Threads, Embed(t)
  PROVE  IInv'
<1>1. PICK now, slate, missing, call :
        /\ now = calls[t]
        /\ slate = {f \in now.slate : Shown(live[f], now)}
        /\ missing = {f \in slate : embeds[f] = Nil}
        /\ call = [now EXCEPT !.at = "score", !.slate = slate]
  OBVIOUS
<1>2. /\ CallSound(now) /\ CallShape(now) /\ now.at = "embed"
      /\ now.op # "archive_facts" /\ InHand(now)
  BY <1>1 DEF Embed, IInv, CallSound, InHand
<1>3. /\ Keeps(now, call) /\ call.at = "score" /\ call.found = now.found
      /\ call.slate = slate
  <2>1. call =
          [op |-> now.op, at |-> "score", fact |-> now.fact,
           touched |-> now.touched, rest |-> now.rest,
           freeze |-> now.freeze, term |-> now.term,
           options |-> now.options, slate |-> slate,
           found |-> now.found, near |-> now.near,
           steady |-> now.steady]
    BY <1>1, <1>2 DEF CallShape
  <2>. QED
    BY <2>1 DEF CallShape, Keeps
<1>4. /\ Becomes(t, call) /\ UNCHANGED <<scene, tables>>
      /\ UNCHANGED <<index, frozenIndex, unindexed>>
      /\ unembedded' = unembedded \ missing
      /\ \A f \in MemoIds : embeds'[f] = IF f \in missing THEN Text(live[f])
                                         ELSE embeds[f]
  BY <1>1 DEF Embed
<1>5. UNCHANGED <<scene, live, frozen, labels, used, stray>>
  BY <1>4 DEF tables
<1>6. \A f \in MemoIds :
        TextOf(f)' = TextOf(f) /\ FrozenTextOf(f)' = FrozenTextOf(f)
  BY <1>5 DEF TextOf, FrozenTextOf, Text
<1>7. CallSound(call)
  BY <1>2, <1>3 DEF CallSound, Keeps
<1>8. InHand(call)'
  <2>1. ASSUME NEW f \in call.steady
        PROVE  Steady(call, f)'
    <3>1. Steady(now, f)
      BY <1>2, <1>3, <2>1 DEF Keeps, InHand
    <3>2. /\ f \in MemoIds \ unindexed
          /\ \A u \in Threads : f \notin calls[u].touched
          /\ f \in now.found <=> Hot(now, f)
          /\ "semantic" \in now.options
          /\ Hot(now, f) => f \in now.slate
          /\ now.found = {} \/ now.slate \subseteq now.found
      BY <1>2, <3>1 DEF Steady, Gathers, Orders
    <3>3. \A u \in Threads : f \notin calls'[u].touched
      BY <1>1, <1>3, <1>4, <3>2 DEF Keeps, Becomes, IInv
    <3>4. Hot(call, f)' <=> Hot(now, f)
      BY <1>3, <1>5, <1>6, <3>2 DEF Keeps, Hot, Shown
    <3>5. f \in slate => Shown(live'[f], call) /\ embeds'[f] # Nil
      <4>1. f \in slate => Shown(live'[f], call) /\ live[f] # Nil
        BY <1>1, <1>3, <1>5 DEF Keeps, Shown
      <4>2. live[f] # Nil => Text(live[f]) # Nil
        BY <3>2, TextsArePresent DEF IInv, TextOf
      <4>. QED
        BY <1>1, <1>4, <3>2, <4>1, <4>2
    <3>6. /\ "semantic" \in call.options
          /\ Hot(now, f) => f \in call.slate
          /\ call.found = {} \/ call.slate \subseteq call.found
      BY <1>1, <1>3, <3>2 DEF Keeps, Hot
    <3>7. Gathers(call, f)'
      BY <1>3, <3>2, <3>4 DEF Gathers
    <3>8. Orders(call, f)'
      BY <1>3, <3>4, <3>5, <3>6 DEF Orders
    <3>. QED
      BY <1>4, <3>2, <3>3, <3>7, <3>8 DEF Steady
  <2>. QED
    BY <2>1 DEF InHand
<1>9. \A f \in missing : live[f] # Nil
  BY <1>1 DEF Shown
<1>10. /\ MemosSound' /\ DOMAIN calls' = Threads /\ calls'[t] = call
       /\ \A u \in Threads \ {t} : calls'[u] = calls[u]
       /\ CallsSound'
  <2>1. \A f \in MemoIds : embeds'[f] # Nil => f \in used
    BY <1>4, <1>9 DEF IInv, MemosSound
  <2>2. \A f \in MemoIds :
          (\A u \in Threads : f \notin calls[u].touched)
          => /\ KeptOld(f) => KeptOld(f)'
             /\ embeds[f] # Nil => embeds'[f] # Nil
    BY <1>1, <1>4 DEF KeptOld
  <2>3. /\ call.touched \subseteq calls[t].touched
        /\ unindexed' \subseteq unindexed
    BY <1>1, <1>3, <1>4 DEF Keeps
  <2>. QED
    BY <1>4, <1>7, <1>8, <2>1, <2>2, <2>3, CachesMove
<1>11. \A u \in Threads :
         /\ Unmarked(calls[u]) \subseteq Unmarked(calls'[u])
         /\ Unforgotten(calls[u]) \subseteq Unforgotten(calls'[u])
         /\ Freezing(calls[u]) \subseteq Freezing(calls'[u])
  BY <1>1, <1>2, <1>10 DEF Unmarked, Unforgotten, Freezing
<1>12. IndexSound'
  BY <1>4, <1>6, <1>11 DEF IInv, IndexSound
<1>13. FrozenIndexSound'
  BY <1>4, <1>5, <1>6, <1>11 DEF IInv, FrozenIndexSound
<1>14. ASSUME NEW f \in MemoIds \ unembedded', embeds'[f] # Nil
       PROVE  \/ \E u \in Threads : f \in Unforgotten(calls'[u])
              \/ embeds'[f] = TextOf(f)'
              \/ live'[f] = Nil /\ frozen'[f] # Nil
  <2>1. CASE f \in missing
    BY <1>4, <1>6, <1>9, <2>1 DEF TextOf
  <2>2. CASE f \notin missing
    <3>1. embeds[f] # Nil /\ f \notin unembedded /\ embeds'[f] = embeds[f]
      BY <1>4, <1>14, <2>2
    <3>. QED
      BY <1>5, <1>6, <1>11, <3>1 DEF IInv, EmbedsSound
  <2>. QED
    BY <2>1, <2>2
<1>15. EmbedsSound'
  BY <1>14 DEF EmbedsSound
<1>16. IndexShape(index)' /\ IndexShape(frozenIndex)'
  BY <1>4 DEF IInv, IndexShape
<1>. QED
  BY <1>10, <1>12, <1>13, <1>15, <1>16 DEF IInv, CallsSound, InHand

(* The archive's index is built or used.                                   *)
LEMMA Step_SearchArchive ==
  ASSUME IInv, NEW t \in Threads, SearchArchive(t)
  PROVE  IInv'
<1>1. PICK now, texts :
        /\ now = calls[t]
        /\ texts = IF frozenIndex.dirty
                   THEN [f \in MemoIds |-> IF frozen[f] = Nil THEN Nil
                                           ELSE FrozenText(frozen[f])]
                   ELSE frozenIndex.texts
  OBVIOUS
<1>2. PICK found, call :
        /\ found = now.found \cup {f \in Hits(texts, now.term) :
                                     Shown(frozen[f], now)}
        /\ call = [now EXCEPT !.at = "answer", !.found = found]
  OBVIOUS
<1>3. /\ CallSound(now) /\ CallShape(now) /\ now.at = "cold"
      /\ now.op # "archive_facts" /\ InHand(now)
      /\ "include_archive" \in now.options
  BY <1>1 DEF SearchArchive, IInv, CallSound, InHand
<1>4. /\ Keeps(now, call) /\ call.at = "answer" /\ call.found = found
      /\ call.near = now.near
  <2>1. call =
          [op |-> now.op, at |-> "answer", fact |-> now.fact,
           touched |-> now.touched, rest |-> now.rest,
           freeze |-> now.freeze, term |-> now.term,
           options |-> now.options, slate |-> now.slate,
           found |-> found, near |-> now.near,
           steady |-> now.steady]
    BY <1>2, <1>3 DEF CallShape
  <2>. QED
    BY <2>1 DEF CallShape, Keeps
<1>5. /\ UNCHANGED <<scene, tables>>
      /\ UNCHANGED <<index, embeds, unindexed, unembedded>>
      /\ frozenIndex' = [dirty |-> FALSE, texts |-> texts]
  BY <1>1 DEF SearchArchive
<1>6. Becomes(t, call)
  <2>1. call = [now EXCEPT !.at = "answer",
                           !.found = now.found
                             \cup {f \in Hits(texts, now.term) :
                                     Shown(frozen[f], now)}]
    BY <1>2
  <2>. QED
    BY <1>1, <1>3, <2>1 DEF SearchArchive, CallShape
<1>7. UNCHANGED <<scene, live, frozen, labels, used, stray>>
  BY <1>5 DEF tables
<1>8. \A f \in MemoIds :
        TextOf(f)' = TextOf(f) /\ FrozenTextOf(f)' = FrozenTextOf(f)
  BY <1>7 DEF TextOf, FrozenTextOf, Text
<1>9. CallSound(call)
  BY <1>3, <1>4 DEF CallSound, Keeps
<1>10. ASSUME NEW f \in MemoIds \ stray,
              \A u \in Threads : f \notin Freezing(calls[u])
       PROVE  texts[f] = FrozenTextOf(f)
  BY <1>1, <1>10 DEF IInv, FrozenIndexSound, FrozenTextOf
<1>11. InHand(call)'
  <2>1. ASSUME NEW f \in call.steady
        PROVE  Steady(call, f)'
    <3>1. Steady(now, f)
      BY <1>3, <1>4, <2>1 DEF Keeps, InHand
    <3>2. /\ f \in MemoIds \ unindexed
          /\ \A u \in Threads : f \notin calls[u].touched
          /\ Hot(now, f) => f \in now.found
          /\ f \in now.found => Hot(now, f) \/ Alone(now, f)
          /\ f \in now.near => Hot(now, f) \/ KeptOld(f)
          /\ "semantic" \in now.options /\ Hot(now, f) =>
               f \in now.near \/ KeptOld(f)
      BY <1>3, <3>1 DEF Steady, Gathers, Orders
    <3>3. \A u \in Threads : f \notin calls'[u].touched
      BY <1>1, <1>4, <1>6, <3>2 DEF Keeps, Becomes, IInv
    <3>4. /\ Cold(call, f)' <=> Cold(now, f)
          /\ KeptOld(f)' <=> KeptOld(f)
      BY <1>4, <1>5, <1>7, <1>8, <3>2 DEF Keeps, Cold, Shown, KeptOld
    <3>5. \A g \in now.steady : Hot(call, g)' <=> Hot(now, g)
      <4>1. \A g \in now.steady : g \in MemoIds
        BY <1>3 DEF InHand, Steady
      <4>. QED
        BY <1>4, <1>7, <1>8, <4>1 DEF Keeps, Hot, Shown
    <3>6. Hot(call, f)' <=> Hot(now, f)
      BY <1>4, <2>1, <3>5 DEF Keeps
    <3>7. Alone(now, f) => Alone(call, f)'
      BY <1>4, <1>7, <3>5 DEF Keeps, Alone, Shown
    <3>8. ASSUME f \notin stray
          PROVE  /\ Hot(now, f) \/ Cold(now, f) => f \in found
                 /\ f \in found =>
                      Hot(now, f) \/ Cold(now, f) \/ Alone(now, f)
      <4>1. texts[f] = FrozenTextOf(f)
        BY <1>10, <3>2, <3>8 DEF Freezing
      <4>2. FrozenTextOf(f) # Nil <=> frozen[f] # Nil
        BY <3>2, TextsArePresent DEF IInv, FrozenTextOf
      <4>3. f \in Hits(texts, now.term) /\ Shown(frozen[f], now)
              <=> Cold(now, f)
        BY <1>3, <3>2, <4>1, <4>2 DEF Hits, Cold, Shown
      <4>. QED
        BY <1>2, <3>2, <4>3
    <3>9. f \in MemoIds \ unindexed' /\ (f \notin stray' => f \notin stray)
      BY <1>5, <1>7, <3>2
    <3>10. Gathers(call, f)'
      BY <1>4, <3>4, <3>6, <3>7, <3>8, <3>9 DEF Gathers
    <3>11. Orders(call, f)'
      BY <1>4, <3>2, <3>4, <3>6 DEF Orders, Keeps
    <3>. QED
      BY <3>3, <3>9, <3>10, <3>11 DEF Steady
  <2>. QED
    BY <2>1 DEF InHand
<1>12. /\ MemosSound' /\ DOMAIN calls' = Threads /\ calls'[t] = call
       /\ \A u \in Threads \ {t} : calls'[u] = calls[u]
       /\ CallsSound'
  <2>1. \A f \in MemoIds : embeds'[f] # Nil => f \in used
    BY <1>5 DEF IInv, MemosSound
  <2>2. \A f \in MemoIds :
          (\A u \in Threads : f \notin calls[u].touched)
          => /\ KeptOld(f) => KeptOld(f)'
             /\ embeds[f] # Nil => embeds'[f] # Nil
    BY <1>5 DEF KeptOld
  <2>3. /\ call.touched \subseteq calls[t].touched
        /\ unindexed' \subseteq unindexed
    BY <1>1, <1>4, <1>5 DEF Keeps
  <2>. QED
    BY <1>5, <1>6, <1>9, <1>11, <2>1, <2>2, <2>3, CachesMove
<1>13. \A u \in Threads :
         /\ Unmarked(calls[u]) \subseteq Unmarked(calls'[u])
         /\ Unforgotten(calls[u]) \subseteq Unforgotten(calls'[u])
         /\ Freezing(calls[u]) \subseteq Freezing(calls'[u])
  BY <1>1, <1>3, <1>12 DEF Unmarked, Unforgotten, Freezing
<1>14. IndexSound'
  BY <1>5, <1>8, <1>13 DEF IInv, IndexSound
<1>15. FrozenIndexSound'
  <2>1. ASSUME NEW f \in MemoIds \ stray'
        PROVE  \/ \E u \in Threads : f \in Freezing(calls'[u])
               \/ frozenIndex'.texts[f] = FrozenTextOf(f)'
    BY <1>5, <1>7, <1>8, <1>10, <1>13
  <2>. QED
    BY <2>1 DEF FrozenIndexSound
<1>16. EmbedsSound'
  BY <1>5, <1>7, <1>8, <1>13 DEF IInv, EmbedsSound
<1>17. IndexShape(index)' /\ IndexShape(frozenIndex)'
  BY <1>5 DEF IInv, IndexShape
<1>. QED
  BY <1>12, <1>14, <1>15, <1>16, <1>17 DEF IInv, CallsSound, InHand

-----------------------------------------------------------------------------

(* An empty cache and a dirty index follow any store.                      *)
LEMMA InitHolds == RecallInit => IInv
<1>. SUFFICES ASSUME RecallInit
              PROVE  IInv
  OBVIOUS
<1>1. /\ scene.start \in [MemoIds -> Memos \cup {Nil}]
      /\ scene.labels \in [EntityIds -> Names \cup {Nil}]
  BY ScenesAssumption DEF RecallInit
<1>2. \A f \in MemoIds : live[f] # Nil => MemoShape(live[f]) /\ f \in used
  BY <1>1 DEF RecallInit, Memos, MemoShape
<1>3. MemosSound
  BY <1>1, <1>2 DEF RecallInit, MemosSound
<1>4. IndexShape(index) /\ IndexShape(frozenIndex)
  BY DEF RecallInit, IndexShape
<1>5. IndexSound /\ FrozenIndexSound /\ EmbedsSound
  BY DEF RecallInit, IndexSound, FrozenIndexSound, EmbedsSound
<1>6. /\ DOMAIN calls = Threads
      /\ \A t \in Threads : CallSound(calls[t]) /\ calls[t].steady = {}
  BY NoCallSound DEF RecallInit
<1>. QED
  BY <1>3, <1>4, <1>5, <1>6 DEF IInv

(* Nothing happens.                                                        *)
LEMMA Step_Stutter ==
  ASSUME IInv, UNCHANGED recallVars
  PROVE  IInv'
<1>1. /\ UNCHANGED <<scene, live, frozen, labels, used, stray>>
      /\ UNCHANGED <<index, frozenIndex, embeds, unindexed, unembedded, calls>>
  BY DEF recallVars, tables, caches
<1>2. \A f \in MemoIds :
        TextOf(f)' = TextOf(f) /\ FrozenTextOf(f)' = FrozenTextOf(f)
  BY <1>1 DEF TextOf, FrozenTextOf, Text
<1>3. MemosSound'
  BY <1>1 DEF IInv, MemosSound, MemoShape
<1>4. IndexSound' /\ FrozenIndexSound' /\ EmbedsSound'
  BY <1>1, <1>2 DEF IInv, IndexSound, FrozenIndexSound, EmbedsSound,
                    Unmarked, Freezing, Unforgotten
<1>5. ASSUME NEW t \in Threads, NEW f \in calls[t].steady
      PROVE  Steady(calls[t], f)'
  <2>1. PICK call : call = calls[t]
    OBVIOUS
  <2>2. InHand(call) /\ \A g \in call.steady : Steady(call, g)
    BY <2>1 DEF IInv, InHand
  <2>3. ASSUME NEW g \in call.steady
        PROVE  Same(g) /\ \A u \in Threads : g \notin calls'[u].touched
    <3>1. /\ g \in MemoIds
          /\ \A u \in Threads : g \notin calls[u].touched
      BY <2>2, <2>3 DEF Steady
    <3>. QED
      BY <1>1, <1>2, <3>1 DEF Same, KeptOld
  <2>4. Steady(call, f)'
    BY <1>5, <2>1, <2>2, <2>3, SteadyKept
  <2>. QED
    BY <1>1, <2>1, <2>4
<1>6. \A t \in Threads : CallSound(calls[t])'
  BY <1>1 DEF IInv, CallSound, CallShape
<1>7. IndexShape(index)' /\ IndexShape(frozenIndex)' /\ DOMAIN calls' = Threads
  BY <1>1 DEF IInv, IndexShape
<1>. QED
  BY <1>1, <1>3, <1>4, <1>5, <1>6, <1>7 DEF IInv

(* Every step keeps the invariant.                                         *)
LEMMA NextKeeps == IInv /\ [RecallNext]_recallVars => IInv'
<1>. SUFFICES ASSUME IInv, [RecallNext]_recallVars
              PROVE  IInv'
  OBVIOUS
<1>1. CASE UNCHANGED recallVars
  BY <1>1, Step_Stutter
<1>2. ASSUME NEW f \in MemoIds, NEW content \in Phrases,
             ForeignUpdate(f, content)
      PROVE  IInv'
  BY <1>2, Step_ForeignUpdate
<1>3. ASSUME NEW f \in MemoIds, ForeignDelete(f)
      PROVE  IInv'
  BY <1>3, Step_ForeignDelete
<1>4. ASSUME NEW t \in Threads, NEW content \in Phrases,
             \/ \E on \in scene.links : FactAdds(t, content, on)
             \/ \E f \in MemoIds : FactUpdates(t, f, content)
             \/ \E f \in MemoIds : ImportsFact(t, f, content)
      PROVE  IInv'
  <2>1. ASSUME NEW on, FactAdds(t, content, on)
        PROVE  IInv'
    <3>1. AddNew(t, content, on) \/ AddKnown(t, content, on)
      BY <2>1 DEF FactAdds
    <3>. QED
      BY <2>1, <3>1, Step_AddNew, Step_AddKnown
  <2>. QED
    BY <1>4, <2>1, Step_FactUpdates, Step_ImportsFact
<1>5. ASSUME NEW t \in Threads, NEW f \in MemoIds,
             FactDeletes(t, f) \/ ArchivesFacts(t, {f})
      PROVE  IInv'
  <2>1. PICK asked : asked = {f}
    OBVIOUS
  <2>. QED
    BY <1>5, <2>1, Step_FactDeletes, Step_ArchivesFacts
<1>6. ASSUME NEW t \in Threads, NEW e \in EntityIds, NEW name \in Names,
             Renames(t, e, name)
      PROVE  IInv'
  BY <1>6, Step_Renames
<1>7. ASSUME NEW t \in Threads,
             \/ \E f, g \in used : Supersedes(t, f, g)
             \/ \E at \in Ticks : ConsolidatesSemantic(t, at)
             \/ ConsolidatesGeometric(t)
             \/ \E term \in Terms, options \in SUBSET scene.options :
                  Searches(t, term, options)
      PROVE  IInv'
  BY <1>7, Step_Supersedes, Step_ConsolidatesSemantic,
     Step_ConsolidatesGeometric, Step_Searches
<1>8. ASSUME NEW t \in Threads,
             \/ Forget(t) \/ MarkDirty(t) \/ MarkFrozen(t) \/ Resolve(t)
             \/ Peek(t) \/ ReadOld(t) \/ ReadNew(t) \/ WriteOver(t)
             \/ Freeze(t)
      PROVE  IInv'
  BY <1>8, Step_Forget, Step_MarkDirty, Step_MarkFrozen, Step_Resolve,
     Step_Peek, Step_ReadOld, Step_ReadNew, Step_WriteOver, Step_Freeze
<1>9. ASSUME NEW t \in Threads,
             \/ Rank(t) \/ Hydrate(t) \/ Embed(t) \/ Score(t)
             \/ SearchArchive(t) \/ Answer(t)
      PROVE  IInv'
  BY <1>9, Step_Rank, Step_Hydrate, Step_Embed, Step_Score,
     Step_SearchArchive, Step_Answer
<1>. QED
  BY <1>1, <1>2, <1>3, <1>4, <1>5, <1>6, <1>7, <1>8, <1>9 DEF RecallNext

(* The invariant holds in every state.                                     *)
LEMMA RecallInvariant == RecallSpec => []IInv
<1>. QED
  BY InitHolds, NextKeeps, PTL DEF RecallSpec

(* The caches follow the store: the index, unless it is dirty, and the     *)
(* cached embeddings are the texts of the facts that no call is writing    *)
(* and nobody changed without saying so.                                   *)
THEOREM CachesFollowStore == RecallSpec => []CachesFollow
<1>1. ASSUME IInv
      PROVE  CachesFollow
  <2>1. ASSUME NEW f \in MemoIds \ Touched
        PROVE  /\ ~index.dirty /\ f \notin unindexed =>
                    index.texts[f] = Rebuilt.texts[f]
               /\ embeds[f] # Nil /\ f \notin unembedded =>
                    \/ embeds[f] = Rebuilt.texts[f]
                    \/ live[f] = Nil /\ frozen[f] # Nil
    <3>1. \A t \in Threads :
            f \notin Unmarked(calls[t]) /\ f \notin Unforgotten(calls[t])
      BY <2>1 DEF Touched, Unmarked, Unforgotten
    <3>2. Rebuilt.texts[f] = TextOf(f)
      BY <2>1, RebuiltIsText
    <3>. QED
      BY <1>1, <2>1, <3>1, <3>2 DEF IInv, IndexSound, EmbedsSound
  <2>. QED
    BY <2>1 DEF CachesFollow
<1>. QED
  BY <1>1, RecallInvariant, PTL

(* Searches are true: what a search answers of a fact that nobody wrote    *)
(* while it ran is what the store says of it, in either tier: it has every *)
(* such fact that holds the term; one that does not only where a semantic  *)
(* search had no such fact to answer; and those that do are ranked first,  *)
(* but for the embeddings that were kept when their fact changed.          *)
THEOREM SearchesTellTheStore == RecallSpec => []SearchesAreTrue
<1>1. ASSUME IInv
      PROVE  SearchesAreTrue
  <2>1. ASSUME NEW t \in Threads, calls[t].at = "answer",
               NEW f \in calls[t].steady \ stray
        PROVE  LET call == calls[t]
                   semantic == "semantic" \in call.options
                   unanswered == \A g \in call.steady : ~Due(call, g)
               IN  /\ Due(call, f) \/ DueCold(call, f) => f \in call.found
                   /\ f \in call.found =>
                        \/ Due(call, f)
                        \/ DueCold(call, f)
                        \/ semantic /\ Shown(live[f], call) /\ unanswered
                   /\ f \in call.near => Due(call, f) \/ f \in unembedded
                   /\ semantic /\ Due(call, f) =>
                        f \in call.near \/ f \in unembedded
    <3>1. PICK call : call = calls[t]
      OBVIOUS
    <3>2. Steady(call, f) /\ call.at = "answer" /\ f \notin stray
      BY <1>1, <2>1, <3>1 DEF IInv
    <3>3. /\ Hot(call, f) \/ Cold(call, f) => f \in call.found
          /\ f \in call.found =>
               Hot(call, f) \/ Cold(call, f) \/ Alone(call, f)
      BY <3>2 DEF Steady, Gathers
    <3>4. /\ f \in call.near => Hot(call, f) \/ KeptOld(f)
          /\ "semantic" \in call.options /\ Hot(call, f) =>
               f \in call.near \/ KeptOld(f)
      BY <3>2 DEF Steady, Orders
    <3>5. \A g : Hot(call, g) <=> Due(call, g)
      BY DEF Hot, Due, Shown, TextOf
    <3>6. Cold(call, f) <=> DueCold(call, f)
      BY DEF Cold, DueCold, Shown, FrozenTextOf
    <3>7. Alone(call, f) => /\ "semantic" \in call.options
                            /\ Shown(live[f], call)
                            /\ \A g \in call.steady : ~Due(call, g)
      BY <3>5 DEF Alone
    <3>8. KeptOld(f) => f \in unembedded
      BY DEF KeptOld
    <3>. QED
      BY <3>1, <3>3, <3>4, <3>5, <3>6, <3>7, <3>8
  <2>. QED
    BY <2>1 DEF SearchesAreTrue
<1>. QED
  BY <1>1, RecallInvariant, PTL
=============================================================================
