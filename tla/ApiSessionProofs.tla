-------------------------- MODULE ApiSessionProofs ---------------------------
(***************************************************************************)
(* Proofs about ApiSession, for every number of clones, tokens, restarts   *)
(* and ticks of the clock.                                                 *)
(***************************************************************************)
EXTENDS ApiSession, TLAPS

USE DEF NoToken, Running

\* A request that was executed is over but for its answer.
ExecutedInv ==
    \A c \in Clones :
        /\ call[c].runs <= 1
        /\ call[c].runs = 1 => call[c].pc \in {"answered", "idle"}
        /\ call[c].pc = "idle" /\ call[c].result = "Unauthenticated" => call[c].runs = 0

\* What the TokenStore holds was issued in this life of the slave, to a client
\* that had the key, and expires a lifetime after that.
StoreInv ==
    /\ \A r \in tokens : /\ r.token \in DOMAIN issues
                         /\ r.expires = issues[r.token].at + TokenTtl
                         /\ issues[r.token].boot = restarts
    /\ DOMAIN issues # {} => keyMatches

\* A call began in the past.
SinceInv == \A c \in Clones : Running(c) => call[c].since <= now

\* The token t was issued after the call of c began and is in the store.
Live(c, t) == \E r \in tokens : r.token = t /\ r.expires >= call[c].since + TokenTtl

\* What an undisturbed call has to go on with: the token it has fetched stays
\* valid and cached until the call is over, so a second refusal cannot happen.
RefreshInv ==
    \A c \in Clones : Running(c) /\ Undisturbed(c) =>
        /\ call[c].pc = "attach" => cached # NoToken
        /\ call[c].pc = "store" => Live(c, call[c].token)
        /\ call[c].attempt = 2 =>
              /\ call[c].pc # "refused"
              /\ call[c].pc = "ensure" => cached = NoToken
              /\ call[c].pc = "attach" => Live(c, cached)
              /\ call[c].pc = "send" => Live(c, call[c].token)

IInv == TypeOK /\ ExecutedInv /\ StoreInv /\ SinceInv /\ RefreshInv
------------------------------------------------------------------------------
\* The initial states satisfy the invariant: no token and no call yet.
LEMMA InitInv == Init => IInv
BY ApiSessionAssumption DEF Init, IInv, TypeOK, ExecutedInv, StoreInv, SinceInv, RefreshInv,
   CallRecords, NoCall, Places, Results, Tokens
------------------------------------------------------------------------------
(***************************************************************************)
(* What a step of a clone leaves of the records of the calls.              *)
(***************************************************************************)

\* The call of d is where it was, and has noticed a new cached token.
Kept(d) ==
    /\ call'[d].pc = call[d].pc
    /\ call'[d].attempt = call[d].attempt
    /\ call'[d].token = call[d].token
    /\ call'[d].runs = call[d].runs
    /\ call'[d].since = call[d].since
    /\ call'[d].result = call[d].result
    /\ call[d].disturbed => call'[d].disturbed
    /\ call[d].pc # "idle" /\ cached' # cached => call'[d].disturbed

Others(c) ==
    /\ call' \in [Clones -> CallRecords]
    /\ \A d \in Clones \ {c} : Kept(d)

\* The call of c is at p and otherwise as it was.
MovedTo(c, p) ==
    /\ call'[c].pc = p
    /\ call'[c].attempt = call[c].attempt
    /\ call'[c].runs = call[c].runs
    /\ call'[c].since = call[c].since
    /\ call'[c].disturbed = call[c].disturbed
    /\ call'[c].result = call[c].result

\* The call of c has returned res.
Returned(c, res) ==
    /\ call'[c].pc = "idle"
    /\ call'[c].runs = call[c].runs
    /\ call'[c].result = res

\* A record replaced by EXCEPT.
LEMMA NewRecord ==
    ASSUME TypeOK, NEW c \in Clones, NEW r \in CallRecords,
           call' = [call EXCEPT ![c] = r], UNCHANGED cached
    PROVE  Others(c) /\ call'[c] = r
BY DEF TypeOK, Others, Kept

\* What marking a call as disturbed leaves alone.
LEMMA MarkedRecord ==
    ASSUME NEW q \in CallRecords, NEW b \in BOOLEAN
    PROVE  /\ [q EXCEPT !.disturbed = b] \in CallRecords
           /\ [q EXCEPT !.disturbed = b].disturbed = b
           /\ [q EXCEPT !.disturbed = b].pc = q.pc
           /\ [q EXCEPT !.disturbed = b].attempt = q.attempt
           /\ [q EXCEPT !.disturbed = b].token = q.token
           /\ [q EXCEPT !.disturbed = b].runs = q.runs
           /\ [q EXCEPT !.disturbed = b].since = q.since
           /\ [q EXCEPT !.disturbed = b].result = q.result
BY DEF CallRecords

\* A call that is marked is kept.
LEMMA MarkedIsKept ==
    ASSUME TypeOK, NEW d \in Clones,
           call'[d] = [call[d] EXCEPT !.disturbed = call[d].disturbed \/ call[d].pc # "idle"]
    PROVE  /\ call'[d] \in CallRecords
           /\ Kept(d)
           /\ call[d].pc # "idle" => call'[d].disturbed
<1> DEFINE b == call[d].disturbed \/ call[d].pc # "idle"
<1>1. call[d] \in CallRecords
  BY DEF TypeOK
<1>2. b \in BOOLEAN
  OBVIOUS
<1>3. call'[d] = [call[d] EXCEPT !.disturbed = b]
  OBVIOUS
<1> HIDE DEF b
<1>4. /\ call'[d] \in CallRecords
      /\ call'[d].disturbed = b
      /\ call'[d].pc = call[d].pc
      /\ call'[d].attempt = call[d].attempt
      /\ call'[d].token = call[d].token
      /\ call'[d].runs = call[d].runs
      /\ call'[d].since = call[d].since
      /\ call'[d].result = call[d].result
  <2> DEFINE r == [call[d] EXCEPT !.disturbed = b]
  <2>1. /\ r \in CallRecords
        /\ r.disturbed = b
        /\ r.pc = call[d].pc
        /\ r.attempt = call[d].attempt
        /\ r.token = call[d].token
        /\ r.runs = call[d].runs
        /\ r.since = call[d].since
        /\ r.result = call[d].result
    BY <1>1, <1>2, MarkedRecord
  <2> QED
    BY <2>1, <1>3
<1> QED
  BY <1>4 DEF Kept, b

\* A record replaced by a step that writes the cached token.
LEMMA NewRecordDisturbs ==
    ASSUME TypeOK, NEW c \in Clones, NEW r \in CallRecords, call' = Disturbed(c, r)
    PROVE  Others(c) /\ call'[c] = r
<1>1. ASSUME NEW d \in Clones, d # c
      PROVE  call'[d] = [call[d] EXCEPT !.disturbed = call[d].disturbed \/ call[d].pc # "idle"]
  BY <1>1 DEF Disturbed
<1>2. ASSUME NEW d \in Clones, d # c PROVE call'[d] \in CallRecords /\ Kept(d)
  BY <1>1, <1>2, MarkedIsKept
<1>3. call'[c] = r
  BY DEF Disturbed
<1>4. call' \in [Clones -> CallRecords]
  <2>1. DOMAIN call' = Clones /\ call' = [d \in Clones |-> call'[d]]
    BY DEF Disturbed
  <2> QED
    BY <2>1, <1>2, <1>3
<1> QED
  BY <1>2, <1>3, <1>4 DEF Others

\* A call that moves on.
LEMMA Moves ==
    ASSUME TypeOK, NEW c \in Clones, NEW p \in Places, call' = Goto(c, p), UNCHANGED cached
    PROVE  Others(c) /\ MovedTo(c, p) /\ call'[c].token = call[c].token
<1> DEFINE r == [call[c] EXCEPT !.pc = p]
<1>1. /\ r \in CallRecords
      /\ r.pc = p /\ r.attempt = call[c].attempt /\ r.token = call[c].token
      /\ r.runs = call[c].runs /\ r.since = call[c].since
      /\ r.disturbed = call[c].disturbed /\ r.result = call[c].result
  BY DEF TypeOK, CallRecords
<1>2. call' = [call EXCEPT ![c] = r]
  BY DEF Goto, TypeOK
<1> HIDE DEF r
<1>3. Others(c) /\ call'[c] = r
  BY <1>1, <1>2, NewRecord
<1> QED
  BY <1>1, <1>3 DEF MovedTo

\* A call that moves on with a token.
LEMMA TakesToken ==
    ASSUME TypeOK, NEW c \in Clones, NEW p \in Places, NEW t \in Tokens \cup {NoToken},
           call' = [call EXCEPT ![c].pc = p, ![c].token = t], UNCHANGED cached
    PROVE  Others(c) /\ MovedTo(c, p) /\ call'[c].token = t
<1> DEFINE r == [call[c] EXCEPT !.pc = p, !.token = t]
<1>1. /\ r \in CallRecords
      /\ r.pc = p /\ r.attempt = call[c].attempt /\ r.token = t
      /\ r.runs = call[c].runs /\ r.since = call[c].since
      /\ r.disturbed = call[c].disturbed /\ r.result = call[c].result
  BY DEF TypeOK, CallRecords
<1>2. call' = [call EXCEPT ![c] = r]
  BY DEF TypeOK
<1> HIDE DEF r
<1>3. Others(c) /\ call'[c] = r
  BY <1>1, <1>2, NewRecord
<1> QED
  BY <1>1, <1>3 DEF MovedTo

\* The record of a call that is over.
LEMMA OverRecord ==
    ASSUME NEW q \in CallRecords, NEW res \in Results
    PROVE  /\ Over(q, res) \in CallRecords
           /\ Over(q, res).pc = "idle"
           /\ Over(q, res).runs = q.runs
           /\ Over(q, res).result = res
<1>1. NoCall \in CallRecords /\ NoCall.pc = "idle"
  BY ApiSessionAssumption DEF CallRecords, NoCall, Places, Results
<1> QED
  BY <1>1 DEF CallRecords, Over

\* A call that returns.
LEMMA Returns ==
    ASSUME TypeOK, NEW c \in Clones, NEW res \in Results, call' = Return(c, res),
           UNCHANGED cached
    PROVE  Others(c) /\ Returned(c, res)
<1> DEFINE r == Over(call[c], res)
<1>1. r \in CallRecords /\ r.pc = "idle" /\ r.runs = call[c].runs /\ r.result = res
  BY OverRecord DEF TypeOK
<1>2. call' = [call EXCEPT ![c] = r]
  BY DEF Return, TypeOK
<1> HIDE DEF r
<1>3. Others(c) /\ call'[c] = r
  BY <1>1, <1>2, NewRecord
<1> QED
  BY <1>1, <1>3 DEF Returned
------------------------------------------------------------------------------
(***************************************************************************)
(* Facts about the invariant that several steps share.                     *)
(***************************************************************************)

\* The calls of the other clones keep their part of the invariant, as long as
\* no live token leaves the store.
Quiet == \A r \in tokens : r.expires > now' => r \in tokens'

\* A token that is live for an undisturbed call stays so.
LEMMA StaysLive ==
    ASSUME TypeOK, Quiet, now' \in Nat, NEW c \in Clones, NEW t, Live(c, t),
           call'[c].since = call[c].since, now' < call[c].since + TokenTtl
    PROVE  Live(c, t)'
<1>1. PICK r \in tokens : r.token = t /\ r.expires >= call[c].since + TokenTtl
  BY DEF Live
<1>2. /\ r.expires \in Nat
      /\ call[c].since \in Nat
      /\ TokenTtl \in Nat
  BY ApiSessionAssumption DEF TypeOK, CallRecords
<1>3. r \in tokens'
  BY <1>1, <1>2 DEF Quiet
<1> QED
  BY <1>1, <1>3 DEF Live

\* The part of a clone in the invariants about calls.
Executed(c) ==
    /\ call[c].runs <= 1
    /\ call[c].runs = 1 => call[c].pc \in {"answered", "idle"}
    /\ call[c].pc = "idle" /\ call[c].result = "Unauthenticated" => call[c].runs = 0

Since(c) == call[c].pc # "idle" => call[c].since <= now

Refreshed(c) ==
    call[c].pc # "idle" /\ Undisturbed(c) =>
        /\ call[c].pc = "attach" => cached # 0
        /\ call[c].pc = "store" => Live(c, call[c].token)
        /\ call[c].attempt = 2 =>
              /\ call[c].pc # "refused"
              /\ call[c].pc = "ensure" => cached = 0
              /\ call[c].pc = "attach" => Live(c, cached)
              /\ call[c].pc = "send" => Live(c, call[c].token)

\* The invariants clone by clone.
LEMMA ByClone ==
    /\ ExecutedInv <=> \A c \in Clones : Executed(c)
    /\ SinceInv <=> \A c \in Clones : Since(c)
    /\ RefreshInv <=> \A c \in Clones : Refreshed(c)
    /\ ExecutedInv' <=> \A c \in Clones : Executed(c)'
    /\ SinceInv' <=> \A c \in Clones : Since(c)'
    /\ RefreshInv' <=> \A c \in Clones : Refreshed(c)'
BY DEF ExecutedInv, SinceInv, RefreshInv, Executed, Since, Refreshed

\* A clone that is kept keeps its part.
LEMMA KeptInv ==
    ASSUME IInv, TypeOK', Quiet, now' >= now, UNCHANGED keyMatches,
           NEW d \in Clones, Kept(d)
    PROVE  Executed(d)' /\ Since(d)' /\ Refreshed(d)'
<1>1. Executed(d) /\ Since(d) /\ Refreshed(d)
  BY ByClone DEF IInv
<1>2. now \in Nat /\ now' \in Nat /\ call[d].since \in Nat /\ TokenTtl \in Nat
  BY ApiSessionAssumption DEF IInv, TypeOK, CallRecords
<1>3. Executed(d)' /\ Since(d)'
  BY <1>1, <1>2 DEF Executed, Since, Kept
<1>4. ASSUME call'[d].pc # "idle", Undisturbed(d)'
      PROVE  /\ call[d].pc # "idle" /\ Undisturbed(d)
             /\ cached' = cached
             /\ now' < call[d].since + TokenTtl
  BY <1>2, <1>4 DEF Undisturbed, Kept
<1>5. ASSUME NEW t, Live(d, t), call'[d].pc # "idle", Undisturbed(d)' PROVE Live(d, t)'
  BY <1>2, <1>4, <1>5, StaysLive DEF Kept, IInv
<1>6. Refreshed(d)'
  <2>1. SUFFICES ASSUME call'[d].pc # "idle", Undisturbed(d)'
                 PROVE  /\ call'[d].pc = "attach" => cached' # 0
                        /\ call'[d].pc = "store" => Live(d, call[d].token)'
                        /\ call'[d].attempt = 2 =>
                              /\ call'[d].pc # "refused"
                              /\ call'[d].pc = "ensure" => cached' = 0
                              /\ call'[d].pc = "attach" => Live(d, cached)'
                              /\ call'[d].pc = "send" => Live(d, call[d].token)'
    BY DEF Refreshed
  <2>2. /\ call'[d].token = call[d].token
        /\ call'[d].pc = call[d].pc
        /\ call'[d].attempt = call[d].attempt
        /\ cached' = cached
    BY <1>4, <2>1 DEF Kept
  <2>3. /\ call[d].pc = "attach" => cached # 0
        /\ call[d].pc = "store" => Live(d, call[d].token)
        /\ call[d].attempt = 2 =>
              /\ call[d].pc # "refused"
              /\ call[d].pc = "ensure" => cached = 0
              /\ call[d].pc = "attach" => Live(d, cached)
              /\ call[d].pc = "send" => Live(d, call[d].token)
    BY <1>1, <1>4, <2>1 DEF Refreshed
  <2>4. /\ Live(d, call[d].token) => Live(d, call[d].token)'
        /\ Live(d, cached) => Live(d, cached)'
    <3>1. ASSUME NEW t, Live(d, t) PROVE \E r \in tokens' : r.token = t /\ r.expires >= call'[d].since + TokenTtl
      BY <1>5, <2>1, <3>1 DEF Live
    <3> QED
      BY <3>1, <2>2 DEF Live
  <2> QED
    BY <2>2, <2>3, <2>4
<1> QED
  BY <1>3, <1>6
------------------------------------------------------------------------------
(***************************************************************************)
(* The steps, one by one.  Authorised and Suffices are what the two action *)
(* properties say of one clone.                                            *)
(***************************************************************************)
Authorised(d) == call'[d].runs > call[d].runs => keyMatches /\ Fresh(call[d].token)

Suffices(d) ==
    call[d].pc # "idle" /\ Undisturbed(d) /\ call'[d].pc = "idle"
        => call'[d].result # "Unauthenticated"

Good == IInv' /\ \A d \in Clones : Authorised(d) /\ Suffices(d)

\* A kept call has executed nothing and not returned.
LEMMA KeptGood == ASSUME IInv, NEW d \in Clones, Kept(d) PROVE Authorised(d) /\ Suffices(d)
<1>1. call[d].runs \in Nat
  BY DEF IInv, TypeOK, CallRecords
<1> QED
  BY <1>1 DEF Kept, Authorised, Suffices

\* A step of c is good if it is good for c and leaves the store in order.
LEMMA StepGood ==
    ASSUME IInv, TypeOK', StoreInv', Quiet, UNCHANGED now, UNCHANGED keyMatches,
           NEW c \in Clones, Others(c), Executed(c)', Since(c)', Refreshed(c)',
           Authorised(c), Suffices(c)
    PROVE  Good
<1>1. now' >= now
  BY DEF IInv, TypeOK
<1>2. ASSUME NEW d \in Clones, d # c
      PROVE  Executed(d)' /\ Since(d)' /\ Refreshed(d)' /\ Authorised(d) /\ Suffices(d)
  BY <1>1, <1>2, KeptInv, KeptGood DEF Others
<1>3. ExecutedInv' /\ SinceInv' /\ RefreshInv'
  BY <1>2, ByClone
<1> QED
  BY <1>2, <1>3 DEF Good, IInv

\* A step that leaves the store alone.
LEMMA StoreKept ==
    ASSUME IInv, UNCHANGED <<tokens, issues, keyMatches, restarts>>
    PROVE  StoreInv' /\ Quiet
BY DEF IInv, StoreInv, Quiet

\* What the invariant says of c.
LEMMA Own ==
    ASSUME IInv, NEW c \in Clones
    PROVE  /\ Executed(c) /\ Since(c) /\ Refreshed(c)
           /\ call[c] \in CallRecords
           /\ call[c].runs \in Nat /\ call[c].since \in Nat /\ call[c].attempt \in {1, 2}
           /\ call[c].token \in Tokens \cup {0}
           /\ now \in Nat /\ TokenTtl \in Nat
BY ByClone, ApiSessionAssumption DEF IInv, TypeOK, CallRecords

\* A call that returns another result than Unauthenticated, or one it could
\* not be spared, is good.
LEMMA ReturnGood ==
    ASSUME IInv, NEW c \in Clones, NEW res \in Results, call' = Return(c, res),
           UNCHANGED <<now, tokens, issues, keyMatches, restarts, cached>>,
           res = "Unauthenticated" => call[c].runs = 0 /\ ~Undisturbed(c)
    PROVE  Good
<1>1. TypeOK
  BY DEF IInv
<1>2. Others(c) /\ Returned(c, res)
  BY <1>1, Returns
<1>3. TypeOK'
  BY <1>1, <1>2 DEF TypeOK, Others
<1>4. Executed(c) /\ call[c].runs \in Nat
  BY Own
<1>5. Executed(c)' /\ Since(c)' /\ Refreshed(c)' /\ Authorised(c) /\ Suffices(c)
  BY <1>2, <1>4 DEF Executed, Since, Refreshed, Authorised, Suffices, Returned
<1> QED
  BY <1>2, <1>3, <1>5, StoreKept, StepGood

\* A new call.
LEMMA StartCallGood ==
    ASSUME IInv, NEW c \in Clones, NEW kind \in {"rpc", "getToken"}, StartCall(c, kind)
    PROVE  Good
<1> DEFINE p == IF kind = "rpc" THEN "ensure" ELSE "refresh"
           r == [NoCall EXCEPT !.pc = p, !.kind = kind, !.since = now]
<1>1. TypeOK /\ now \in 0..MaxTime
  BY DEF IInv, TypeOK
<1>2. p \in Places /\ p \in {"ensure", "refresh"}
  BY DEF Places
<1>3. call' = [call EXCEPT ![c] = r]
  BY DEF StartCall
<1> HIDE DEF p
<1>4. NoCall \in CallRecords /\ NoCall.runs = 0 /\ NoCall.attempt = 1 /\ NoCall.result = "none"
  BY ApiSessionAssumption DEF CallRecords, NoCall, Places, Results
<1>5. /\ r \in CallRecords
      /\ r.pc = p /\ r.attempt = 1 /\ r.runs = 0 /\ r.since = now /\ r.result = "none"
  BY <1>1, <1>2, <1>4 DEF CallRecords
<1> HIDE DEF r
<1>6. UNCHANGED <<now, tokens, issues, keyMatches, restarts, cached>> /\ call[c].pc = "idle"
  BY DEF StartCall
<1>7. Others(c) /\ call'[c] = r
  BY <1>1, <1>3, <1>5, <1>6, NewRecord
<1>8. TypeOK'
  BY <1>1, <1>6, <1>7 DEF TypeOK, Others
<1>9. Executed(c)' /\ Since(c)' /\ Refreshed(c)' /\ Authorised(c) /\ Suffices(c)
  <2>1. now \in Nat /\ call[c].runs \in Nat
    BY Own
  <2> QED
    BY <1>2, <1>5, <1>6, <1>7, <2>1 DEF Executed, Since, Refreshed, Authorised, Suffices
<1> QED
  BY <1>6, <1>7, <1>8, <1>9, StoreKept, StepGood

\* A step that only moves a call on, within its part of the invariant.
LEMMA MoveGood ==
    ASSUME IInv, NEW c \in Clones, call[c].pc # "idle", NEW p \in Places,
           p \notin {"idle", "answered"}, call[c].pc # "answered",
           Others(c), MovedTo(c, p), Refreshed(c)',
           UNCHANGED <<now, tokens, issues, keyMatches, restarts, cached>>
    PROVE  Good
<1>1. TypeOK'
  BY DEF IInv, TypeOK, Others
<1>2. Executed(c) /\ Since(c) /\ call[c].runs \in Nat
  BY Own
<1>3. Executed(c)' /\ Since(c)' /\ Authorised(c) /\ Suffices(c)
  BY <1>2 DEF Executed, Since, Authorised, Suffices, MovedTo
<1> QED
  BY <1>1, <1>3, StoreKept, StepGood

\* ensure_token: an undisturbed second attempt finds no token and fetches one.
LEMMA EnsureTokenGood == ASSUME IInv, NEW c \in Clones, EnsureToken(c) PROVE Good
<1> DEFINE p == IF cached # 0 THEN "attach" ELSE "refresh"
<1>1. p \in Places /\ p \in {"attach", "refresh"} /\ (p = "attach" => cached # 0)
  BY DEF Places
<1>2. /\ call' = Goto(c, p)
      /\ call[c].pc = "ensure"
      /\ UNCHANGED <<now, tokens, issues, keyMatches, restarts, cached>>
  BY DEF EnsureToken
<1> HIDE DEF p
<1>3. Others(c) /\ MovedTo(c, p)
  BY <1>1, <1>2, Moves DEF IInv
<1>4. Refreshed(c)'
  <2>1. Refreshed(c)
    BY Own
  <2>2. Undisturbed(c)' => Undisturbed(c)
    BY <1>2, <1>3 DEF Undisturbed, MovedTo
  <2>3. Undisturbed(c) /\ call[c].attempt = 2 => cached = 0
    BY <1>2, <2>1 DEF Refreshed
  <2> QED
    BY <1>1, <1>2, <1>3, <2>2, <2>3 DEF Refreshed, MovedTo
<1> QED
  BY <1>1, <1>2, <1>3, <1>4, MoveGood

\* attach_token: the token is there unless another clone took it away.
LEMMA AttachTokenGood == ASSUME IInv, NEW c \in Clones, AttachToken(c) PROVE Good
<1>1. /\ call[c].pc = "attach"
      /\ UNCHANGED <<now, tokens, issues, keyMatches, restarts, cached>>
  BY DEF AttachToken
<1>2. Executed(c) /\ Refreshed(c) /\ call[c].runs \in Nat
  BY Own
<1>3. CASE cached = 0
  <2>1. call' = Return(c, "Unauthenticated")
    BY <1>3 DEF AttachToken
  <2>2. call[c].runs = 0 /\ ~Undisturbed(c)
    BY <1>1, <1>2, <1>3 DEF Executed, Refreshed
  <2>3. "Unauthenticated" \in Results
    BY DEF Results
  <2> QED
    BY <1>1, <2>1, <2>2, <2>3, ReturnGood
<1>4. CASE cached # 0
  <2>1. call' = [call EXCEPT ![c].pc = "send", ![c].token = cached]
    BY <1>4 DEF AttachToken
  <2>2. "send" \in Places /\ cached \in Tokens \cup {0}
    BY DEF Places, IInv, TypeOK
  <2>3. Others(c) /\ MovedTo(c, "send") /\ call'[c].token = cached
    BY <1>1, <2>1, <2>2, TakesToken DEF IInv
  <2>4. Refreshed(c)'
    <3>1. Undisturbed(c)' => Undisturbed(c)
      BY <1>1, <2>3 DEF Undisturbed, MovedTo
    <3>2. Undisturbed(c) /\ call[c].attempt = 2 => Live(c, cached)
      BY <1>1, <1>2 DEF Refreshed
    <3>3. Live(c, cached) => Live(c, call[c].token)'
      BY <1>1, <2>3 DEF Live, MovedTo
    <3> QED
      BY <2>3, <3>1, <3>2, <3>3 DEF Refreshed, MovedTo
  <2> QED
    BY <1>1, <2>2, <2>3, <2>4, MoveGood
<1> QED
  BY <1>3, <1>4

\* The answers.
LEMMA AnsweredGood == ASSUME IInv, NEW c \in Clones, Answered(c) \/ Lose(c) PROVE Good
<1>1. {"Ok", "Unavailable"} \subseteq Results
  BY DEF Results
<1>2. PICK res \in {"Ok", "Unavailable"} : call' = Return(c, res)
  BY DEF Answered, Lose
<1>3. UNCHANGED <<now, tokens, issues, keyMatches, restarts, cached>>
  BY DEF Answered, Lose
<1> QED
  BY <1>1, <1>2, <1>3, ReturnGood

\* The slave serves get_token: the new token is live, the others that are stay.
LEMMA ServeGetTokenGood == ASSUME IInv, NEW c \in Clones, ServeGetToken(c) PROVE Good
<1>1. call[c].pc = "refresh" /\ UNCHANGED <<now, keyMatches, restarts, cached>>
  BY DEF ServeGetToken
<1>2. /\ Executed(c) /\ Since(c)
      /\ call[c].runs \in Nat /\ call[c].since \in Nat /\ now \in Nat /\ TokenTtl \in Nat
  BY Own
<1>3. CASE ~keyMatches
  <2>1. PICK res \in {"Ok", "Unauthenticated"} : call' = Return(c, res)
    BY <1>3 DEF ServeGetToken
  <2>2. UNCHANGED <<issues, tokens>> /\ {"Ok", "Unauthenticated"} \subseteq Results
    BY <1>3 DEF ServeGetToken, Results
  <2>3. call[c].runs = 0 /\ ~Undisturbed(c)
    BY <1>1, <1>2, <1>3 DEF Executed, Undisturbed
  <2> QED
    BY <1>1, <2>1, <2>2, <2>3, ReturnGood
<1>4. CASE keyMatches
  <2> DEFINE t == Len(issues) + 1
             new == [token |-> t, expires |-> now + TokenTtl]
  <2>1. /\ Len(issues) < MaxTokens
        /\ issues' = Append(issues, [at |-> now, boot |-> restarts])
        /\ tokens' = InsertToken(tokens, Len(issues'), now)
        /\ call' = [call EXCEPT ![c].pc = "store", ![c].token = Len(issues')]
    BY <1>4 DEF ServeGetToken
  <2>2. /\ issues \in Seq([at: 0..MaxTime, boot: 0..MaxRestarts])
        /\ Len(issues) \in Nat /\ MaxTokens \in Nat
        /\ now \in 0..MaxTime /\ restarts \in 0..MaxRestarts
    BY ApiSessionAssumption DEF IInv, TypeOK
  <2>3. /\ issues' \in Seq([at: 0..MaxTime, boot: 0..MaxRestarts])
        /\ Len(issues') = t
        /\ DOMAIN issues = 1..Len(issues) /\ DOMAIN issues' = 1..t
        /\ \A i \in DOMAIN issues : issues'[i] = issues[i]
        /\ issues'[t] = [at |-> now, boot |-> restarts]
    BY <2>1, <2>2
  <2>4. t \in Tokens /\ t <= MaxTokens
    BY <2>1, <2>2 DEF Tokens
  <2>5. tokens' = { r \in tokens : r.expires > now } \cup {new}
    BY <2>1, <2>3 DEF InsertToken, Prune
  <2>6. Others(c) /\ MovedTo(c, "store") /\ call'[c].token = t
    <3>1. "store" \in Places
      BY DEF Places
    <3>2. call' = [call EXCEPT ![c].pc = "store", ![c].token = t]
      BY <2>1, <2>3
    <3>3. TypeOK /\ cached' = cached /\ t \in Tokens \cup {NoToken}
      BY <1>1, <2>4 DEF IInv
    <3> HIDE DEF t
    <3> QED
      BY <3>1, <3>2, <3>3, TakesToken
  <2>7. tokens' \subseteq [token: Tokens, expires: 0..MaxTime + TokenTtl]
    BY <2>2, <2>4, <2>5, ApiSessionAssumption DEF IInv, TypeOK
  <2>8. TypeOK'
    BY <1>1, <2>3, <2>4, <2>6, <2>7 DEF IInv, TypeOK, Others
  <2>9. StoreInv'
    <3>1. ASSUME NEW r \in tokens'
          PROVE  /\ r.token \in DOMAIN issues'
                 /\ r.expires = issues'[r.token].at + TokenTtl
                 /\ issues'[r.token].boot = restarts
      <4>1. CASE r = new
        BY <2>2, <2>3, <4>1
      <4>2. CASE r \in tokens
        <5>1. /\ r.token \in DOMAIN issues
              /\ r.expires = issues[r.token].at + TokenTtl
              /\ issues[r.token].boot = restarts
          BY <4>2 DEF IInv, StoreInv
        <5> HIDE DEF t
        <5>2. DOMAIN issues \subseteq DOMAIN issues'
          BY <2>2, <2>3 DEF t
        <5> QED
          BY <5>1, <5>2, <2>3
      <4> QED
        BY <2>5, <3>1, <4>1, <4>2
    <3> QED
      BY <1>1, <1>4, <3>1 DEF StoreInv
  <2>10. Quiet
    BY <1>1, <2>5 DEF Quiet
  <2>11. Live(c, call[c].token)'
    <3>1. new \in tokens' /\ new.token = call'[c].token /\ call'[c].since = call[c].since
      BY <2>5, <2>6 DEF MovedTo
    <3>2. new.expires >= call[c].since + TokenTtl
      BY <1>1, <1>2 DEF Since
    <3> QED
      BY <3>1, <3>2 DEF Live
  <2>12. Executed(c)' /\ Since(c)' /\ Refreshed(c)' /\ Authorised(c) /\ Suffices(c)
    BY <1>1, <1>2, <2>6, <2>11 DEF Executed, Since, Refreshed, Authorised, Suffices, MovedTo
  <2> QED
    BY <1>1, <2>6, <2>8, <2>9, <2>10, <2>12, StepGood
<1> QED
  BY <1>3, <1>4

\* The new token is cached.
LEMMA StoreTokenGood == ASSUME IInv, NEW c \in Clones, StoreToken(c) PROVE Good
<1>1. /\ call[c].pc = "store" /\ cached' = call[c].token
      /\ UNCHANGED <<now, tokens, issues, keyMatches, restarts>>
  BY DEF StoreToken
<1>2. /\ Executed(c) /\ Since(c) /\ Refreshed(c) /\ call[c] \in CallRecords
      /\ call[c].runs \in Nat /\ call[c].token \in Tokens \cup {0}
  BY Own
<1>3. CASE call[c].kind = "rpc"
  <2> DEFINE r == [call[c] EXCEPT !.pc = "attach"]
  <2>1. /\ r \in CallRecords
        /\ r.pc = "attach" /\ r.attempt = call[c].attempt /\ r.runs = call[c].runs
        /\ r.since = call[c].since /\ r.disturbed = call[c].disturbed
        /\ r.result = call[c].result
    BY <1>2 DEF CallRecords, Places
  <2>2. call' = Disturbed(c, r)
    BY <1>3 DEF StoreToken
  <2> HIDE DEF r
  <2>3. Others(c) /\ call'[c] = r
    BY <2>1, <2>2, NewRecordDisturbs DEF IInv
  <2>4. TypeOK'
    BY <1>1, <1>2, <2>3 DEF IInv, TypeOK, Others
  <2>5. Undisturbed(c)' => Undisturbed(c)
    BY <1>1, <2>1, <2>3 DEF Undisturbed
  <2>6. Undisturbed(c) => Live(c, call[c].token)
    BY <1>1, <1>2 DEF Refreshed
  <2>7. Live(c, call[c].token) => cached' # 0 /\ Live(c, cached)'
    <3>1. \A x \in tokens : x.token # 0
      BY ApiSessionAssumption DEF IInv, TypeOK, Tokens
    <3> QED
      BY <1>1, <2>1, <2>3, <3>1 DEF Live
  <2>8. Executed(c)' /\ Since(c)' /\ Refreshed(c)' /\ Authorised(c) /\ Suffices(c)
    BY <1>1, <1>2, <2>1, <2>3, <2>5, <2>6, <2>7
       DEF Executed, Since, Refreshed, Authorised, Suffices
  <2> QED
    BY <1>1, <2>3, <2>4, <2>8, StoreKept, StepGood
<1>4. CASE call[c].kind # "rpc"
  <2> DEFINE r == Over(call[c], "Ok")
  <2>1. r \in CallRecords /\ r.pc = "idle" /\ r.runs = call[c].runs /\ r.result = "Ok"
    BY <1>2, OverRecord DEF Results
  <2>2. call' = Disturbed(c, r)
    BY <1>4 DEF StoreToken
  <2> HIDE DEF r
  <2>3. Others(c) /\ call'[c] = r
    BY <2>1, <2>2, NewRecordDisturbs DEF IInv
  <2>4. TypeOK'
    BY <1>1, <1>2, <2>3 DEF IInv, TypeOK, Others
  <2>5. Executed(c)' /\ Since(c)' /\ Refreshed(c)' /\ Authorised(c) /\ Suffices(c)
    BY <1>2, <2>1, <2>3 DEF Executed, Since, Refreshed, Authorised, Suffices
  <2> QED
    BY <1>1, <2>3, <2>4, <2>5, StoreKept, StepGood
<1> QED
  BY <1>3, <1>4

\* The token is validated: what it lets through was issued to a client with
\* the key, in this life and less than a lifetime ago; a live one is not refused.
LEMMA ServeRpcGood == ASSUME IInv, NEW c \in Clones, ServeRpc(c) PROVE Good
<1>1. /\ call[c].pc = "send" /\ tokens' = Prune(tokens, now)
      /\ UNCHANGED <<now, issues, keyMatches, restarts, cached>>
  BY DEF ServeRpc
<1>2. /\ Executed(c) /\ Since(c) /\ Refreshed(c) /\ call[c] \in CallRecords
      /\ call[c].runs \in Nat /\ call[c].since \in Nat /\ now \in Nat /\ TokenTtl \in Nat
  BY Own
<1>3. StoreInv' /\ Quiet /\ tokens' \subseteq tokens
  BY <1>1 DEF IInv, StoreInv, Quiet, Prune
<1>4. CASE ValidateToken(tokens, call[c].token, now)
  <2> DEFINE r == [call[c] EXCEPT !.pc = "answered", !.runs = call[c].runs + 1]
  <2>1. /\ r \in CallRecords
        /\ r.pc = "answered" /\ r.attempt = call[c].attempt /\ r.runs = call[c].runs + 1
        /\ r.since = call[c].since
    <3> DEFINE n == call[c].runs + 1
    <3>1. "answered" \in Places /\ n \in Nat /\ r = [call[c] EXCEPT !.pc = "answered", !.runs = n]
      BY <1>2 DEF Places
    <3> HIDE DEF n
    <3>2. LET e == [call[c] EXCEPT !.pc = "answered", !.runs = n]
          IN  /\ e \in CallRecords
              /\ e.pc = "answered" /\ e.attempt = call[c].attempt /\ e.runs = n
              /\ e.since = call[c].since
      BY <1>2, <3>1 DEF CallRecords
    <3> HIDE DEF r
    <3> QED
      BY <3>1, <3>2 DEF n
  <2>2. call' = [call EXCEPT ![c] = r]
    BY <1>4 DEF ServeRpc, IInv, TypeOK
  <2> HIDE DEF r
  <2>3. Others(c) /\ call'[c] = r
    BY <1>1, <2>1, <2>2, NewRecord DEF IInv
  <2>4. TypeOK'
    BY <1>1, <1>3, <2>3 DEF IInv, TypeOK, Others
  <2>5. keyMatches /\ Fresh(call[c].token)
    <3>1. PICK x \in tokens : x.token = call[c].token /\ x.expires > now
      BY <1>4 DEF ValidateToken, Prune
    <3>2. /\ x.token \in DOMAIN issues
          /\ x.expires = issues[x.token].at + TokenTtl
          /\ issues[x.token].boot = restarts
          /\ keyMatches
      BY <3>1 DEF IInv, StoreInv
    <3>3. issues[x.token].at \in Nat
      <4>1. issues \in Seq([at: 0..MaxTime, boot: 0..MaxRestarts])
        BY DEF IInv, TypeOK
      <4>2. ASSUME NEW S, NEW q \in Seq(S), NEW i \in DOMAIN q PROVE q[i] \in S
        OBVIOUS
      <4>3. issues[x.token] \in [at: 0..MaxTime, boot: 0..MaxRestarts]
        BY <3>2, <4>1, <4>2
      <4> QED
        BY <4>3
    <3> QED
      BY <1>2, <3>1, <3>2, <3>3 DEF Fresh
  <2>6. Executed(c)' /\ Since(c)' /\ Refreshed(c)' /\ Authorised(c) /\ Suffices(c)
    BY <1>1, <1>2, <2>1, <2>3, <2>5 DEF Executed, Since, Refreshed, Authorised, Suffices
  <2> QED
    BY <1>1, <1>3, <2>3, <2>4, <2>6, StepGood
<1>5. CASE ~ValidateToken(tokens, call[c].token, now)
  <2>1. call' = Goto(c, "refused") /\ "refused" \in Places
    BY <1>5 DEF ServeRpc, Places
  <2>2. Others(c) /\ MovedTo(c, "refused")
    BY <1>1, <2>1, Moves DEF IInv
  <2>3. TypeOK'
    BY <1>1, <1>3, <2>2 DEF IInv, TypeOK, Others
  <2>4. ~(Undisturbed(c) /\ Live(c, call[c].token))
    <3>1. ASSUME Undisturbed(c), NEW x \in tokens, x.token = call[c].token,
                 x.expires >= call[c].since + TokenTtl
          PROVE  FALSE
      <4>1. x.expires \in Nat
        BY ApiSessionAssumption DEF IInv, TypeOK
      <4>2. x.expires > now
        BY <1>2, <3>1, <4>1 DEF Undisturbed
      <4> QED
        BY <1>5, <3>1, <4>2 DEF ValidateToken, Prune
    <3> QED
      BY <3>1 DEF Live
  <2>5. Undisturbed(c)' => Undisturbed(c)
    BY <1>1, <2>2 DEF Undisturbed, MovedTo
  <2>6. Undisturbed(c) => call[c].attempt # 2
    BY <1>1, <1>2, <2>4 DEF Refreshed
  <2>7. Executed(c)' /\ Since(c)' /\ Refreshed(c)' /\ Authorised(c) /\ Suffices(c)
    BY <1>1, <1>2, <2>2, <2>5, <2>6
       DEF Executed, Since, Refreshed, Authorised, Suffices, MovedTo
  <2> QED
    BY <1>1, <1>3, <2>2, <2>3, <2>7, StepGood
<1> QED
  BY <1>4, <1>5

\* A refusal: the first one empties the cache, a second one met a disturbance.
LEMMA RefusedGood == ASSUME IInv, NEW c \in Clones, Refused(c) PROVE Good
<1>1. call[c].pc = "refused" /\ UNCHANGED <<now, tokens, issues, keyMatches, restarts>>
  BY DEF Refused
<1>2. /\ Executed(c) /\ Since(c) /\ Refreshed(c) /\ call[c] \in CallRecords
      /\ call[c].runs \in Nat /\ call[c].attempt \in {1, 2}
  BY Own
<1>3. CASE call[c].attempt = 1
  <2> DEFINE r == [call[c] EXCEPT !.pc = "ensure", !.attempt = 2]
  <2>1. /\ r \in CallRecords
        /\ r.pc = "ensure" /\ r.runs = call[c].runs /\ r.since = call[c].since
    BY <1>2 DEF CallRecords, Places
  <2>2. call' = Disturbed(c, r) /\ cached' = 0
    BY <1>3 DEF Refused
  <2> HIDE DEF r
  <2>3. Others(c) /\ call'[c] = r
    BY <2>1, <2>2, NewRecordDisturbs DEF IInv
  <2>4. TypeOK'
    BY <1>1, <2>2, <2>3 DEF IInv, TypeOK, Others
  <2>5. Executed(c)' /\ Since(c)' /\ Refreshed(c)' /\ Authorised(c) /\ Suffices(c)
    BY <1>1, <1>2, <2>1, <2>2, <2>3 DEF Executed, Since, Refreshed, Authorised, Suffices
  <2> QED
    BY <1>1, <2>3, <2>4, <2>5, StoreKept, StepGood
<1>4. CASE call[c].attempt = 2
  <2>1. call' = Return(c, "Unauthenticated") /\ UNCHANGED cached
    BY <1>4 DEF Refused
  <2>2. call[c].runs = 0 /\ ~Undisturbed(c)
    BY <1>1, <1>2, <1>4 DEF Executed, Refreshed
  <2>3. "Unauthenticated" \in Results
    BY DEF Results
  <2> QED
    BY <1>1, <2>1, <2>2, <2>3, ReturnGood
<1> QED
  BY <1>2, <1>3, <1>4

\* The clock moves on, or nothing happens: every call is kept.
LEMMA IdleGood ==
    ASSUME IInv, now' \in {now, now + 1}, now' \in 0..MaxTime,
           UNCHANGED <<tokens, issues, keyMatches, restarts, cached, call>>
    PROVE  Good
<1>1. TypeOK' /\ now' >= now
  BY DEF IInv, TypeOK
<1>2. ASSUME NEW d \in Clones PROVE Kept(d)
  BY DEF Kept
<1>3. StoreInv' /\ Quiet
  BY StoreKept
<1>4. ASSUME NEW d \in Clones
      PROVE  Executed(d)' /\ Since(d)' /\ Refreshed(d)' /\ Authorised(d) /\ Suffices(d)
  BY <1>1, <1>2, <1>3, KeptInv, KeptGood
<1>5. ExecutedInv' /\ SinceInv' /\ RefreshInv'
  BY <1>4, ByClone
<1> QED
  BY <1>1, <1>3, <1>4, <1>5 DEF Good, IInv

\* A restart empties the store and disturbs every running call.
LEMMA RestartGood == ASSUME IInv, RestartSlave PROVE Good
<1>1. /\ tokens' = {} /\ restarts' = restarts + 1 /\ restarts < MaxRestarts
      /\ UNCHANGED <<now, issues, keyMatches, cached>>
  BY DEF RestartSlave
<1>2. ASSUME NEW d \in Clones
      PROVE  call'[d] = [call[d] EXCEPT !.disturbed = call[d].disturbed \/ call[d].pc # "idle"]
  BY DEF RestartSlave
<1>3. ASSUME NEW d \in Clones
      PROVE  /\ call'[d] \in CallRecords
             /\ Kept(d)
             /\ call[d].pc # "idle" => call'[d].disturbed
  BY <1>2, MarkedIsKept DEF IInv
<1>4. call' \in [Clones -> CallRecords]
  <2>1. call' = [d \in Clones |-> call'[d]]
    BY DEF RestartSlave
  <2> QED
    BY <2>1, <1>3
<1>5. TypeOK'
  BY <1>1, <1>4, ApiSessionAssumption DEF IInv, TypeOK
<1>6. StoreInv'
  BY <1>1 DEF IInv, StoreInv
<1>7. ASSUME NEW d \in Clones PROVE Executed(d)' /\ Since(d)' /\ Refreshed(d)'
  <2>1. Executed(d) /\ Since(d)
    BY Own
  <2> QED
    BY <1>1, <1>3, <2>1 DEF Executed, Since, Refreshed, Undisturbed, Kept
<1>8. ExecutedInv' /\ SinceInv' /\ RefreshInv'
  BY <1>7, ByClone
<1>9. ASSUME NEW d \in Clones PROVE Authorised(d) /\ Suffices(d)
  BY <1>3, KeptGood
<1> QED
  BY <1>5, <1>6, <1>8, <1>9 DEF Good, IInv

\* Every step preserves the invariant and is as the action properties say.
LEMMA NextGood == ASSUME IInv, [Next]_vars PROVE Good
<1>1. ASSUME NEW c \in Clones, Step(c) PROVE Good
  BY <1>1, StartCallGood, EnsureTokenGood, ServeGetTokenGood, StoreTokenGood,
     AttachTokenGood, ServeRpcGood, AnsweredGood, RefusedGood DEF Step
<1>2. CASE Tick
  <2>1. now' \in {now, now + 1} /\ now' \in 0..MaxTime
    BY <1>2, ApiSessionAssumption DEF Tick, IInv, TypeOK
  <2> QED
    BY <1>2, <2>1, IdleGood DEF Tick
<1>3. CASE RestartSlave
  BY <1>3, RestartGood
<1>4. CASE UNCHANGED vars
  <2>1. now' \in {now, now + 1} /\ now' \in 0..MaxTime
    BY <1>4 DEF vars, IInv, TypeOK
  <2> QED
    BY <1>4, <2>1, IdleGood DEF vars
<1> QED
  BY <1>1, <1>2, <1>3, <1>4 DEF Next

\* The invariant holds in every reachable state.
THEOREM Invariance == Spec => []IInv
<1>1. IInv /\ [Next]_vars => IInv'
  BY NextGood DEF Good
<1> QED
  BY <1>1, InitInv, PTL DEF Spec
------------------------------------------------------------------------------
\* ApiSession is type correct: no token is entered in the TokenStore with an
\* expiry that insert_token cannot give it.
THEOREM SessionTypeCorrect == Spec => []TypeOK
<1>1. IInv => TypeOK
  BY DEF IInv
<1> QED
  BY <1>1, Invariance, PTL

\* The retry of the client after Unauthenticated never repeats a request that
\* the slave has executed.
THEOREM ExecutedAtMostOnce == Spec => []AtMostOnce
<1>1. IInv => AtMostOnce
  BY DEF IInv, ExecutedInv, AtMostOnce
<1> QED
  BY <1>1, Invariance, PTL

\* validate_token lets a request through only for a client that had the key,
\* with a token of this life of the slave that is younger than TOKEN_TTL.
THEOREM OnlyAuthorised == Spec => AuthorisedOnly
<1>1. IInv /\ [Next]_vars
        => [\A c \in Clones : call'[c].runs > call[c].runs
                => keyMatches /\ Fresh(call[c].token)]_vars
  BY NextGood DEF Good, Authorised
<1> QED
  BY <1>1, Invariance, PTL DEF Spec, AuthorisedOnly

\* A call of the client that meets no other writer of the shared token and no
\* restart gets through with at most one refresh.
THEOREM OneRefresh == Spec => RefreshSuffices
<1>1. IInv /\ [Next]_vars
        => [\A c \in Clones : Running(c) /\ Undisturbed(c) /\ call'[c].pc = "idle"
                => call'[c].result # "Unauthenticated"]_vars
  BY NextGood DEF Good, Suffices
<1> QED
  BY <1>1, Invariance, PTL DEF Spec, RefreshSuffices
==============================================================================
