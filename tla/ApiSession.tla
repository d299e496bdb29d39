----------------------------- MODULE ApiSession ------------------------------
(***************************************************************************)
(* The authenticated calls of the slave API: the TokenStore of a slave     *)
(* (slave/src/token_store.rs), the check at the head of every RPC and      *)
(* get_token (slave/src/slave_api.rs), and the clones of one               *)
(* SlaveApiClient (master/src/slave_api_client.rs), which share a cached   *)
(* token.                                                                  *)
(*                                                                         *)
(* The seven RPCs of the client are the same code around a different       *)
(* request; what the request does to the slave is counted, not modelled.   *)
(* The clones are tasks of a multi-threaded runtime: every await is a      *)
(* place where another clone may run.                                      *)
(***************************************************************************)
EXTENDS Naturals, Sequences

CONSTANTS
    Clones,         \* the clones of the client
    TokenTtl,       \* TOKEN_TTL_SECONDS
    MaxTime,        \* bound on the clock
    MaxTokens,      \* bound on the tokens issued
    MaxRestarts     \* bound on the restarts of the slave

ASSUME ApiSessionAssumption ==
    /\ TokenTtl \in Nat \ {0}
    /\ MaxTime \in Nat
    /\ MaxTokens \in Nat
    /\ MaxRestarts \in Nat

VARIABLES
    now,            \* Instant::now()
    tokens,         \* the TokenStore: token hashes and their expiry
    issues,         \* when, and in which life of the slave, each token was issued
    keyMatches,     \* the shared key of the client is the one of the slave
    restarts,       \* how often the slave has restarted
    cached,         \* SlaveApiClient::token
    call            \* the running, or else the last, call of every clone

vars == <<now, tokens, issues, keyMatches, restarts, cached, call>>

\* A token is its number among the tokens ever issued.
NoToken == 0
Tokens == 1..MaxTokens

Places == {"idle", "ensure", "refresh", "store", "attach", "send", "answered", "refused"}
Results == {"none", "Ok", "Unauthenticated", "Unavailable"}

\* kind: an RPC that needs a token, or get_token itself.  runs: how often the
\* slave has executed the request.  disturbed: another clone has written the
\* cached token, or the slave has restarted, since the call began.
CallRecords == [pc: Places, kind: {"rpc", "getToken"}, attempt: {1, 2},
                token: Tokens \cup {NoToken}, runs: Nat, since: 0..MaxTime,
                disturbed: BOOLEAN, result: Results]

NoCall == [pc |-> "idle", kind |-> "rpc", attempt |-> 1, token |-> NoToken, runs |-> 0,
           since |-> 0, disturbed |-> FALSE, result |-> "none"]

Running(c) == call[c].pc # "idle"
------------------------------------------------------------------------------
Init ==
    /\ now = 0
    /\ tokens = {}
    /\ issues = <<>>
    /\ keyMatches \in BOOLEAN
    /\ restarts = 0
    /\ cached = NoToken
    /\ call = [c \in Clones |-> NoCall]
------------------------------------------------------------------------------
(***************************************************************************)
(* The TokenStore.                                                         *)
(***************************************************************************)

\* prune_expired_locked
Prune(table, t) == { r \in table : r.expires > t }

\* A mutant: the lifetime is added twice.
InsertToken_TtlTwice(table, tok, t) ==
    Prune(table, t) \cup {[token |-> tok, expires |-> t + TokenTtl + TokenTtl]}

\* insert_token of a token issued at t.
InsertToken(table, tok, t) ==
    Prune(table, t) \cup {[token |-> tok, expires |-> t + TokenTtl]}

\* A mutant: a token lives until it is pruned.
ValidateToken_NoExpiry(table, tok, t) == \E r \in table : r.token = tok

\* validate_token: the verdict; the table it leaves is the pruned one.
ValidateToken(table, tok, t) == \E r \in Prune(table, t) : r.token = tok /\ r.expires > t
------------------------------------------------------------------------------
(***************************************************************************)
(* The steps of a call.                                                    *)
(***************************************************************************)
Goto(c, place) == [call EXCEPT ![c].pc = place]

\* The record of a call that has returned: its result and what it did.
Over(record, result) == [NoCall EXCEPT !.runs = record.runs, !.result = result]
Return(c, result) == [call EXCEPT ![c] = Over(@, result)]

\* The calls after c has moved on to place and written the cached token,
\* which every other running call may notice.
Disturbed(c, new) ==
    [d \in Clones |-> IF d = c THEN new
                      ELSE [call[d] EXCEPT !.disturbed = @ \/ Running(d)]]

\* One of the calls of the client, or get_token, which only refreshes.
StartCall(c, kind) ==
    /\ ~Running(c)
    /\ call' = [call EXCEPT ![c] =
          [NoCall EXCEPT !.pc = IF kind = "rpc" THEN "ensure" ELSE "refresh",
                         !.kind = kind, !.since = now]]
    /\ UNCHANGED <<now, tokens, issues, keyMatches, restarts, cached>>

\* ensure_token: is there a token?
EnsureToken(c) ==
    /\ call[c].pc = "ensure"
    /\ call' = Goto(c, IF cached # NoToken THEN "attach" ELSE "refresh")
    /\ UNCHANGED <<now, tokens, issues, keyMatches, restarts, cached>>

\* The slave serves get_token.  A key it does not know gets no token: a
\* refresh fails, get_token itself hands the refusal to its caller.
ServeGetToken(c) ==
    /\ call[c].pc = "refresh"
    /\ IF keyMatches
       THEN /\ Len(issues) < MaxTokens
            /\ issues' = Append(issues, [at |-> now, boot |-> restarts])
            /\ tokens' = InsertToken(tokens, Len(issues'), now)
            /\ call' = [call EXCEPT ![c].pc = "store", ![c].token = Len(issues')]
       ELSE /\ call' = Return(c, IF call[c].kind = "rpc" THEN "Unauthenticated" ELSE "Ok")
            /\ UNCHANGED <<issues, tokens>>
    /\ UNCHANGED <<now, keyMatches, restarts, cached>>

\* get_token, once the response is there: the token is cached.
StoreToken(c) ==
    /\ call[c].pc = "store"
    /\ cached' = call[c].token
    /\ call' = Disturbed(c, IF call[c].kind = "rpc" THEN [call[c] EXCEPT !.pc = "attach"]
                            ELSE Over(call[c], "Ok"))
    /\ UNCHANGED <<now, tokens, issues, keyMatches, restarts>>

\* attach_token reads the token again: it may be gone since ensure_token, and
\* that error is returned without a retry.
AttachToken(c) ==
    /\ call[c].pc = "attach"
    /\ call' = IF cached = NoToken THEN Return(c, "Unauthenticated")
               ELSE [call EXCEPT ![c].pc = "send", ![c].token = cached]
    /\ UNCHANGED <<now, tokens, issues, keyMatches, restarts, cached>>

\* An RPC reaches the slave: its token is validated before anything else.
ServeRpc(c) ==
    /\ call[c].pc = "send"
    /\ tokens' = Prune(tokens, now)
    /\ call' = IF ValidateToken(tokens, call[c].token, now)
               THEN [call EXCEPT ![c].pc = "answered", ![c].runs = @ + 1]
               ELSE Goto(c, "refused")
    /\ UNCHANGED <<now, issues, keyMatches, restarts, cached>>

\* The response to a request that was executed.
Answered(c) ==
    /\ call[c].pc = "answered"
    /\ call' = Return(c, "Ok")
    /\ UNCHANGED <<now, tokens, issues, keyMatches, restarts, cached>>

\* A mutant: the retry goes on with the token that was refused.
Refused_KeepsToken(c) ==
    /\ call[c].pc = "refused"
    /\ call' = IF call[c].attempt = 2 THEN Return(c, "Unauthenticated")
               ELSE [call EXCEPT ![c].pc = "ensure", ![c].attempt = 2]
    /\ UNCHANGED <<now, tokens, issues, keyMatches, restarts, cached>>

\* The response Unauthenticated: the cached token is invalidated, whatever it
\* is by now, and the request made once more; the second time it is returned.
Refused(c) ==
    /\ call[c].pc = "refused"
    /\ IF call[c].attempt = 1
       THEN /\ cached' = NoToken
            /\ call' = Disturbed(c, [call[c] EXCEPT !.pc = "ensure", !.attempt = 2])
       ELSE /\ call' = Return(c, "Unauthenticated")
            /\ UNCHANGED cached
    /\ UNCHANGED <<now, tokens, issues, keyMatches, restarts>>

\* A mutant: a transport error is retried like a refused token.
Lose_Retries(c) ==
    /\ call[c].pc \in {"refresh", "store", "send", "answered", "refused"}
    /\ call' = IF call[c].attempt = 1 THEN [call EXCEPT ![c].pc = "ensure", ![c].attempt = 2]
               ELSE Return(c, "Unavailable")
    /\ UNCHANGED <<now, tokens, issues, keyMatches, restarts, cached>>

\* A request or its response is lost with the connection: any other status
\* than Unauthenticated is returned to the caller.
Lose(c) ==
    /\ call[c].pc \in {"refresh", "store", "send", "answered", "refused"}
    /\ call' = Return(c, "Unavailable")
    /\ UNCHANGED <<now, tokens, issues, keyMatches, restarts, cached>>
------------------------------------------------------------------------------
\* The clock.
Tick ==
    /\ now < MaxTime
    /\ now' = now + 1
    /\ UNCHANGED <<tokens, issues, keyMatches, restarts, cached, call>>

\* The slave restarts: its TokenStore is in memory only.
RestartSlave ==
    /\ restarts < MaxRestarts
    /\ restarts' = restarts + 1
    /\ tokens' = {}
    /\ call' = [d \in Clones |-> [call[d] EXCEPT !.disturbed = @ \/ Running(d)]]
    /\ UNCHANGED <<now, issues, keyMatches, cached>>

Step(c) ==
    \/ \E kind \in {"rpc", "getToken"} : StartCall(c, kind)
    \/ EnsureToken(c)
    \/ ServeGetToken(c)
    \/ StoreToken(c)
    \/ AttachToken(c)
    \/ ServeRpc(c)
    \/ Answered(c)
    \/ Refused(c)
    \/ Lose(c)

Next ==
    \/ \E c \in Clones : Step(c)
    \/ Tick
    \/ RestartSlave

Spec == Init /\ [][Next]_vars
------------------------------------------------------------------------------
(***************************************************************************)
(* Properties.                                                             *)
(***************************************************************************)

\* Every variable has its type; no token is entered with an impossible expiry.
TypeOK ==
    /\ now \in 0..MaxTime
    /\ tokens \subseteq [token: Tokens, expires: 0..MaxTime + TokenTtl]
    /\ issues \in Seq([at: 0..MaxTime, boot: 0..MaxRestarts])
    /\ Len(issues) <= MaxTokens
    /\ keyMatches \in BOOLEAN
    /\ restarts \in 0..MaxRestarts
    /\ cached \in Tokens \cup {NoToken}
    /\ call \in [Clones -> CallRecords]

\* The retry never repeats a request that had an effect: the slave executes a
\* call at most once, and a call that ends with Unauthenticated not at all.
AtMostOnce ==
    \A c \in Clones :
        /\ call[c].runs <= 1
        /\ call[c].result = "Unauthenticated" /\ ~Running(c) => call[c].runs = 0

\* One refresh is enough: a call with the right key that meets no other writer
\* of the cached token and no restart, and is over before a fresh token
\* expires, does not end with Unauthenticated, however stale the token was
\* that it began with.
Undisturbed(c) == keyMatches /\ ~call[c].disturbed /\ now < call[c].since + TokenTtl
RefreshSuffices ==
    [][\A c \in Clones : Running(c) /\ Undisturbed(c) /\ call'[c].pc = "idle"
            => call'[c].result # "Unauthenticated"]_vars

\* The slave executes a request only for a client that had the key, within
\* TOKEN_TTL of the issue of the token it presents, and only in the life in
\* which it issued the token.
Fresh(tok) == /\ tok \in DOMAIN issues
              /\ now < issues[tok].at + TokenTtl
              /\ issues[tok].boot = restarts
AuthorisedOnly ==
    [][\A c \in Clones : call'[c].runs > call[c].runs => keyMatches /\ Fresh(call[c].token)]_vars
==============================================================================
