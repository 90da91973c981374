----------------------------- MODULE HostAccount -----------------------------
(***************************************************************************)
(* An account whose host hands out tokens (token_login): the clients of    *)
(* network/file_host_client.py that the upload worker and the credential   *)
(* tests make for their calls, the one the file manager keeps, and         *)
(* network/token_cache.py, which they share without a lock.  Each call of  *)
(* the cache is one step.                                                  *)
(***************************************************************************)
EXTENDS Naturals

CONSTANTS
    Clients,        \* threads that make a FileHostClient for each call
    MaxTokens       \* bound on logins

ASSUME TokensAssumption == MaxTokens \in Nat

NoToken == 0
Tokens == 1..MaxTokens

VARIABLES
    live,           \* the tokens that the host accepts
    issued,         \* logins so far; the n-th login is given token n
    cachedToken,    \* TokenCache
    client,         \* [pc, token, renewed] of each FileHostClient
    manager,        \* [pc, token] of the file manager's client
    dropped         \* history: tokens that were refused and cleared

accountVars == <<live, issued, cachedToken, client, manager, dropped>>

\* renewed: the token for which this call has logged in after a refusal.
AccountInit ==
    /\ live = {} /\ issued = 0 /\ cachedToken = NoToken /\ dropped = {}
    /\ client = [c \in Clients |-> [pc |-> "idle", token |-> NoToken, renewed |-> NoToken]]
    /\ manager = [pc |-> "idle", token |-> NoToken]

-----------------------------------------------------------------------------
(* The host.  A login may end the tokens it has handed out before.         *)

TokenDies(t) ==
    /\ t \in live /\ live' = live \ {t}
    /\ UNCHANGED <<issued, cachedToken, client, manager, dropped>>

\* get_token clears an entry that is past its time to live.
CacheExpires ==
    /\ cachedToken # NoToken /\ cachedToken' = NoToken
    /\ UNCHANGED <<live, issued, client, manager, dropped>>

\* _login_token_based hands out the next token.
Login ==
    /\ issued < MaxTokens /\ issued' = issued + 1
    /\ live' \in {live \cup {issued + 1}, {issued + 1}}

-----------------------------------------------------------------------------
(* A FileHostClient.                                                       *)

At(c, pc) == client[c].pc = pc
Go(c, pc) == client' = [client EXCEPT ![c].pc = pc]
GoWith(c, pc, token) == client' = [client EXCEPT ![c].pc = pc, ![c].token = token]

\* The constructor takes the cached token.
MakeClient(c) ==
    /\ client[c].pc \in {"idle", "refused"}
    /\ client' = [client EXCEPT
         ![c] = [pc |-> IF cachedToken = NoToken THEN "log in" ELSE "send",
                 token |-> cachedToken, renewed |-> NoToken]]
    /\ UNCHANGED <<live, issued, cachedToken, manager, dropped>>

\* A client that sends several parts keeps its token.
SendNext(c) ==
    /\ At(c, "idle") /\ client[c].token # NoToken
    /\ client' = [client EXCEPT ![c].pc = "send", ![c].renewed = NoToken]
    /\ UNCHANGED <<live, issued, cachedToken, manager, dropped>>

\* Without one it logs in.  A login that fails ends the call.
FirstLogin(c) ==
    /\ At(c, "log in")
    /\ \/ Login /\ GoWith(c, "store", issued + 1)
       \/ Go(c, "idle") /\ UNCHANGED <<live, issued>>
    /\ UNCHANGED <<cachedToken, manager, dropped>>

StoreToken(c) ==
    /\ At(c, "store") /\ cachedToken' = client[c].token
    /\ Go(c, IF client[c].renewed = NoToken THEN "send" ELSE "send again")
    /\ UNCHANGED <<live, issued, manager, dropped>>

\* _with_token_retry: upload, delete, user info and other requests alike.  A
\* refusal is taken for a dead token once.
SendCall(c) ==
    /\ At(c, "send") /\ Go(c, IF client[c].token \in live THEN "idle" ELSE "clear")
    /\ UNCHANGED <<live, issued, cachedToken, manager, dropped>>

\* _refresh_auth_token: clear, log in, take the token over, store it.
ClearToken(c) ==
    /\ At(c, "clear") /\ Go(c, "log in again")
    /\ cachedToken' = NoToken /\ dropped' = dropped \cup {client[c].token}
    /\ UNCHANGED <<live, issued, manager>>

\* Mutant: the client keeps the token it has.
LoginAgain_Keeps(c) ==
    /\ At(c, "log in again")
    /\ \/ Login /\ client' = [client EXCEPT ![c].pc = "store", ![c].renewed = issued + 1]
       \/ Go(c, "idle") /\ UNCHANGED <<live, issued>>
    /\ UNCHANGED <<cachedToken, manager, dropped>>

\* A login that fails ends the call with the first error.
LoginAgain(c) ==
    /\ At(c, "log in again")
    /\ \/ Login /\ client' = [client EXCEPT ![c].pc = "store", ![c].token = issued + 1,
                                            ![c].renewed = issued + 1]
       \/ Go(c, "idle") /\ UNCHANGED <<live, issued>>
    /\ UNCHANGED <<cachedToken, manager, dropped>>

SendAgain(c) ==
    /\ At(c, "send again") /\ Go(c, IF client[c].token \in live THEN "idle" ELSE "refused")
    /\ UNCHANGED <<live, issued, cachedToken, manager, dropped>>

-----------------------------------------------------------------------------
(* The file manager.                                                       *)

\* _load_rapidgator_token: its client is made from the cached token and kept;
\* without one there is no client, for the login that would follow asks the
\* configuration manager for a method it does not have.
ManagerCall ==
    /\ manager.pc = "idle"
    /\ manager.token # NoToken \/ cachedToken # NoToken
    /\ manager' = [pc |-> "send",
                   token |-> IF manager.token = NoToken THEN cachedToken ELSE manager.token]
    /\ UNCHANGED <<live, issued, cachedToken, client, dropped>>

ManagerSends ==
    /\ manager.pc \in {"send", "send again"}
    /\ manager' = [manager EXCEPT !.pc =
         IF @ = "send again" \/ manager.token \in live THEN "idle" ELSE "clear"]
    /\ UNCHANGED <<live, issued, cachedToken, client, dropped>>

\* _refresh_rapidgator_token, in two steps: whatever is cached is cleared, and
\* what another thread has stored since is taken.
ManagerClears ==
    /\ manager.pc = "clear" /\ manager' = [manager EXCEPT !.pc = "read"]
    /\ cachedToken' = NoToken /\ dropped' = dropped \cup {manager.token}
    /\ UNCHANGED <<live, issued, client>>

ManagerReads ==
    /\ manager.pc = "read"
    /\ manager' = IF cachedToken \in {NoToken, manager.token} THEN [manager EXCEPT !.pc = "idle"]
                  ELSE [manager EXCEPT !.pc = "send again", !.token = cachedToken]
    /\ UNCHANGED <<live, issued, cachedToken, client, dropped>>

ClientStep(c) ==
    \/ MakeClient(c) \/ SendNext(c) \/ FirstLogin(c) \/ StoreToken(c) \/ SendCall(c)
    \/ ClearToken(c) \/ LoginAgain(c) \/ SendAgain(c)

ManagerStep == ManagerCall \/ ManagerSends \/ ManagerClears \/ ManagerReads

AccountNext ==
    \/ \E c \in Clients : ClientStep(c)
    \/ ManagerStep \/ CacheExpires \/ \E t \in Tokens : TokenDies(t)

AccountSpec == AccountInit /\ [][AccountNext]_accountVars

-----------------------------------------------------------------------------

ClientPCs == {"idle", "log in", "store", "send", "clear", "log in again", "send again", "refused"}

AccountTypeOK ==
    /\ live \subseteq Tokens /\ issued \in 0..MaxTokens /\ dropped \subseteq Tokens
    /\ cachedToken \in {NoToken} \cup Tokens
    /\ client \in [Clients -> [pc : ClientPCs, token : {NoToken} \cup Tokens,
                               renewed : {NoToken} \cup Tokens]]
    /\ manager \in [pc : {"idle", "send", "clear", "read", "send again"},
                    token : {NoToken} \cup Tokens]

\* A call that is refused in the end was refused the token of its own new login.
RefusedOnlyAfterLogin ==
    \A c \in Clients : At(c, "refused") =>
        client[c].token = client[c].renewed /\ client[c].token # NoToken

\* A token that was refused and cleared never comes back into the cache.
DroppedStaysOut == cachedToken \notin dropped

\* However the threads clear and replace the token they share, no call gives up
\* on a stale one, and nobody puts back a token that another has found dead.
FreshTokens == RefusedOnlyAfterLogin /\ DroppedStaysOut
=============================================================================
