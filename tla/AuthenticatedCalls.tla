-------------------------- MODULE AuthenticatedCalls --------------------------
(***************************************************************************)
(* The calls ksef2-mcp makes to KSeF: the services and the client factory  *)
(* they share, each made once and cached, the XAdES credentials a factory  *)
(* caches file by file (services/authenticated_client.py), and what an     *)
(* exception becomes on its way to the tool (services/tokens.py,           *)
(* permissions.py, sessions.py).                                           *)
(*                                                                         *)
(* No cache takes a lock while it computes, so first calls that overlap    *)
(* each compute.  KSeF, the SDK and the credential files are external: a   *)
(* login, a request, client.close() and the reading of a file may fail,    *)
(* and the two files are replaced, both at once, at any time.              *)
(***************************************************************************)
EXTENDS Naturals, FiniteSets

CONSTANTS
    Calls,          \* tool calls, each made once
    Ops,            \* the tools they are calls of
    AuthModes,      \* the auth_mode settings considered
    MaxGeneration,  \* bound: how often the files are replaced
    None            \* "not there"

ServiceOf ==
    [generate_token |-> "tokens", get_token_status |-> "tokens",
     revoke_token |-> "tokens", list_token_page |-> "tokens",
     list_permissions |-> "permissions",
     open_interactive_session |-> "sessions", close_interactive_session |-> "sessions"]

ASSUME CallsAssumption ==
    /\ IsFiniteSet(Calls) /\ Ops \subseteq DOMAIN ServiceOf /\ MaxGeneration \in Nat
    /\ AuthModes \subseteq {"test_certificate", "token", "xades"}
    /\ None \notin Nat /\ None \notin DOMAIN ServiceOf

Services == {"tokens", "permissions", "sessions"}

Factories == 1..Cardinality(Calls)    \* a call builds one at most
Files    == {"certificate", "private_key"}
Settings == [backend_mode : {"standalone", "platform"},
             auth_mode : AuthModes,
             complete : BOOLEAN]    \* the NIP, the token, the paths are given

\* Exceptions, by the except clauses that tell them apart.  NoCertificate-
\* AvailableError goes with KSeFAuthError, KSeFApiError with KSeFException.
Own     == {"ConfigurationError", "AuthenticationError", "KsefMcpError"}
Refusal == {"KSeFUnsupportedEnvironmentError", "KSeFAuthError"}
SDK     == Refusal \cup {"KSeFException"}
Foreign == SDK \cup {"Exception"}

VARIABLES
    settings,   \* read from the environment, once
    service,    \* the factory of each cached service
    factory,    \* the cached factory
    built,      \* how many factories were built: 1..built
    loaded,     \* the generation of each file a factory has cached
    disk,       \* the generation of the files
    pc,         \* where each call is
    op,         \* the tool of each call under way
    own,        \* the factory each call works with
    used,       \* the generation of each file a call logs in with
    answer,     \* of the call that ended last: what it raised, whether KSeF acted
    together,   \* history: the call overlapped another
    torn,       \* history: the files were replaced while the factory loaded them
    settled     \* history: what a call of the service that met no other logged in with

caches  == <<settings, service, factory, built, loaded, disk>>
history == <<together, torn, settled>>
vars    == <<caches, pc, op, own, used, answer, history>>

ActiveCalls == {c \in Calls : pc[c] \notin {"idle", "ended"}}
NoFiles     == [p \in Files |-> None]

Init ==
    /\ settings \in Settings
    /\ service = [s \in Services |-> None]
    /\ factory = None /\ built = 0
    /\ loaded = [f \in Factories |-> NoFiles]
    /\ disk = 0
    /\ pc = [c \in Calls |-> "idle"]
    /\ op = [c \in Calls |-> None]
    /\ own = [c \in Calls |-> None]
    /\ used = [c \in Calls |-> NoFiles]
    /\ answer = [exc |-> "none", effect |-> FALSE]
    /\ together = [c \in Calls |-> FALSE]
    /\ torn = {}
    /\ settled = [s \in Services |-> NoFiles]

-----------------------------------------------------------------------------
Goto(c, where) == pc' = [pc EXCEPT ![c] = where]
MyService(c)   == ServiceOf[op[c]]

Begin(c) ==
    /\ pc[c] = "idle"
    /\ \E o \in Ops : op' = [op EXCEPT ![c] = o]
    /\ Goto(c, "service")
    /\ together' = [d \in Calls |->
           together[d] \/ (d \in ActiveCalls \cup {c} /\ ActiveCalls # {})]
    /\ UNCHANGED <<caches, own, used, answer, torn, settled>>

\* What create() does first.
Opened == IF settings.auth_mode = "xades" THEN "certificate" ELSE "login"

-----------------------------------------------------------------------------
(* get_token_service and its siblings; get_authenticated_client_factory. *)

FindService(c) ==
    /\ pc[c] = "service"
    /\ own' = [own EXCEPT ![c] = service[MyService(c)]]
    /\ Goto(c, IF service[MyService(c)] = None THEN "factory" ELSE Opened)
    /\ UNCHANGED <<caches, op, used, answer, history>>

\* (Mutant: a miss is taken for an answer.)
FindFactoryMissing(c) ==
    /\ pc[c] = "factory"
    /\ own' = [own EXCEPT ![c] = factory]
    /\ Goto(c, "keep")
    /\ UNCHANGED <<caches, op, used, answer, history>>

FindFactory(c) ==
    /\ pc[c] = "factory"
    /\ own' = [own EXCEPT ![c] = factory]
    /\ Goto(c, IF factory = None THEN "build" ELSE "keep")
    /\ UNCHANGED <<caches, op, used, answer, history>>

\* functools.cache stores a result when it has it, over another one too.
BuildFactory(c) ==
    /\ pc[c] = "build" /\ settings.backend_mode = "standalone"
    /\ built' = built + 1 /\ factory' = built'
    /\ own' = [own EXCEPT ![c] = built']
    /\ Goto(c, "keep")
    /\ UNCHANGED <<settings, service, loaded, disk, op, used, answer, history>>

\* Outside every try.
BackendUnsupported(c) ==
    /\ pc[c] = "build" /\ settings.backend_mode = "platform"
    /\ answer' = [exc |-> "NotImplementedError", effect |-> FALSE]
    /\ Goto(c, "ended")
    /\ UNCHANGED <<caches, op, own, used, history>>

\* lru_cache(maxsize=1) keeps the result that came first; every caller goes on
\* with its own.
KeepService(c) ==
    /\ pc[c] = "keep"
    /\ service' = [service EXCEPT ![MyService(c)] = IF @ = None THEN own[c] ELSE @]
    /\ Goto(c, Opened)
    /\ UNCHANGED <<settings, factory, built, loaded, disk,
                   op, own, used, answer, history>>

-----------------------------------------------------------------------------
(* AuthenticatedClientFactory.create, up to its yield. *)

Reading == [certificate |-> "certificate_read", private_key |-> "private_key_read"]
AfterLoad == [certificate |-> "private_key", private_key |-> "login"]

Cached(c, p) == loaded[own[c]][p]

\* (Mutant: the certificate is a property, read from the file every time.)
LoadCertificateAgain(c, p) ==
    /\ pc[c] = p /\ settings.complete
    /\ used' = [used EXCEPT ![c][p] =
           IF Cached(c, p) = None \/ p = "certificate" THEN disk ELSE Cached(c, p)]
    /\ Goto(c, IF Cached(c, p) = None THEN Reading[p] ELSE AfterLoad[p])
    /\ UNCHANGED <<caches, op, own, answer, history>>

\* cached_property: a hit, or a file read now and stored in a step of its own.
Load(c, p) ==
    /\ pc[c] = p /\ settings.complete
    /\ used' = [used EXCEPT ![c][p] = IF Cached(c, p) = None THEN disk ELSE Cached(c, p)]
    /\ Goto(c, IF Cached(c, p) = None THEN Reading[p] ELSE AfterLoad[p])
    /\ UNCHANGED <<caches, op, own, answer, history>>

\* (Mutant: what was read is not kept.)
StoreForgets(c, p) ==
    /\ pc[c] = Reading[p]
    /\ Goto(c, AfterLoad[p])
    /\ UNCHANGED <<caches, op, own, used, answer, history>>

Store(c, p) ==
    /\ pc[c] = Reading[p]
    /\ loaded' = [loaded EXCEPT ![own[c]][p] = used[c][p]]
    /\ Goto(c, AfterLoad[p])
    /\ UNCHANGED <<settings, service, factory, built, disk,
                   op, own, used, answer, history>>

-----------------------------------------------------------------------------
(* The way out of a call: of create(), of the service method. *)

\* (Mutant: except KSeFException in place of except KSeFAuthError.)
CreateRaisesAnySDK(e) ==
    IF e = "KSeFUnsupportedEnvironmentError" THEN "ConfigurationError"
    ELSE IF e \in SDK THEN "AuthenticationError" ELSE e

\* The except clauses of create() surround its yield.
CreateRaises(e) ==
    IF e = "KSeFUnsupportedEnvironmentError" THEN "ConfigurationError"
    ELSE IF e = "KSeFAuthError" THEN "AuthenticationError" ELSE e

\* (Mutant: except KSeFException in place of except Exception.)
SessionRaisesForeign(e) == IF e \in SDK THEN "KsefMcpError" ELSE e

TokenRaises(e)      == IF e \in SDK THEN "KsefMcpError" ELSE e
PermissionRaises(e) == IF e \in SDK THEN "KsefMcpError" ELSE e
SessionRaises(e)    == IF e \in Foreign THEN "KsefMcpError" ELSE e
PageRaises(e)       == e

ServiceRaises(o, e) ==
    CASE o = "list_token_page"         -> PageRaises(e)
      [] o = "list_permissions"        -> PermissionRaises(e)
      [] ServiceOf[o] = "sessions"     -> SessionRaises(e)
      [] OTHER                         -> TokenRaises(e)

\* e was raised inside the with block, or "none"; done tells whether KSeF acted.
\* The finally clause closes the client: what close() raises replaces e.
Leave(c, e, done) ==
    /\ \E out \in {CreateRaises(e), "Exception"} :
           answer' = [exc |-> ServiceRaises(op[c], out), effect |-> done]
    /\ settled' = IF together[c] \/ None \in {used[c][p] : p \in Files} THEN settled
                  ELSE [settled EXCEPT ![MyService(c)] = used[c]]
    /\ op' = [op EXCEPT ![c] = None] /\ own' = [own EXCEPT ![c] = None]
    /\ used' = [used EXCEPT ![c] = NoFiles]
    /\ together' = [together EXCEPT ![c] = FALSE]
    /\ Goto(c, "ended")
    /\ UNCHANGED <<caches, torn>>

NotConfigured(c) ==
    /\ pc[c] = Opened /\ ~settings.complete
    /\ Leave(c, "ConfigurationError", FALSE)

LoadFails(c, p) ==
    /\ pc[c] = p /\ settings.complete /\ Cached(c, p) = None
    /\ Leave(c, "ConfigurationError", FALSE)

\* Logs in and asks.
Request(c) == pc[c] = "login" /\ settings.complete /\ Leave(c, "none", TRUE)

\* The login fails, or the request, which has no effect when it is refused for who
\* makes it and may have had one otherwise, when its answer is lost.
RequestFails(c) ==
    /\ pc[c] = "login" /\ settings.complete
    /\ \E e \in Foreign, done \in BOOLEAN :
           (e \in Refusal => ~done) /\ Leave(c, e, done)

-----------------------------------------------------------------------------
HalfLoaded(f) ==
    \/ loaded[f]["certificate"] # None /\ loaded[f]["private_key"] = None
    \/ \E c \in Calls : own[c] = f /\ pc[c] \in {"certificate_read", "private_key"}

ReplaceFiles ==
    /\ disk < MaxGeneration
    /\ disk' = disk + 1
    /\ torn' = torn \cup {f \in Factories : HalfLoaded(f)}
    /\ UNCHANGED <<settings, service, factory, built, loaded,
                   pc, op, own, used, answer, together, settled>>

Resolve(c) == FindService(c) \/ FindFactory(c) \/ BuildFactory(c)
              \/ BackendUnsupported(c) \/ KeepService(c)
Authenticate(c) == \/ NotConfigured(c) \/ Request(c) \/ RequestFails(c)
                   \/ \E p \in Files : Load(c, p) \/ Store(c, p) \/ LoadFails(c, p)

Finished == (\A c \in Calls : pc[c] = "ended") /\ UNCHANGED vars

Next == \/ \E c \in Calls : Begin(c) \/ Resolve(c) \/ Authenticate(c)
        \/ ReplaceFiles \/ Finished

Spec == Init /\ [][Next]_vars

-----------------------------------------------------------------------------
(***************************************************************************)
(* Every variable has the shape its comment gives it, and a call past the  *)
(* service lookup has a factory that was built.                            *)
(***************************************************************************)
Generation == Nat \cup {None}

TypeOK ==
    /\ settings \in Settings
    /\ service \in [Services -> 1..built \cup {None}] /\ factory \in 1..built \cup {None}
    /\ built \in 0..Cardinality(Calls)
    /\ loaded \in [Factories -> [Files -> Generation]] /\ disk \in Nat
    /\ pc \in [Calls -> {"idle", "service", "factory", "build", "keep",
                         "certificate", "certificate_read", "private_key",
                         "private_key_read", "login", "ended"}]
    /\ op \in [Calls -> Ops \cup {None}]
    /\ own \in [Calls -> 1..built \cup {None}]
    /\ used \in [Calls -> [Files -> Generation]]
    /\ answer \in [exc : Own \cup Foreign \cup {"none", "NotImplementedError"},
                   effect : BOOLEAN]
    /\ together \in [Calls -> BOOLEAN]
    /\ torn \subseteq Factories
    /\ settled \in [Services -> [Files -> Generation]]
    /\ \A c \in Calls :
           /\ pc[c] \notin {"idle", "ended"} => op[c] \in Ops
           /\ pc[c] \notin {"idle", "service", "factory", "build", "ended"} => own[c] \in 1..built

LoggingIn(c) == pc[c] = "login" /\ None \notin {used[c][p] : p \in Files}

(***************************************************************************)
(* get_xades_credentials gives a certificate and a private key of the same *)
(* generation, unless the files were replaced when the factory had one of  *)
(* the two: the caches of one factory never drift apart otherwise, however *)
(* many calls load them at a time, fail and retry.                         *)
(***************************************************************************)
MatchedCredentials == \A c \in Calls :
    LoggingIn(c) => used[c]["certificate"] = used[c]["private_key"] \/ own[c] \in torn

(***************************************************************************)
(* Once a call of a service has loaded the credentials and met no other    *)
(* call, every later call of that service logs in with the very same ones, *)
(* until the process ends: whatever other services build and load, and     *)
(* however often the files are replaced.                                   *)
(***************************************************************************)
StableLogin == \A c \in Calls :
    LoggingIn(c) /\ None \notin {settled[MyService(c)][p] : p \in Files}
        => used[c] = settled[MyService(c)]

(***************************************************************************)
(* A call that reports missing configuration or a failed login changed     *)
(* nothing at KSeF, although create() translates what the body raises, and *)
(* close() raises after the body.                                          *)
(***************************************************************************)
RefusedWithoutEffect ==
    answer.exc \in {"ConfigurationError", "AuthenticationError"} => ~answer.effect

(***************************************************************************)
(* Of the SDK's exceptions only list_token_page lets one out, and a        *)
(* session tool lets nothing foreign out, wherever it was raised: loading, *)
(* logging in, in the request or closing.                                  *)
(***************************************************************************)
ErrorsTranslated == [][\A c \in ActiveCalls : pc'[c] = "ended" =>
    /\ answer'.exc \in SDK => op[c] = "list_token_page"
    /\ answer'.exc \in Foreign => MyService(c) # "sessions"]_vars
=============================================================================
