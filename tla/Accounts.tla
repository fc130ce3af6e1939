------------------------------ MODULE Accounts ------------------------------
(***************************************************************************)
(* Users, their tokens and keys (pkg/users, pkg/authn) and the system      *)
(* settings (pkg/settings), each with its cache in front of the database   *)
(* (internal/cache).                                                       *)
(*                                                                         *)
(* One username, one API key and one setting: the caches treat every key   *)
(* alike.  A process is a request's goroutine; between a query and the     *)
(* cache's Set it holds no lock.  The command line and an administrator    *)
(* with SIGHUP act beside the requests.                                    *)
(***************************************************************************)
EXTENDS Integers, Policy

CONSTANTS
    Procs,       \* goroutines of requests
    Passwords,   \* what users type
    Acceptable,  \* of at least five characters (NewPlainPassword)
    Strong,      \* of enough entropy (passwordvalidator)
    Blank,       \* the empty password
    Callers,     \* who changes a password: [admin, self]
    Keys,        \* keys that are asked for: [kind, expires, disabled]
    Values,      \* values of the setting
    MaxClock,    \* bound: ticks
    Second,      \* ticks of a second
    MaxOps,      \* bound: requests
    MaxFaults    \* bound: failing statements

Nobody == "nobody"
NoValue == "no value"
Nil == "nil"

ASSUME AccountsAssumption ==
    /\ Nobody \notin Procs /\ NoValue \notin Values /\ Nil \notin Values
    /\ MaxClock \in Nat /\ Second \in Nat \ {0}
    /\ MaxOps \in Nat /\ MaxFaults \in Nat
    /\ Blank \notin Passwords /\ Acceptable \subseteq Passwords

VARIABLES
    clock,     \* the time
    row,       \* users: the row, or NoUser
    cache,     \* users.store.Cache: the record, or NoUser
    lock,      \* who holds the lock of the users' cache (ChangePassword), or Nobody
    suspect,   \* history: the users' cache may be older than the row
    tokens,    \* refresh tokens that were given out
    key,       \* api_keys: the row, or NoKey
    srow,      \* settings: the value, or NoValue
    scache,    \* settings' cache: an entry, or NoEntry
    ssuspect,  \* history: the settings' cache may differ from the row
    op,        \* what each process is at
    ops,       \* requests so far
    faults     \* failed statements so far
users == <<row, cache, lock, suspect>>
setting == <<srow, scache, ssuspect>>
vars == <<clock, users, tokens, key, setting, op, ops, faults>>

NoUser == [there |-> FALSE, pw |-> Blank, setAt |-> 0, mail |-> 0, login |-> 0]
User(pw, at, mail) == [there |-> TRUE, pw |-> pw, setAt |-> at, mail |-> mail, login |-> 0]
NoKey == [kind |-> "none", expires |-> 0, disabled |-> TRUE]
NoEntry == [val |-> NoValue, raw |-> FALSE]
Entry(val, raw) == [val |-> val, raw |-> raw]
Idle == [kind |-> "none", pc |-> "idle", arg |-> 0, rec |-> NoUser, ent |-> NoEntry,
         since |-> 0]

Tick ==
    /\ clock < MaxClock /\ clock' = clock + 1
    /\ UNCHANGED <<users, tokens, key, setting, op, ops, faults>>

-----------------------------------------------------------------------------
\* The steps of a request.
At(p, pc) == op[p].pc = pc
Doing(p, kind, pc) == op[p].kind = kind /\ op[p].pc = pc
Goes(p, pc) == op' = [op EXCEPT ![p].pc = pc]
Ends(p) == op' = [op EXCEPT ![p] = Idle]
Fault == faults < MaxFaults /\ faults' = faults + 1
Begins(p, kind, pc, arg) ==
    /\ At(p, "idle") /\ ops < MaxOps /\ ops' = ops + 1
    /\ op' = [op EXCEPT ![p] = [kind |-> kind, pc |-> pc, arg |-> arg, rec |-> NoUser,
                                ent |-> NoEntry, since |-> row.setAt]]
    /\ UNCHANGED <<clock, users, tokens, key, setting, faults>>

\* A process other than p has queried the users, or the settings, and is about
\* to put what it read into the cache.
PutsPending(p) == \E q \in Procs \ {p} : At(q, "put")
SetsPending(p) == \E q \in Procs \ {p} : At(q, "sput")

\* jwtauth.SetIssuedNow: claims count in whole seconds.
IssuedAt(t) == t - (t % Second)
\* Refresh: the token is not from before the password was set.  Variant: no check.
MayRefreshAlways(tok, rec) == TRUE
MayRefresh(tok, rec) == ~(tok.iat < rec.setAt)
Token == [iat |-> IssuedAt(clock), at |-> clock]

\* users.NewPlainPassword trims and measures the password, and returns its zero
\* value.  What was measured is not kept.
NewPlainPassword(w) == Blank

Init ==
    /\ clock = 0 /\ ops = 0 /\ faults = 0
    /\ row \in {NoUser} \cup {User(w, 0, 0) : w \in Acceptable}
    /\ cache = NoUser /\ lock = Nobody /\ suspect = FALSE
    /\ tokens \in {{}, {Token}} /\ key = NoKey
    /\ srow \in {NoValue} \cup Values
    /\ scache = NoEntry /\ ssuspect = FALSE
    /\ op = [p \in Procs |-> Idle]

BeginRead(p) == Begins(p, "read", "get", 0)
BeginRefresh(p) == \E tok \in tokens : Begins(p, "refresh", "get", tok)
BeginLogin(p) == \E w \in Passwords : Begins(p, "login", "get", w)
BeginPasswd(p) ==
    \E c \in Callers, old, new \in Passwords :
        Begins(p, "passwd", "get", [caller |-> c, old |-> old, new |-> new])
BeginUpdate(p) == \E c \in Callers : Begins(p, "update", "find", c)
BeginNewKey(p) == \E k \in Keys : Begins(p, "newKey", "get", k)
BeginUseKey(p) == Begins(p, "useKey", "key", 0)

-----------------------------------------------------------------------------
\* store.GetUser: the cache, or the database and then the cache.
Hit(p) ==
    /\ At(p, "get") /\ lock = Nobody /\ cache.there
    /\ op' = [op EXCEPT ![p].rec = cache, ![p].pc = "got",
                        ![p].since = IF suspect THEN 0 ELSE op[p].since]
    /\ UNCHANGED <<clock, users, tokens, key, setting, ops, faults>>
Miss(p) ==
    /\ At(p, "get") /\ lock = Nobody /\ ~cache.there
    /\ Goes(p, "query")
    /\ UNCHANGED <<clock, users, tokens, key, setting, ops, faults>>
GetUserByUsername == row
Query(p) ==
    /\ At(p, "query")
    /\ \/ /\ GetUserByUsername.there
          /\ op' = [op EXCEPT ![p].rec = GetUserByUsername, ![p].pc = "put"]
          /\ UNCHANGED faults
       \/ /\ ~GetUserByUsername.there /\ Ends(p) /\ UNCHANGED faults
       \/ Fault /\ Ends(p)
    /\ UNCHANGED <<clock, users, tokens, key, setting, ops>>
Put(p) ==
    /\ At(p, "put") /\ lock = Nobody
    /\ cache' = op[p].rec
    /\ IF op[p].kind = "update" THEN Ends(p) ELSE Goes(p, "got")
    /\ UNCHANGED <<clock, row, lock, suspect, tokens, key, setting, ops, faults>>

\* What follows for one who only reads: a user's page, the subject of a token or
\* key.  The preferences of a user are read from the database, then the system's.
Answer(p) ==
    /\ At(p, "got") /\ op[p].kind \in {"read", "useKey", "getPrefs"}
    /\ IF op[p].kind = "getPrefs" THEN Goes(p, "sget") ELSE Ends(p)
    /\ UNCHANGED <<clock, users, tokens, key, setting, ops, faults>>

\* authn.Refresh, authn.Login: on the record of GetUser.
Refresh(p) ==
    /\ Doing(p, "refresh", "got")
    /\ IF MayRefresh(op[p].arg, op[p].rec) THEN Goes(p, "record") ELSE Ends(p)
    /\ UNCHANGED <<clock, users, tokens, key, setting, ops, faults>>
Login(p) ==
    /\ Doing(p, "login", "got")
    /\ IF op[p].rec.pw = op[p].arg THEN Goes(p, "record") ELSE Ends(p)
    /\ UNCHANGED <<clock, users, tokens, key, setting, ops, faults>>
\* RecordLogin updates the row only, and its failure is logged.
RecordUserLogin(u) == IF u.there THEN [u EXCEPT !.login = clock] ELSE u
RecordLogin(p) ==
    /\ At(p, "record") /\ Goes(p, "issue")
    /\ \/ row' = RecordUserLogin(row) /\ UNCHANGED faults
       \/ Fault /\ UNCHANGED row
    /\ UNCHANGED <<clock, cache, lock, suspect, tokens, key, setting, ops>>
NewRefreshToken(p) ==
    /\ At(p, "issue") /\ Ends(p)
    /\ tokens' = tokens \cup {Token}
    /\ UNCHANGED <<clock, users, key, setting, ops, faults>>

\* authn.ChangePassword: who may, whether the old password is asked for (its
\* validation reads the user again), and how strong the new one has to be.
MayUpdate(c) ==
    May(UserRoles(IF c.admin THEN {"Admin"} ELSE {}), "User", "update",
        IF c.self THEN {"userSelf"} ELSE {})
OldPasswordRequired(c) == ~c.admin \/ c.self
Passwd(p) ==
    /\ Doing(p, "passwd", "got")
    /\ LET c == op[p].arg.caller
       IN  CASE ~MayUpdate(c) -> Ends(p)
             [] MayUpdate(c) /\ OldPasswordRequired(c) ->
                    op' = [op EXCEPT ![p].kind = "validate", ![p].pc = "get"]
             [] OTHER -> Goes(p, "change")
    /\ UNCHANGED <<clock, users, tokens, key, setting, ops, faults>>
Validate(p) ==
    /\ Doing(p, "validate", "got")
    /\ IF /\ op[p].rec.pw = op[p].arg.old
          /\ op[p].arg.caller.admin \/ op[p].arg.new \in Strong
       THEN Goes(p, "change") ELSE Ends(p)
    /\ UNCHANGED <<clock, users, tokens, key, setting, ops, faults>>

\* store.ChangePassword, under DeleteAndHoldLock: the record leaves the cache
\* and nobody reads or fills it until the row has its password.  Variant: the
\* record is deleted and the lock given back before the row is written.
DeleteOnly(p) == cache' = NoUser /\ lock' = Nobody
DeleteAndHoldLock(p) == cache' = NoUser /\ lock' = p
ChangePassword(p) ==
    /\ At(p, "change") /\ lock = Nobody
    /\ IF op[p].arg.new \in Acceptable
       THEN DeleteAndHoldLock(p) /\ Goes(p, "write")
       ELSE cache' = NoUser /\ UNCHANGED lock /\ Ends(p)
    /\ UNCHANGED <<clock, row, suspect, tokens, key, setting, ops, faults>>
UpdatePassword(u, w) == IF u.there THEN [u EXCEPT !.pw = w, !.setAt = clock] ELSE u
WritePassword(p) ==
    /\ op[p].kind \in {"passwd", "validate"} /\ At(p, "write")
    /\ \/ /\ row' = UpdatePassword(row, NewPlainPassword(op[p].arg.new))
          /\ suspect' = PutsPending(p) /\ UNCHANGED faults
       \/ Fault /\ UNCHANGED <<row, suspect>>
    /\ lock' = Nobody /\ Ends(p)
    /\ UNCHANGED <<clock, cache, tokens, key, setting, ops>>

\* store.UpdateUser: the check is made on a row of its own query, and what
\* the UPDATE returns goes into the cache.
UpdateUserRow(u) == [u EXCEPT !.mail = 1 - u.mail]
FindUser(p) ==
    /\ At(p, "find")
    /\ \/ /\ IF row.there /\ MayUpdate(op[p].arg) THEN Goes(p, "write") ELSE Ends(p)
          /\ UNCHANGED faults
       \/ Fault /\ Ends(p)
    /\ UNCHANGED <<clock, users, tokens, key, setting, ops>>
UpdateUser(p) ==
    /\ Doing(p, "update", "write")
    /\ \/ /\ row' = UpdateUserRow(row)
          /\ op' = [op EXCEPT ![p].rec = row', ![p].pc = "put"]
          /\ suspect' = (suspect \/ PutsPending(p)) /\ UNCHANGED faults
       \/ Fault /\ Ends(p) /\ UNCHANGED <<row, suspect>>
    /\ UNCHANGED <<clock, cache, lock, tokens, key, setting, ops>>

-----------------------------------------------------------------------------
\* authn.CreateAPIKey, of the owner that was looked up: a key for the API is
\* stored, unless its owner has one of that name; one for Rdio is made and lost.
InsertKey(k) == IF key = NoKey THEN k ELSE key
CreateAPIKey(p) ==
    /\ Doing(p, "newKey", "got") /\ Ends(p)
    /\ \/ /\ key' = IF op[p].arg.kind = "apikey" THEN InsertKey(op[p].arg) ELSE key
          /\ UNCHANGED faults
       \/ Fault /\ UNCHANGED key
    /\ UNCHANGED <<clock, users, tokens, setting, ops>>
\* AuthenticateJWT of the realm of API keys: the row first, then its user.
KeyServes == key # NoKey /\ ~key.disabled /\ ~(clock > key.expires)
GetAPIKey(p) ==
    /\ At(p, "key")
    /\ \/ /\ IF KeyServes THEN Goes(p, "get") ELSE Ends(p)
          /\ UNCHANGED faults
       \/ Fault /\ Ends(p)
    /\ UNCHANGED <<clock, users, tokens, key, setting, ops>>

-----------------------------------------------------------------------------
\* admin users add, admin users passwd: processes with a cache of their own.
CreateUser(w) == User(NewPlainPassword(w), clock, 0)
AddUser(w) == row' = CreateUser(w)
CLIAddUser ==
    /\ ~row.there /\ ops < MaxOps /\ ops' = ops + 1
    /\ \E w \in Acceptable : AddUser(w)
    /\ UNCHANGED <<clock, cache, lock, suspect, tokens, key, setting, op, faults>>
CLIPasswd ==
    /\ row.there /\ ops < MaxOps /\ ops' = ops + 1
    /\ \E w \in Acceptable : row' = UpdatePassword(row, NewPlainPassword(w))
    /\ suspect' = (suspect \/ cache.there \/ \E q \in Procs : At(q, "put"))
    /\ UNCHANGED <<clock, cache, lock, tokens, key, setting, op, faults>>
\* SIGHUP empties the users' cache.
HUP ==
    /\ lock = Nobody /\ cache.there
    /\ cache' = NoUser /\ suspect' = (\E q \in Procs : At(q, "put"))
    /\ UNCHANGED <<clock, row, lock, tokens, key, setting, op, ops, faults>>

-----------------------------------------------------------------------------
(***************************************************************************)
(* settings.postgresStore, for callers whom the policy lets.               *)
(***************************************************************************)
BeginGet(p) == Begins(p, "get", "sget", 0)
BeginGetPrefs(p) == Begins(p, "getPrefs", "get", 0)
BeginSet(p) == \E v \in Values : Begins(p, "set", "swrite", v)
BeginDelete(p) == Begins(p, "delete", "sdelete", 0)

\* Get and GetPrefs: GetPrefs takes only what GetPrefs has cached.
GetCached(p) ==
    /\ At(p, "sget")
    /\ IF scache # NoEntry /\ (op[p].kind = "get" \/ scache.raw)
       THEN Ends(p) ELSE Goes(p, "squery")
    /\ UNCHANGED <<clock, users, tokens, key, setting, ops, faults>>
\* getJSONB: a setting that is not there is not cached.  Where the query fails,
\* Get fails, and GetPrefs caches and answers nothing.
Fetched(p, val) ==
    op' = [op EXCEPT ![p].ent = Entry(val, op[p].kind = "getPrefs"), ![p].pc = "sput"]
FetchSetting(p) ==
    /\ At(p, "squery")
    /\ \/ srow = NoValue /\ Ends(p) /\ UNCHANGED faults
       \/ srow # NoValue /\ Fetched(p, srow) /\ UNCHANGED faults
       \/ Fault /\ (IF op[p].kind = "get" THEN Ends(p) ELSE Fetched(p, Nil))
    /\ UNCHANGED <<clock, users, tokens, key, setting, ops>>
PutSetting(p) ==
    /\ At(p, "sput") /\ Ends(p)
    /\ scache' = op[p].ent
    /\ ssuspect' = (ssuspect \/ op[p].ent.val = Nil)
    /\ UNCHANGED <<clock, users, tokens, key, srow, ops, faults>>

\* Set writes the row and then the cache; Delete empties the cache and then
\* deletes the row.  Variant of Set: the cache is not written.
SetForgets(p) == Ends(p)
SetThenCaches(p) ==
    op' = [op EXCEPT ![p].ent = Entry(op[p].arg, FALSE), ![p].pc = "sput"]
SetSetting(p) ==
    /\ At(p, "swrite")
    /\ \/ /\ srow' = op[p].arg /\ SetThenCaches(p)
          /\ ssuspect' = (ssuspect \/ SetsPending(p)) /\ UNCHANGED faults
       \/ Fault /\ Ends(p) /\ UNCHANGED <<srow, ssuspect>>
    /\ UNCHANGED <<clock, users, tokens, key, scache, ops>>
Uncache(p) ==
    /\ At(p, "sdelete") /\ Goes(p, "sdrop")
    /\ scache' = NoEntry
    /\ UNCHANGED <<clock, users, tokens, key, srow, ssuspect, ops, faults>>
DeleteSetting(p) ==
    /\ At(p, "sdrop") /\ Ends(p)
    /\ \/ /\ srow' = NoValue /\ UNCHANGED faults
          /\ ssuspect' = (SetsPending(p) \/ scache # NoEntry)
       \/ Fault /\ UNCHANGED <<srow, ssuspect>>
    /\ UNCHANGED <<clock, users, tokens, key, scache, ops>>

-----------------------------------------------------------------------------
\* No request is under way: the instance may end here.
Rest == (\A p \in Procs : At(p, "idle")) /\ UNCHANGED vars

Begin(p) ==
    \/ BeginRead(p) \/ BeginRefresh(p) \/ BeginLogin(p) \/ BeginPasswd(p)
    \/ BeginUpdate(p) \/ BeginNewKey(p) \/ BeginUseKey(p)
    \/ BeginGet(p) \/ BeginGetPrefs(p) \/ BeginSet(p) \/ BeginDelete(p)
Step(p) ==
    \/ Hit(p) \/ Miss(p) \/ Query(p) \/ Put(p) \/ Answer(p)
    \/ Refresh(p) \/ Login(p) \/ RecordLogin(p) \/ NewRefreshToken(p)
    \/ Passwd(p) \/ Validate(p) \/ ChangePassword(p) \/ WritePassword(p)
    \/ FindUser(p) \/ UpdateUser(p) \/ CreateAPIKey(p) \/ GetAPIKey(p)
    \/ GetCached(p) \/ FetchSetting(p) \/ PutSetting(p)
    \/ SetSetting(p) \/ Uncache(p) \/ DeleteSetting(p)
Beside == Tick \/ CLIAddUser \/ CLIPasswd \/ HUP \/ Rest
Next == Beside \/ (\E p \in Procs : Begin(p) \/ Step(p))

Spec == Init /\ [][Next]_vars

-----------------------------------------------------------------------------
(***************************************************************************)
(* Properties.                                                             *)
(***************************************************************************)

Times == 0 .. MaxClock
Records == [there : BOOLEAN, pw : Passwords \cup {Blank}, setAt : Times, mail : 0 .. 1,
            login : Times]
Tokens == {tok \in [iat : Times, at : Times] : tok.iat <= tok.at}
Entries == [val : Values \cup {NoValue, Nil}, raw : BOOLEAN]
ArgsOf(kind) ==
    CASE kind = "refresh" -> Tokens
      [] kind = "login" -> Passwords
      [] kind \in {"passwd", "validate"} ->
             [caller : Callers, old : Passwords, new : Passwords]
      [] kind = "update" -> Callers
      [] kind = "newKey" -> Keys
      [] kind = "set" -> Values
      [] OTHER -> {0}
Kinds == {"none", "read", "refresh", "login", "passwd", "validate", "update", "newKey",
          "useKey", "get", "getPrefs", "set", "delete"}
Points == {"idle", "get", "query", "put", "got", "record", "issue", "change", "write",
           "find", "key", "sget", "squery", "sput", "swrite", "sdelete", "sdrop"}

RequestOK(o) ==
    /\ o \in [kind : Kinds, pc : Points, arg : {o.arg}, rec : Records, ent : Entries,
              since : Times]
    /\ o.arg \in ArgsOf(o.kind)

\* Every variable has its type: a password or the empty one in a row, a token's
\* claim no later than the token, what a request was asked for by its kind.
TypeOK ==
    /\ clock \in Times /\ ops \in 0 .. MaxOps /\ faults \in 0 .. MaxFaults
    /\ row \in Records /\ cache \in Records /\ lock \in Procs \cup {Nobody}
    /\ suspect \in BOOLEAN /\ ssuspect \in BOOLEAN
    /\ tokens \subseteq Tokens /\ key \in Keys \cup {NoKey}
    /\ srow \in Values \cup {NoValue} /\ scache \in Entries
    /\ DOMAIN op = Procs /\ \A p \in Procs : RequestOK(op[p])

\* A record in the users' cache has the password, and the time of it, that the
\* row has, unless a write of the row overlapped with a reader that had queried
\* but not yet cached, or came from another process and no SIGHUP followed;
\* its other fields (the login's apart, which RecordLogin never caches) agree
\* too, once the UpdateUser that changed them has ended.
UsersAgree ==
    cache.there =>
        \/ suspect
        \/ /\ cache.pw = row.pw /\ cache.setAt = row.setAt
           /\ cache.mail = row.mail \/ (\E p \in Procs : Doing(p, "update", "put"))

\* A refresh token that was given out before the password was set is refused by
\* every refresh that begins after it was set, unless the cache was suspect when
\* it was read: however many logins, changes and reads run beside it.
OldTokensEnd ==
    [][\A p \in Procs :
         Doing(p, "refresh", "got") /\ op'[p].pc = "record" => op[p].arg.at >= op[p].since]_vars

\* A setting in the cache is the row's, unless a write overlapped with another
\* process between its query or write and its cache, a Set has yet to write its
\* own into the cache, or GetPrefs has cached a query that failed.
SettingsAgree ==
    scache # NoEntry =>
        \/ scache.val = srow \/ ssuspect
        \/ \E p \in Procs : Doing(p, "set", "sput")
=============================================================================
