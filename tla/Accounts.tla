------------------------------ MODULE Accounts ------------------------------
(***************************************************************************)
(* Service providers, dealers and administrators and the user_logins they  *)
(* sign in with: creating, replacing and deleting an account, which is two *)
(* or three saves in different tables; signing in and out, the three ways  *)
(* to a new password, the one-time codes for a phone number.               *)
(*                                                                         *)
(* An account's phone number and e-mail address are one name here: they    *)
(* are checked, saved and copied to the login together.  An entity in      *)
(* memory is a function on the columns that were loaded and not deleted    *)
(* from the object; save() reads the row again, compares these columns,    *)
(* and one await later updates those that differ.                          *)
(***************************************************************************)
EXTENDS Naturals, Sequences, FiniteSets

CONSTANTS
  Account,        \* the ids that rows are given
  Phone, Email,   \* the names of providers, and of administrators
  Thread,         \* calls in progress at the same time
  Calls,          \* the names of the calls that are made in this instance
  Overlapping,    \* of those: they may overlap one another, the others run alone
  RequestWindow, ExpiryWindow,  \* of a code, in seconds
  MaxTime,        \* bound on the clock
  MaxPasswords,   \* bound on the passwords thought of
  MaxTokens,      \* bound on the reset tokens and the codes sent
  MaxRequests,    \* bound on the calls made
  MaxCrashes      \* bound on the restarts of the process

ASSUME AccountsAssumption ==
  /\ IsFiniteSet(Account) /\ IsFiniteSet(Thread)
  /\ Phone \cap Email = {}
  /\ {"none", "N/A"} \cap Account = {}     \* ids are UUIDs
  /\ Overlapping \subseteq Calls
  /\ {RequestWindow, ExpiryWindow} \subseteq Nat \ {0}
  /\ {MaxTime, MaxPasswords, MaxTokens, MaxRequests, MaxCrashes} \subseteq Nat

VARIABLES
  accounts,   \* service_provider and admin_user, by id
  dealers,    \* dealer, by the id of its profile
  logins,     \* user_logins, by the id of the account
  codes,      \* phone_verifications: when the codes of a phone were made, in order
  now,        \* the clock, in seconds
  thread,     \* the calls in progress
  passwords, tokens, requests, crashes   \* how many there were so far

rows   == <<accounts, dealers, logins, codes>>
counts == <<passwords, tokens, requests, crashes>>
vars   == <<rows, now, thread, counts>>

Kind  == {"INDEPENDENT", "WORKER", "DEALER", "ADMIN"}
Row   == {"none", "live", "deleted"}     \* no row, or one with or without deleted_at
Names(kind) == IF kind = "ADMIN" THEN Email ELSE Phone
Unnamed == "none"
Unlinked == "N/A"                        \* deletionToken of a login that is not deleted

AccountRow == [row : Row, kind : Kind, name : Phone \cup Email \cup {Unnamed},
               isOnDuty : BOOLEAN]

\* group stands for the columns user_type and groups.
LoginRow == [row : Row, group : Kind, username : Phone \cup Email \cup {Unnamed},
             password : Nat, isLogin : BOOLEAN, resetToken : Nat,
             deletionToken : Account \cup {Unlinked}]
Column == {"row", "group", "username", "password", "isLogin", "resetToken", "deletionToken"}

\* Whether there is a row is all of a dealer that matters here.
DealerRow == Row

NoAccount == [row |-> "none", kind |-> "INDEPENDENT", name |-> Unnamed, isOnDuty |-> FALSE]
NoLogin == [row |-> "none", group |-> "INDEPENDENT", username |-> Unnamed, password |-> 0,
            isLogin |-> FALSE, resetToken |-> 0, deletionToken |-> Unlinked]

PC == {"idle", "saveRecord", "saveDealer", "insertLogin", "updateLogin", "softDelete",
       "deleteLogin", "findAdmin", "readCode", "insertCode", "compare", "update", "offDuty"}

\* login is the entity of the call, changed the columns save() found to differ; new is
\* the password the call brings, or 0.
Idle == [pc |-> "idle", call |-> "none", id |-> "none", record |-> NoAccount,
         login |-> <<>>, changed |-> {}, new |-> 0, code |-> 0]

TypeOK ==
  /\ accounts \in [Account -> AccountRow]
  /\ dealers \in [Account -> DealerRow]
  /\ logins \in [Account -> LoginRow]
  /\ \A a \in Account : logins[a].row # "none" => logins[a].password \in 1..passwords
  /\ codes \in [Phone -> Seq(0..now)]
  /\ \A t \in Thread : /\ thread[t].pc \in PC
                       /\ DOMAIN thread[t].login \subseteq Column
                       /\ thread[t].changed \subseteq DOMAIN thread[t].login
  /\ {now, passwords, tokens, requests, crashes} \subseteq Nat

------------------------------------------------------------------------------
(* Calls                                                                      *)

Mine(t, pc) == thread[t].pc = pc
Become(t, p) == thread' = [thread EXCEPT ![t] = p]
Goto(t, pc)  == Become(t, [thread[t] EXCEPT !.pc = pc])
Finish(t)    == Become(t, Idle)
Resting      == \A t \in Thread : thread[t] = Idle

Start(t, call, p) ==
  /\ call \in Calls
  /\ requests < MaxRequests
  /\ thread[t] = Idle
  /\ \A u \in Thread : thread[u] = Idle \/ {call, thread[u].call} \subseteq Overlapping
  /\ requests' = requests + 1
  /\ Become(t, [p EXCEPT !.call = call])

\* The password that a call brings, if any: one that nobody had before.
Brings(new) ==
  /\ new \in {0, passwords + 1}
  /\ new <= MaxPasswords
  /\ passwords' = IF new = 0 THEN passwords ELSE new

------------------------------------------------------------------------------
(* TypeORM: what find() loads, save() compares and the database accepts       *)

Live(a) == logins[a].row = "live"

\* Wrong: a column of the copy that is to be left alone is not deleted from it.
WithoutNothing(a, dropped) == [c \in Column |-> logins[a][c]]

Without(a, dropped) == [c \in Column \ dropped |-> logins[a][c]]

Differing(a, login) == {c \in DOMAIN login : login[c] # logins[a][c]}
UpdatedLogin(a, p)  == [c \in Column |-> IF c \in p.changed THEN p.login[c] ELSE logins[a][c]]

\* @Unique of user_logins: one row for each name, user type and deletion token.
SameUserType(k, l) == (k = "ADMIN") = (l = "ADMIN")
Unique(a, login) ==
  \A b \in Account \ {a} :
    logins[b].row = "none" \/ logins[b].username # login.username
      \/ ~SameUserType(logins[b].group, login.group)
      \/ logins[b].deletionToken # login.deletionToken

Compare(t) ==
  /\ Mine(t, "compare")
  /\ LET p == thread[t]
     IN  Become(t, [p EXCEPT !.pc = "update", !.changed = Differing(p.id, p.login)])
  /\ UNCHANGED <<rows, now, counts>>

\* The update that breaks a unique constraint throws; logging out goes on.
Update(t) ==
  /\ Mine(t, "update")
  /\ LET p == thread[t]
         l == UpdatedLogin(p.id, p)
     IN  IF Unique(p.id, l)
         THEN /\ logins' = [logins EXCEPT ![p.id] = l]
              /\ IF p.call = "logout" THEN Goto(t, "offDuty") ELSE Finish(t)
         ELSE Finish(t) /\ UNCHANGED logins
  /\ UNCHANGED <<accounts, dealers, codes, now, counts>>

------------------------------------------------------------------------------
(* Accounts: ServiceProviderService, DealerService, AdminUserService           *)

\* ValidateUniquenessOfPrimaryPhoneAndEmailOrThrow counts providers, dealers' profiles
\* among them; the e-mail addresses of administrators are unique in the database.
InUse(name, ignored) ==
  \E a \in Account \ ignored : accounts[a].row = "live" /\ accounts[a].name = name

\* What createOne and replaceOne save, with type and skills derived.
Record(kind, name) == [NoAccount EXCEPT !.row = "live", !.kind = kind, !.name = name]

CreateOne(t, a, kind, name) ==
  /\ accounts[a].row = "none" /\ logins[a].row = "none"
  /\ name \in Names(kind)
  /\ ~InUse(name, {})
  /\ Brings(passwords + 1)
  /\ Start(t, "create", [Idle EXCEPT !.pc = "saveRecord", !.id = a, !.new = passwords + 1,
                                     !.record = Record(kind, name)])
  /\ UNCHANGED <<rows, now, tokens, crashes>>

\* The id is that of the row the administrator looks at.
ReplaceOne(t, a, kind, name, new) ==
  /\ accounts[a].row = "live" /\ (accounts[a].kind = "DEALER" => dealers[a] = "live")
  /\ kind = accounts[a].kind \/ {kind, accounts[a].kind} = {"INDEPENDENT", "WORKER"}
  /\ name \in Names(kind)
  /\ ~InUse(name, {a})
  /\ Brings(new)
  /\ Start(t, "replace", [Idle EXCEPT !.pc = "saveRecord", !.id = a, !.new = new,
                                      !.record = Record(kind, name)])
  /\ UNCHANGED <<rows, now, tokens, crashes>>

\* The columns that the input leaves out keep what they hold; a dealer's profile is
\* inserted before the dealer, and replaced with it.
SaveRecord(t) ==
  /\ Mine(t, "saveRecord")
  /\ LET p == thread[t]
     IN  /\ accounts' = [accounts EXCEPT ![p.id] = [p.record EXCEPT !.isOnDuty = accounts[p.id].isOnDuty]]
         /\ Goto(t, IF p.call = "replace" THEN "updateLogin"
                    ELSE IF p.record.kind = "DEALER" THEN "saveDealer" ELSE "insertLogin")
  /\ UNCHANGED <<dealers, logins, codes, now, counts>>

SaveDealer(t) ==
  /\ Mine(t, "saveDealer")
  /\ dealers' = [dealers EXCEPT ![thread[t].id] = "live"]
  /\ Goto(t, "insertLogin")
  /\ UNCHANGED <<accounts, logins, codes, now, counts>>

\* CreateUserLoginCommand
CreateUserLogin(t) ==
  /\ Mine(t, "insertLogin")
  /\ LET p == thread[t]
         l == [NoLogin EXCEPT !.row = "live", !.group = p.record.kind,
                              !.username = p.record.name, !.password = p.new]
     IN  IF Unique(p.id, l) THEN logins' = [logins EXCEPT ![p.id] = l] ELSE UNCHANGED logins
  /\ Finish(t)
  /\ UNCHANGED <<accounts, dealers, codes, now, counts>>

\* Wrong: a password that was left out is saved all the same.
UpdateUserLoginAnyway(t) ==
  /\ Mine(t, "updateLogin")
  /\ LET p == thread[t]
     IN  IF Live(p.id)
         THEN Become(t, [p EXCEPT !.pc = "compare",
                !.login = [Without(p.id, {}) EXCEPT
                             !.password = p.new,
                             !.username = p.record.name, !.group = p.record.kind]])
         ELSE Finish(t)
  /\ UNCHANGED <<rows, now, counts>>

\* UpdateUserLoginCommand: the password only where one was given.
UpdateUserLogin(t) ==
  /\ Mine(t, "updateLogin")
  /\ LET p == thread[t]
     IN  IF Live(p.id)
         THEN Become(t, [p EXCEPT !.pc = "compare",
                !.login = [Without(p.id, {}) EXCEPT
                             !.password = IF p.new = 0 THEN @ ELSE p.new,
                             !.username = p.record.name, !.group = p.record.kind]])
         ELSE Finish(t)
  /\ UNCHANGED <<rows, now, counts>>

\* ServiceProviderService.softDeleteOne, and DealerService's, which deletes the dealer
\* and calls it.
SoftDeleteOne(t, a) ==
  /\ accounts[a].kind \in {"INDEPENDENT", "WORKER"} /\ accounts[a].row = "live"
  /\ Start(t, "delete", [Idle EXCEPT !.pc = "softDelete", !.id = a])
  /\ UNCHANGED <<rows, now, passwords, tokens, crashes>>

SoftDeleteDealer(t, a) ==
  /\ dealers[a] = "live"
  /\ Start(t, "delete", [Idle EXCEPT !.pc = "softDelete", !.id = a])
  /\ dealers' = [dealers EXCEPT ![a] = "deleted"]
  /\ UNCHANGED <<accounts, logins, codes, now, passwords, tokens, crashes>>

SoftDelete(t) ==
  /\ Mine(t, "softDelete")
  /\ accounts' = [accounts EXCEPT ![thread[t].id].row = "deleted"]
  /\ Goto(t, "deleteLogin")
  /\ UNCHANGED <<dealers, logins, codes, now, counts>>

\* Wrong: the deleted login keeps its deletion token, and with it its name.
DeleteUserLoginOnly(t) ==
  /\ Mine(t, "deleteLogin")
  /\ LET p == thread[t]
     IN  IF Live(p.id)
         THEN Become(t, [p EXCEPT !.pc = "compare",
                                  !.login = [Without(p.id, {}) EXCEPT !.row = "deleted"]])
         ELSE Finish(t)
  /\ UNCHANGED <<rows, now, counts>>

\* DeleteUserLoginCommand: the deletion token, unique, frees the name.
DeleteUserLogin(t) ==
  /\ Mine(t, "deleteLogin")
  /\ LET p == thread[t]
     IN  IF Live(p.id)
         THEN Become(t, [p EXCEPT !.pc = "compare",
                                  !.login = [Without(p.id, {}) EXCEPT !.row = "deleted",
                                                                      !.deletionToken = p.id]])
         ELSE Finish(t)
  /\ UNCHANGED <<rows, now, counts>>

------------------------------------------------------------------------------
(* AuthService                                                                *)

NamedBy(a, name) == Live(a) /\ logins[a].username = name

\* validateUserLogin, for a password that is right: what is not the caller's business
\* is deleted from the copy.
ReadCredentials(a) == Without(a, {"password", "resetToken"})

\* The access token is made while the login is saved: one that is refused, because the
\* provider is banned or gone, does not undo the save.
Login(t, name) ==
  /\ \E a \in Account :
       /\ NamedBy(a, name)
       /\ Start(t, "login", [Idle EXCEPT !.pc = "compare", !.id = a,
                               !.login = [ReadCredentials(a) EXCEPT !.isLogin = TRUE]])
  /\ UNCHANGED <<rows, now, passwords, tokens, crashes>>

\* Of providers only.  The whole row was loaded.
Logout(t, a) ==
  /\ Live(a) /\ logins[a].group # "ADMIN"
  /\ Start(t, "logout", [Idle EXCEPT !.pc = "compare", !.id = a,
                           !.login = [Without(a, {}) EXCEPT !.isLogin = FALSE]])
  /\ UNCHANGED <<rows, now, passwords, tokens, crashes>>

\* UPDATE of a column; it finds no row of a provider who is gone.
SetDuty(a, duty) ==
  accounts' = IF accounts[a].row = "none" THEN accounts
              ELSE [accounts EXCEPT ![a].isOnDuty = duty]

LogoutOffDuty(t) ==
  /\ Mine(t, "offDuty")
  /\ SetDuty(thread[t].id, FALSE)
  /\ Finish(t)
  /\ UNCHANGED <<dealers, logins, codes, now, counts>>

\* updateLocation changes no column of this module.
Duty(a, duty) ==
  /\ "duty" \in Calls /\ requests < MaxRequests /\ requests' = requests + 1
  /\ \A t \in Thread : thread[t] = Idle \/ {"duty", thread[t].call} \subseteq Overlapping
  /\ accounts[a].row = "live" /\ accounts[a].kind # "ADMIN" /\ accounts[a].isOnDuty # duty
  /\ SetDuty(a, duty)
  /\ UNCHANGED <<dealers, logins, codes, now, thread, passwords, tokens, crashes>>

\* updatePassword, with the right current password: only its column is selected.
ChangePassword(t, a) ==
  /\ Live(a)
  /\ Brings(passwords + 1)
  /\ Start(t, "changePassword",
           [Idle EXCEPT !.pc = "compare", !.id = a, !.new = passwords + 1,
                        !.login = [c \in {"password"} |-> passwords + 1]])
  /\ UNCHANGED <<rows, now, tokens, crashes>>

\* setPasswordResetToken: it goes by mail.
ForgetPassword(t, name) ==
  /\ tokens < MaxTokens /\ tokens' = tokens + 1
  /\ \E a \in Account :
       /\ NamedBy(a, name) /\ logins[a].group = "ADMIN"
       /\ Start(t, "forgetPassword",
                [Idle EXCEPT !.pc = "findAdmin", !.id = a, !.code = tokens + 1,
                             !.login = [Without(a, {}) EXCEPT !.resetToken = tokens + 1]])
  /\ UNCHANGED <<rows, now, passwords, crashes>>

FindAdmin(t) ==
  /\ Mine(t, "findAdmin")
  /\ IF accounts[thread[t].id].row = "live" THEN Goto(t, "compare") ELSE Finish(t)
  /\ UNCHANGED <<rows, now, counts>>

\* The login with its new password, and without the token that may have brought it.
Reset(a, new) == [Without(a, {}) EXCEPT !.password = new, !.resetToken = 0]

ResetPasswordByToken(t, a) ==
  /\ Live(a) /\ logins[a].resetToken # 0
  /\ Brings(passwords + 1)
  /\ Start(t, "resetPassword", [Idle EXCEPT !.pc = "compare", !.id = a, !.new = passwords + 1,
                                            !.login = Reset(a, passwords + 1)])
  /\ UNCHANGED <<rows, now, tokens, crashes>>

------------------------------------------------------------------------------
(* One-time codes                                                             *)

Newest(s) == CHOOSE i \in s : \A j \in s : j <= i
Oldest(s) == CHOOSE i \in s : \A j \in s : i <= j

Valid(phone) == {i \in DOMAIN codes[phone] : codes[phone][i] + ExpiryWindow > now}

\* Wrong: the oldest code first.
OldestValidCode(phone) == IF Valid(phone) = {} THEN 0 ELSE Oldest(Valid(phone))

\* getValidOtpToken: created last of those that have not expired, or none.
ValidCode(phone) == IF Valid(phone) = {} THEN 0 ELSE Newest(Valid(phone))

\* The code may be followed by another: its request window is over.
IsWithinRateLimit(made) == now >= made + RequestWindow

\* A provider's request is for a name that signs in, a customer's for any.
RequestOtpToken(t, phone) ==
  /\ Start(t, "requestOtp", [Idle EXCEPT !.pc = "readCode", !.record.name = phone])
  /\ UNCHANGED <<rows, now, passwords, tokens, crashes>>

ResetPasswordByOtpToken(t, phone, code) ==
  /\ code \in DOMAIN codes[phone]
  /\ Brings(passwords + 1)
  /\ \E a \in Account :
       /\ NamedBy(a, phone)
       /\ Start(t, "resetByOtp",
                [Idle EXCEPT !.pc = "readCode", !.id = a, !.code = code, !.new = passwords + 1,
                             !.record.name = phone, !.login = Reset(a, passwords + 1)])
  /\ UNCHANGED <<rows, now, tokens, crashes>>

ReadCode(t) ==
  /\ Mine(t, "readCode")
  /\ LET p == thread[t]
         c == ValidCode(p.record.name)
     IN  IF p.call = "resetByOtp"
         THEN IF c # 0 /\ c = p.code THEN Goto(t, "compare") ELSE Finish(t)
         ELSE IF (c # 0 => IsWithinRateLimit(codes[p.record.name][c])) /\ tokens < MaxTokens
              THEN Goto(t, "insertCode") ELSE Finish(t)
  /\ UNCHANGED <<rows, now, counts>>

InsertCode(t) ==
  /\ Mine(t, "insertCode")
  /\ codes' = [codes EXCEPT ![thread[t].record.name] = Append(@, now)]
  /\ tokens' = tokens + 1
  /\ Finish(t)
  /\ UNCHANGED <<accounts, dealers, logins, now, passwords, requests, crashes>>

------------------------------------------------------------------------------
Init ==
  /\ accounts = [a \in Account |-> NoAccount]
  /\ dealers = [a \in Account |-> "none"]
  /\ logins = [a \in Account |-> NoLogin]
  /\ codes = [p \in Phone |-> <<>>]
  /\ now = 0
  /\ thread = [t \in Thread |-> Idle]
  /\ passwords = 0 /\ tokens = 0 /\ requests = 0 /\ crashes = 0

Tick ==
  /\ now < MaxTime /\ now' = now + 1
  /\ UNCHANGED <<rows, thread, counts>>

Crash ==
  /\ crashes < MaxCrashes /\ ~Resting
  /\ crashes' = crashes + 1
  /\ thread' = [t \in Thread |-> Idle]
  /\ UNCHANGED <<rows, now, passwords, tokens, requests>>

\* The administrators' three screens, and what their calls go on to do.
OneOf(t, kinds, name) ==
  \E a \in Account, kind \in kinds :
    CreateOne(t, a, kind, name) \/ \E new \in {0, passwords + 1} : ReplaceOne(t, a, kind, name, new)

ServiceProviders(t) ==
  \/ \E name \in Phone : OneOf(t, {"INDEPENDENT", "WORKER"}, name)
  \/ \E a \in Account : SoftDeleteOne(t, a)

Dealers(t) ==
  \/ \E name \in Phone : OneOf(t, {"DEALER"}, name)
  \/ \E a \in Account : SoftDeleteDealer(t, a)

AdminUsers(t) == \E name \in Email : OneOf(t, {"ADMIN"}, name)

LoginCommands(t) == CreateUserLogin(t) \/ UpdateUserLogin(t) \/ DeleteUserLogin(t)

Administer(t) ==
  \/ ServiceProviders(t) \/ Dealers(t) \/ AdminUsers(t)
  \/ SaveRecord(t) \/ SaveDealer(t) \/ SoftDelete(t)
  \/ LoginCommands(t)

Authenticate(t) ==
  \/ \E name \in Phone \cup Email : Login(t, name) \/ ForgetPassword(t, name)
  \/ \E a \in Account : Logout(t, a) \/ ChangePassword(t, a) \/ ResetPasswordByToken(t, a)
  \/ \E phone \in Phone : RequestOtpToken(t, phone)
  \/ \E phone \in Phone : \E code \in DOMAIN codes[phone] : ResetPasswordByOtpToken(t, phone, code)
  \/ ReadCode(t) \/ InsertCode(t) \/ FindAdmin(t) \/ LogoutOffDuty(t)

Next ==
  \/ \E t \in Thread : Administer(t) \/ Authenticate(t) \/ Compare(t) \/ Update(t)
  \/ \E a \in Account, duty \in BOOLEAN : Duty(a, duty)
  \/ Tick \/ Crash

Spec == Init /\ [][Next]_vars

------------------------------------------------------------------------------
(* Properties                                                                 *)

\* With nothing in progress and no process lost, a provider has a login that is as
\* alive as he is and bears his name and type: also one who took over the name of
\* a provider deleted before, and whatever was refused between the two tables.
LoginFollowsAccount ==
  Resting /\ crashes = 0 =>
    \A a \in Account : accounts[a].kind # "ADMIN" =>
      /\ logins[a].row = accounts[a].row
      /\ Live(a) => /\ logins[a].username = accounts[a].name
                    /\ logins[a].group = accounts[a].kind

\* A password, once replaced, does not come back, nor a reset token: the calls in
\* Overlapping save rows they read earlier, but none writes a secret it did not bring.
SecretsDoNotReturn ==
  [][\A a \in Account :
       /\ logins'[a].password # logins[a].password =>
            \E t \in Thread : thread[t].new = logins'[a].password
       /\ logins'[a].resetToken \notin {0, logins[a].resetToken} =>
            \E t \in Thread : thread[t].code = logins'[a].resetToken]_vars

\* Two codes for one phone are a request window apart, or the first had expired,
\* however many older codes are still valid.
OtpWithinRate ==
  \A p \in Phone : \A i, j \in DOMAIN codes[p] :
    i < j => \/ codes[p][j] >= codes[p][i] + RequestWindow
             \/ codes[p][j] >= codes[p][i] + ExpiryWindow
==============================================================================
