---------------------------- MODULE Accounts_proof ----------------------------
(***************************************************************************)
(* Theorems about Accounts, for any number of accounts, names, calls,      *)
(* codes, passwords and restarts, with the assumption about which calls    *)
(* may overlap in the hypotheses of each theorem.                          *)
(*                                                                         *)
(* What a call is about to save is the entity it holds, so each invariant  *)
(* speaks of the rows and, for each call, of its entity at the step it has *)
(* come to: Fit, LateEnough, Secret and Stage.  Exclusive says which calls *)
(* can be in progress with another.                                        *)
(***************************************************************************)
EXTENDS Accounts, SequenceTheorems, WellFoundedInduction, TLAPS

\* What a call holds of a login: some columns with the values of a login, or nothing yet.
Entity == {<<>>} \cup {[c \in S |-> l[c]] : S \in SUBSET Column, l \in LoginRow}

Call == [pc : PC, call : Calls \cup {"none"}, id : Account \cup {"none"}, record : AccountRow,
         login : Entity, changed : SUBSET Column, new : Nat, code : Nat]

\* The steps at which a call has an account, and those at which its login was found.
Located == {"saveRecord", "saveDealer", "insertLogin", "updateLogin", "softDelete",
            "deleteLogin", "findAdmin", "compare", "update", "offDuty"}
Found(p) == \/ p.pc \in {"findAdmin", "compare", "update"}
            \/ p.pc = "readCode" /\ p.call = "resetByOtp"

\* An entity that was loaded from a login, or that a save may make one of.
Genuine(e) == /\ "row" \in DOMAIN e => e.row # "none"
              /\ "password" \in DOMAIN e => e.password \in 1..passwords

Fit(p) ==
  /\ p.new <= passwords
  /\ p.changed \subseteq DOMAIN p.login
  /\ Genuine(p.login)
  /\ p.pc \in Located \/ Found(p) => p.id \in Account
  /\ Found(p) => logins[p.id].row # "none"
  /\ \/ p.pc \in {"saveDealer", "insertLogin"}
     \/ p.pc = "saveRecord" /\ p.call # "replace"
     => p.new # 0
  /\ p.pc \in {"readCode", "insertCode"} => p.record.name \in Phone

RowsTyped ==
  /\ accounts \in [Account -> AccountRow]
  /\ dealers \in [Account -> DealerRow]
  /\ logins \in [Account -> LoginRow]
  /\ \A a \in Account : logins[a].row # "none" => logins[a].password \in 1..passwords
  /\ codes \in [Phone -> Seq(0..now)]
  /\ {now, passwords, tokens, requests, crashes} \subseteq Nat

Typed ==
  /\ RowsTyped
  /\ thread \in [Thread -> Call]
  /\ \A t \in Thread : Fit(thread[t])

------------------------------------------------------------------------------
(* Types *)

\* The rows that are not there are of the rows' types.
LEMMA NoRowTypes == NoAccount \in AccountRow /\ NoLogin \in LoginRow
BY DEF NoAccount, NoLogin, AccountRow, LoginRow, Row, Kind, Unlinked, Unnamed

\* A thread with nothing to do is a call.
LEMMA IdleType == Idle \in Call
BY NoRowTypes DEF Idle, Call, Entity, PC

\* It fits any rows.
LEMMA IdleFits == ASSUME passwords \in Nat PROVE Fit(Idle)
BY DEF Idle, Fit, Genuine, Located, Found

\* The columns of an entity hold what the columns of a login may hold.
LEMMA EntityFields ==
  ASSUME NEW e \in Entity
  PROVE  /\ DOMAIN e \subseteq Column
         /\ "row" \in DOMAIN e => e.row \in Row
         /\ "group" \in DOMAIN e => e.group \in Kind
         /\ "username" \in DOMAIN e => e.username \in Phone \cup Email \cup {Unnamed}
         /\ "password" \in DOMAIN e => e.password \in Nat
         /\ "isLogin" \in DOMAIN e => e.isLogin \in BOOLEAN
         /\ "resetToken" \in DOMAIN e => e.resetToken \in Nat
         /\ "deletionToken" \in DOMAIN e => e.deletionToken \in Account \cup {Unlinked}
<1>1. CASE e = <<>>
  BY <1>1
<1>2. CASE e # <<>>
  <2>1. PICK S \in SUBSET Column, l \in LoginRow : e = [c \in S |-> l[c]]
    BY <1>2 DEF Entity
  <2> QED
    BY <2>1 DEF LoginRow
<1> QED
  BY <1>1, <1>2

\* A function on some of the columns with such values is an entity.
LEMMA EntityType ==
  ASSUME NEW l \in LoginRow, NEW S \in SUBSET Column
  PROVE  [c \in S |-> l[c]] \in Entity
BY DEF Entity

\* What update() makes of a row is a login.
LEMMA UpdatedLoginType ==
  ASSUME NEW a \in Account, logins[a] \in LoginRow, NEW p \in Call, p.changed \subseteq DOMAIN p.login
  PROVE  /\ UpdatedLogin(a, p) \in LoginRow
         /\ UpdatedLogin(a, p).row = IF "row" \in p.changed THEN p.login.row ELSE logins[a].row
         /\ UpdatedLogin(a, p).password = IF "password" \in p.changed THEN p.login.password ELSE logins[a].password
<1>1. p.login \in Entity
  BY DEF Call
<1> QED
BY <1>1, EntityFields DEF UpdatedLogin, LoginRow, Column

\* A call that fits the rows still does when no login was lost and no password forgotten.
LEMMA FitStays ==
  ASSUME NEW q \in Call, Fit(q), passwords \in Nat, passwords' \in Nat, passwords <= passwords',
         \A a \in Account : logins[a].row # "none" => logins'[a].row # "none"
  PROVE  Fit(q)'
<1>1. q.new \in Nat /\ q.login \in Entity
  BY DEF Call
<1>2. Genuine(q.login)'
  BY <1>1, EntityFields DEF Fit, Genuine
<1>3. q.new <= passwords'
  BY <1>1 DEF Fit
<1> QED
  BY <1>2, <1>3 DEF Fit, Found

\* What a step of a call does to types: its entry, and the rows.
LEMMA ThreadStep ==
  ASSUME Typed, RowsTyped', passwords <= passwords',
         \A a \in Account : logins[a].row # "none" => logins'[a].row # "none",
         NEW t \in Thread, NEW p \in Call, Fit(p)', Become(t, p)
  PROVE  Typed'
<1>1. thread' \in [Thread -> Call]
  BY DEF Typed, Become
<1>2. ASSUME NEW u \in Thread PROVE Fit(thread[u])'
  <2>1. CASE u = t
    BY <2>1 DEF Typed, Become
  <2>2. CASE u # t
    <3>1. thread'[u] = thread[u] /\ Fit(thread[u])
      BY <2>2 DEF Typed, Become
    <3>2. thread[u] \in Call /\ passwords \in Nat /\ passwords' \in Nat
      BY DEF Typed, RowsTyped
    <3> QED
      BY <3>1, <3>2, FitStays
  <2> QED
    BY <2>1, <2>2
<1> QED
  BY <1>1, <1>2 DEF Typed

\* A call with some of its fields replaced.
LEMMA Moved ==
  ASSUME NEW p \in Call, NEW pc \in PC
  PROVE  LET q == [p EXCEPT !.pc = pc]
         IN  /\ q \in Call /\ q.pc = pc
             /\ q.call = p.call /\ q.id = p.id /\ q.record = p.record /\ q.login = p.login
             /\ q.changed = p.changed /\ q.new = p.new /\ q.code = p.code
BY DEF Call

\* What a call goes on with when its step leaves passwords and logins alone.
LEMMA Unmoved ==
  ASSUME NEW p, UNCHANGED <<passwords, logins>>
  PROVE  Fit(p)' <=> Fit(p)
BY DEF Fit, Genuine, Found

\* A step that changes neither rows nor password count keeps what is typed.
LEMMA QuietStep ==
  ASSUME Typed, RowsTyped', UNCHANGED <<passwords, logins>>,
         NEW t \in Thread, NEW p \in Call, Fit(p), Become(t, p)
  PROVE  Typed'
<1>1. Fit(p)'
  BY Unmoved
<1> QED
  BY <1>1, ThreadStep DEF Typed, RowsTyped

\* compare: save() reads the row and compares it with the entity.
LEMMA CompareTyped ==
  ASSUME Typed, NEW t \in Thread, Compare(t) \/ FindAdmin(t) \/ LogoutOffDuty(t)
  PROVE  Typed'
<1>1. PICK p \in Call : p = thread[t] /\ Fit(p)
  BY DEF Typed
<1>2. RowsTyped /\ Fit(Idle)
  BY IdleFits DEF Typed, RowsTyped
<1>3. CASE Compare(t)
  <2> DEFINE q == [p EXCEPT !.pc = "update", !.changed = Differing(p.id, p.login)]
  <2>1. /\ q \in Call /\ q.pc = "update" /\ q.changed \subseteq DOMAIN p.login
        /\ q.call = p.call /\ q.id = p.id /\ q.record = p.record /\ q.login = p.login
        /\ q.new = p.new
    BY <1>1, EntityFields DEF Call, PC, Differing
  <2>2. Become(t, q) /\ RowsTyped' /\ UNCHANGED <<passwords, logins>>
    BY <1>1, <1>2, <1>3 DEF Compare, rows, counts, RowsTyped
  <2> HIDE DEF q
  <2>3. Fit(q)
    BY <1>1, <1>3, <2>1 DEF Fit, Found, Compare, Mine, Located
  <2> QED
    BY <2>1, <2>2, <2>3, QuietStep
<1>4. CASE FindAdmin(t)
  <2>1. p.pc = "findAdmin"
    BY <1>1, <1>4 DEF FindAdmin, Mine
  <2>2. /\ Become(t, [p EXCEPT !.pc = "compare"]) \/ Become(t, Idle)
        /\ RowsTyped' /\ UNCHANGED <<passwords, logins>>
    BY <1>1, <1>2, <1>4 DEF FindAdmin, rows, counts, RowsTyped, Goto, Finish
  <2>3. PICK q \in Call : q = [p EXCEPT !.pc = "compare"]
    BY Moved DEF PC
  <2>4. Fit(q)
    BY <1>1, <2>1, <2>3, Moved DEF Fit, Found, Located, PC
  <2> QED
    BY <1>2, <2>2, <2>3, <2>4, IdleType, QuietStep
<1>5. CASE LogoutOffDuty(t)
  <2>1. Become(t, Idle) /\ UNCHANGED <<passwords, logins>>
    BY <1>5 DEF LogoutOffDuty, Finish, counts
  <2>2. RowsTyped'
    BY <1>2, <1>5 DEF LogoutOffDuty, RowsTyped, SetDuty, AccountRow, counts
  <2> QED
    BY <1>2, <2>1, <2>2, IdleType, QuietStep
<1> QED
  BY <1>3, <1>4, <1>5

\* update: save() writes the columns that differed, or is refused by the unique index.
LEMMA UpdateTyped ==
  ASSUME Typed, NEW t \in Thread, Update(t)
  PROVE  Typed'
<1>1. PICK p \in Call : p = thread[t] /\ Fit(p)
  BY DEF Typed
<1>2. RowsTyped /\ p.pc = "update"
  BY <1>1 DEF Typed, Update, Mine
<1>3. p.id \in Account /\ logins[p.id].row # "none" /\ p.changed \subseteq DOMAIN p.login
  BY <1>1, <1>2 DEF Fit, Found
<1>4. PICK l \in LoginRow : l = UpdatedLogin(p.id, p) /\ l.row # "none" /\ l.password \in 1..passwords
  <2>1. /\ "row" \in p.changed => p.login.row # "none"
        /\ "password" \in p.changed => p.login.password \in 1..passwords
    BY <1>1, <1>3 DEF Fit, Genuine
  <2>2. logins[p.id] \in LoginRow /\ logins[p.id].password \in 1..passwords
    BY <1>2, <1>3 DEF RowsTyped
  <2>3. /\ UpdatedLogin(p.id, p) \in LoginRow
        /\ UpdatedLogin(p.id, p).row # "none"
        /\ UpdatedLogin(p.id, p).password \in 1..passwords
    BY <1>3, <2>1, <2>2, UpdatedLoginType
  <2> QED
    BY <2>3
<1>5. /\ logins' = [logins EXCEPT ![p.id] = l] \/ logins' = logins
      /\ UNCHANGED <<accounts, dealers, codes, now, counts>>
      /\ Become(t, [p EXCEPT !.pc = "offDuty"]) \/ Become(t, Idle)
  BY <1>1, <1>4 DEF Update, Goto, Finish
<1>6. RowsTyped'
  BY <1>2, <1>3, <1>4, <1>5 DEF RowsTyped, counts
<1>7. \A a \in Account : logins[a].row # "none" => logins'[a].row # "none"
  BY <1>2, <1>3, <1>4, <1>5 DEF RowsTyped
<1>8. UNCHANGED passwords /\ passwords \in Nat /\ passwords <= passwords'
  BY <1>2, <1>5 DEF counts, RowsTyped
<1>9. PICK q \in Call : q = [p EXCEPT !.pc = "offDuty"]
  BY Moved DEF PC
<1>10. Fit(q)
  BY <1>1, <1>2, <1>9, Moved DEF Fit, Found, Located, PC
<1>11. Fit(q)' /\ Fit(Idle)'
  BY <1>7, <1>8, <1>10, FitStays, IdleFits, IdleType
<1> QED
  BY <1>5, <1>6, <1>7, <1>8, <1>9, <1>11, IdleType, ThreadStep

\* saveRecord and saveDealer: the first saves of createOne and replaceOne.
LEMMA SaveRecordTyped ==
  ASSUME Typed, NEW t \in Thread, SaveRecord(t) \/ SaveDealer(t) \/ SoftDelete(t)
  PROVE  Typed'
<1>1. PICK p \in Call : p = thread[t] /\ Fit(p)
  BY DEF Typed
<1>2. RowsTyped
  BY DEF Typed
<1>3. p.id \in Account
  BY <1>1 DEF Fit, Located, SaveRecord, SaveDealer, SoftDelete, Mine
<1>4. p.record \in AccountRow
  BY DEF Call
<1>5. UNCHANGED <<passwords, logins>>
  BY DEF SaveRecord, SaveDealer, SoftDelete, counts
<1>6. RowsTyped'
  <2>1. CASE SaveRecord(t)
    <3>1. [p.record EXCEPT !.isOnDuty = accounts[p.id].isOnDuty] \in AccountRow
      BY <1>2, <1>3, <1>4 DEF RowsTyped, AccountRow
    <3> QED
      BY <1>1, <1>2, <1>3, <2>1, <3>1 DEF RowsTyped, SaveRecord, counts
  <2>2. CASE SaveDealer(t)
    BY <1>2, <2>2 DEF RowsTyped, SaveDealer, counts, DealerRow, Row
  <2>3. CASE SoftDelete(t)
    <3>1. [accounts[p.id] EXCEPT !.row = "deleted"] \in AccountRow
      BY <1>2, <1>3 DEF RowsTyped, AccountRow, Row
    <3> QED
      BY <1>1, <1>2, <1>3, <2>3, <3>1 DEF RowsTyped, SoftDelete, counts
  <2> QED
    BY <2>1, <2>2, <2>3
<1>7. PICK pc \in {"updateLogin", "saveDealer", "insertLogin", "deleteLogin"} :
        /\ Become(t, [p EXCEPT !.pc = pc])
        /\ pc \in {"saveDealer", "insertLogin"} =>
             p.pc = "saveDealer" \/ (p.pc = "saveRecord" /\ p.call # "replace")
  <2>1. CASE SaveRecord(t)
    <3>1. CASE p.call = "replace"
      BY <1>1, <2>1, <3>1 DEF SaveRecord, Goto, Mine
    <3>2. CASE p.call # "replace" /\ p.record.kind = "DEALER"
      BY <1>1, <2>1, <3>2 DEF SaveRecord, Goto, Mine
    <3>3. CASE p.call # "replace" /\ p.record.kind # "DEALER"
      BY <1>1, <2>1, <3>3 DEF SaveRecord, Goto, Mine
    <3> QED
      BY <3>1, <3>2, <3>3
  <2>2. CASE SaveDealer(t)
    <3>1. Become(t, [p EXCEPT !.pc = "insertLogin"]) /\ p.pc = "saveDealer"
      BY <1>1, <2>2 DEF SaveDealer, Goto, Mine
    <3> QED
      BY <3>1
  <2>3. CASE SoftDelete(t)
    BY <1>1, <2>3 DEF SoftDelete, Goto, Mine
  <2> QED
    BY <2>1, <2>2, <2>3
<1>8. PICK q \in Call : q = [p EXCEPT !.pc = pc]
  BY Moved DEF PC
<1>9. Fit(q)
  BY <1>1, <1>3, <1>7, <1>8, Moved DEF Fit, Found, Located, PC
<1> QED
  BY <1>5, <1>6, <1>7, <1>8, <1>9, QuietStep

\* insertLogin: CreateUserLoginCommand inserts a login, or is refused by the unique index.
LEMMA CreateUserLoginTyped ==
  ASSUME Typed, NEW t \in Thread, CreateUserLogin(t)
  PROVE  Typed'
<1>1. PICK p \in Call : p = thread[t] /\ Fit(p)
  BY DEF Typed
<1>2. RowsTyped /\ p.pc = "insertLogin"
  BY <1>1 DEF Typed, CreateUserLogin, Mine
<1>3. p.id \in Account /\ p.new \in 1..passwords
  BY <1>1, <1>2 DEF Fit, Located, Call, RowsTyped
<1>4. PICK l : l = [NoLogin EXCEPT !.row = "live", !.group = p.record.kind,
                                   !.username = p.record.name, !.password = p.new]
  OBVIOUS
<1>5. l \in LoginRow /\ l.row = "live" /\ l.password = p.new
  BY <1>3, <1>4, NoRowTypes DEF Call, AccountRow, LoginRow, Row, RowsTyped
<1>6. /\ logins' = [logins EXCEPT ![p.id] = l] \/ logins' = logins
      /\ UNCHANGED <<accounts, dealers, codes, now, counts>>
      /\ Become(t, Idle)
  BY <1>1, <1>4 DEF CreateUserLogin, Finish
<1>7. RowsTyped'
  BY <1>2, <1>3, <1>5, <1>6 DEF RowsTyped, counts
<1>8. \A a \in Account : logins[a].row # "none" => logins'[a].row # "none"
  BY <1>2, <1>3, <1>5, <1>6 DEF RowsTyped
<1>9. UNCHANGED passwords /\ passwords \in Nat /\ passwords <= passwords'
  BY <1>2, <1>6 DEF counts, RowsTyped
<1>10. Fit(Idle)'
  BY <1>8, <1>9, FitStays, IdleFits, IdleType
<1> QED
  BY <1>6, <1>7, <1>8, <1>9, <1>10, IdleType, ThreadStep

\* A login row that is loaded whole, changed and to be compared.
LEMMA WholeEntity ==
  ASSUME NEW l \in LoginRow
  PROVE  /\ [c \in Column |-> l[c]] = l
         /\ l \in Entity
         /\ DOMAIN l = Column
BY EntityType DEF LoginRow, Column

\* A login that was loaded whole is its row.
LEMMA WithoutNone ==
  ASSUME NEW a \in Account, logins[a] \in LoginRow
  PROVE  Without(a, {}) = logins[a]
<1>1. Column \ {} = Column
  OBVIOUS
<1> QED
  BY <1>1, WholeEntity DEF Without

\* updateLogin and deleteLogin: the two commands read the login they are going to save.
LEMMA ReadLoginTyped ==
  ASSUME Typed, NEW t \in Thread, UpdateUserLogin(t) \/ DeleteUserLogin(t)
  PROVE  Typed'
<1>1. PICK p \in Call : p = thread[t] /\ Fit(p)
  BY DEF Typed
<1>2. RowsTyped /\ p.pc \in {"updateLogin", "deleteLogin"}
  BY <1>1 DEF Typed, UpdateUserLogin, DeleteUserLogin, Mine
<1>3. p.id \in Account /\ p.new \in Nat /\ p.new <= passwords
  BY <1>1, <1>2 DEF Fit, Located, Call
<1>4. RowsTyped' /\ UNCHANGED <<passwords, logins>>
  BY <1>2 DEF RowsTyped, rows, counts, UpdateUserLogin, DeleteUserLogin
<1>5. CASE ~Live(p.id)
  <2>1. Become(t, Idle)
    BY <1>1, <1>5 DEF UpdateUserLogin, DeleteUserLogin, Finish
  <2> QED
    BY <1>2, <1>4, <2>1, IdleType, IdleFits, QuietStep DEF RowsTyped
<1>6. CASE Live(p.id)
  <2>1. PICK l \in LoginRow : l = logins[p.id]
    BY <1>2, <1>3 DEF RowsTyped
  <2>2. l.row = "live" /\ l.password \in 1..passwords
    BY <1>2, <1>3, <1>6, <2>1 DEF Live, RowsTyped
  <2>3. Without(p.id, {}) = l
    BY <1>3, <2>1, WithoutNone
  <2> DEFINE password == IF p.new = 0 THEN l.password ELSE p.new
             updated == [l EXCEPT !.password = password,
                                  !.username = p.record.name, !.group = p.record.kind]
             deleted == [l EXCEPT !.row = "deleted", !.deletionToken = p.id]
  <2>4. updated \in LoginRow /\ updated.row = "live" /\ updated.password \in 1..passwords
    <3>1. password \in Nat /\ password \in 1..passwords
      BY <1>2, <1>3, <2>2 DEF RowsTyped
    <3>2. p.record.name \in Phone \cup Email \cup {Unnamed} /\ p.record.kind \in Kind
      BY DEF Call, AccountRow
    <3> HIDE DEF password
    <3> QED
      BY <2>2, <3>1, <3>2 DEF LoginRow
  <2>5. deleted \in LoginRow /\ deleted.row = "deleted" /\ deleted.password \in 1..passwords
    BY <1>2, <1>3, <2>2 DEF LoginRow, Row
  <2>6. PICK e \in LoginRow : /\ e \in {updated, deleted}
                              /\ Become(t, [p EXCEPT !.pc = "compare", !.login = e])
    BY <1>1, <1>6, <2>3, <2>4, <2>5 DEF UpdateUserLogin, DeleteUserLogin
  <2>7. e.row # "none" /\ e.password \in 1..passwords
    BY <2>4, <2>5, <2>6
  <2> HIDE DEF updated, deleted
  <2>8. DOMAIN e = Column /\ e \in Entity
    BY WholeEntity
  <2>9. PICK q : q = [p EXCEPT !.pc = "compare", !.login = e]
    OBVIOUS
  <2>10. /\ q \in Call /\ q.pc = "compare" /\ q.id = p.id /\ q.login = e
         /\ q.changed = p.changed /\ q.new = p.new /\ q.record = p.record
    BY <2>8, <2>9 DEF Call, PC
  <2>11. q.changed \subseteq DOMAIN q.login
    BY <2>8, <2>10 DEF Call
  <2>12. Fit(q)
    BY <1>1, <1>3, <2>1, <2>2, <2>7, <2>10, <2>11 DEF Fit, Found, Located, Genuine
  <2> QED
    BY <1>4, <2>6, <2>9, <2>10, <2>12, QuietStep
<1> QED
  BY <1>5, <1>6

\* readCode, insertCode, findAdmin, offDuty: the second steps of the calls of AuthService.
LEMMA CodesTyped ==
  ASSUME Typed, NEW t \in Thread, ReadCode(t) \/ InsertCode(t)
  PROVE  Typed'
<1>1. PICK p \in Call : p = thread[t] /\ Fit(p)
  BY DEF Typed
<1>2. RowsTyped /\ Fit(Idle) /\ p.pc \in {"readCode", "insertCode"}
  BY <1>1, IdleFits DEF Typed, RowsTyped, ReadCode, InsertCode, Mine
<1>3. CASE ReadCode(t)
  <2>1. RowsTyped' /\ UNCHANGED <<passwords, logins>> /\ p.pc = "readCode"
    BY <1>1, <1>2, <1>3 DEF RowsTyped, rows, counts, ReadCode, Mine
  <2>2. CASE p.call = "resetByOtp"
    <3>1. Become(t, [p EXCEPT !.pc = "compare"]) \/ Become(t, Idle)
      BY <1>1, <1>3, <2>2 DEF ReadCode, Goto, Finish
    <3>2. PICK q \in Call : q = [p EXCEPT !.pc = "compare"]
      BY Moved DEF PC
    <3>3. Fit(q)
      BY <1>1, <2>1, <2>2, <3>2, Moved DEF Fit, Found, Located, PC
    <3> QED
      BY <1>2, <2>1, <3>1, <3>2, <3>3, IdleType, QuietStep
  <2>3. CASE p.call # "resetByOtp"
    <3>1. Become(t, [p EXCEPT !.pc = "insertCode"]) \/ Become(t, Idle)
      BY <1>1, <1>3, <2>3 DEF ReadCode, Goto, Finish
    <3>2. PICK q \in Call : q = [p EXCEPT !.pc = "insertCode"]
      BY Moved DEF PC
    <3>3. Fit(q)
      BY <1>1, <2>1, <2>3, <3>2, Moved DEF Fit, Found, Located, PC
    <3> QED
      BY <1>2, <2>1, <3>1, <3>2, <3>3, IdleType, QuietStep
  <2> QED
    BY <2>2, <2>3
<1>4. CASE InsertCode(t)
  <2>1. Become(t, Idle) /\ UNCHANGED <<passwords, logins>>
    BY <1>4 DEF InsertCode, Finish
  <2>2. RowsTyped'
    <3>1. p.record.name \in Phone /\ codes[p.record.name] \in Seq(0..now) /\ now \in 0..now
      BY <1>1, <1>2 DEF Fit, RowsTyped
    <3>2. Append(codes[p.record.name], now) \in Seq(0..now)
      BY <3>1
    <3> QED
      BY <1>1, <1>2, <1>4, <3>1, <3>2 DEF RowsTyped, InsertCode
  <2> QED
    BY <1>2, <2>1, <2>2, IdleType, QuietStep
<1> QED
  BY <1>3, <1>4

\* The call that Start begins.
LEMMA StartType ==
  ASSUME Typed, NEW t \in Thread, NEW call, NEW p \in Call, Start(t, call, p)
  PROVE  LET q == [p EXCEPT !.call = call]
         IN  /\ q \in Call /\ Become(t, q)
             /\ q.call = call /\ q.pc = p.pc /\ q.id = p.id /\ q.record = p.record
             /\ q.login = p.login /\ q.changed = p.changed /\ q.new = p.new /\ q.code = p.code
             /\ requests' \in Nat
<1>1. call \in Calls /\ Become(t, [p EXCEPT !.call = call]) /\ requests' \in Nat
  BY DEF Start, Typed, RowsTyped
<1> QED
  BY <1>1 DEF Call

\* A name of some kind of account is a name.
LEMMA NamesOfKind ==
  /\ \A kind \in Kind : Names(kind) \subseteq Phone \cup Email
  /\ \A kind \in Kind, name \in Phone \cup Email : Record(kind, name) \in AccountRow
BY NoRowTypes DEF Names, Record, AccountRow, Row

\* A call that begins with the rows untouched.
LEMMA BeginStep ==
  ASSUME Typed, NEW t \in Thread, NEW call, NEW p \in Call, Start(t, call, p),
         UNCHANGED rows, UNCHANGED <<now, crashes>>, tokens' \in Nat,
         passwords' \in Nat, passwords <= passwords',
         \A q \in Call : /\ q.call = call /\ q.pc = p.pc /\ q.id = p.id /\ q.record = p.record
                         /\ q.login = p.login /\ q.changed = p.changed /\ q.new = p.new
                         => Fit(q)'
  PROVE  Typed'
<1>1. PICK q \in Call : q = [p EXCEPT !.call = call]
  BY StartType
<1>2. /\ Become(t, q) /\ requests' \in Nat
      /\ q.call = call /\ q.pc = p.pc /\ q.id = p.id /\ q.record = p.record
      /\ q.login = p.login /\ q.changed = p.changed /\ q.new = p.new
  BY <1>1, StartType
<1>3. Fit(q)'
  BY <1>2
<1>4. RowsTyped'
  <2>1. RowsTyped
    BY DEF Typed
  <2>2. 1..passwords \subseteq 1..passwords'
    BY <2>1 DEF RowsTyped
  <2> QED
    BY <1>2, <2>1, <2>2 DEF RowsTyped, rows
<1>5. \A a \in Account : logins[a].row # "none" => logins'[a].row # "none"
  BY DEF rows
<1> QED
  BY <1>2, <1>3, <1>4, <1>5, ThreadStep

\* The password that a call brings is counted.
LEMMA BringsType ==
  ASSUME NEW new, Brings(new), passwords \in Nat
  PROVE  /\ new \in Nat /\ passwords' \in Nat /\ passwords <= passwords' /\ new <= passwords'
         /\ new # 0 => new \in 1..passwords'
BY DEF Brings

\* createOne and replaceOne begin with the record they are going to save.
LEMMA SaveAccountBegun ==
  ASSUME Typed, NEW t \in Thread, NEW a \in Account, NEW kind \in Kind, NEW name, NEW new,
         CreateOne(t, a, kind, name) \/ ReplaceOne(t, a, kind, name, new)
  PROVE  Typed'
<1>1. RowsTyped /\ passwords \in Nat
  BY DEF Typed, RowsTyped
<1>8. PICK call \in {"create", "replace"} : \E brought :
        /\ Brings(brought) /\ (call = "create" => brought # 0)
        /\ Start(t, call, [Idle EXCEPT !.pc = "saveRecord", !.id = a, !.new = brought,
                                       !.record = Record(kind, name)])
  <2>1. CASE CreateOne(t, a, kind, name)
    <3>1. /\ Brings(passwords + 1) /\ passwords + 1 # 0
          /\ Start(t, "create", [Idle EXCEPT !.pc = "saveRecord", !.id = a,
                                     !.new = passwords + 1, !.record = Record(kind, name)])
      BY <1>1, <2>1 DEF CreateOne
    <3> QED
      BY <3>1
  <2>2. CASE ReplaceOne(t, a, kind, name, new)
    BY <2>2 DEF ReplaceOne
  <2> QED
    BY <2>1, <2>2
<1>2. PICK brought :
        /\ Brings(brought) /\ (call = "create" => brought # 0)
        /\ Start(t, call, [Idle EXCEPT !.pc = "saveRecord", !.id = a, !.new = brought,
                                       !.record = Record(kind, name)])
  BY <1>8
<1>3. name \in Names(kind) /\ UNCHANGED <<rows, now, tokens, crashes>>
  BY DEF CreateOne, ReplaceOne
<1>4. Record(kind, name) \in AccountRow
  BY <1>3, NamesOfKind
<1>5. PICK p : p = [Idle EXCEPT !.pc = "saveRecord", !.id = a, !.new = brought,
                                !.record = Record(kind, name)]
  OBVIOUS
<1>6. /\ p \in Call /\ p.pc = "saveRecord" /\ p.id = a /\ p.new = brought
      /\ p.login = <<>> /\ p.changed = {}
  BY <1>1, <1>2, <1>4, <1>5, BringsType, IdleType DEF Idle, Call, PC
<1>7. ASSUME NEW q \in Call, q.call = call, q.pc = p.pc, q.id = p.id, q.login = p.login,
             q.changed = p.changed, q.new = p.new
      PROVE  Fit(q)'
  BY <1>1, <1>2, <1>6, <1>7, BringsType DEF Fit, Found, Located, Genuine
<1> QED
  BY <1>1, <1>2, <1>3, <1>5, <1>6, <1>7, BringsType, BeginStep DEF RowsTyped

\* softDeleteOne begins, of a provider or a dealer.
LEMMA SoftDeleteBegun ==
  ASSUME Typed, NEW t \in Thread, NEW a \in Account, SoftDeleteOne(t, a) \/ SoftDeleteDealer(t, a)
  PROVE  Typed'
<1>1. RowsTyped
  BY DEF Typed
<1>2. PICK p : p = [Idle EXCEPT !.pc = "softDelete", !.id = a]
  OBVIOUS
<1>3. /\ p \in Call /\ p.pc = "softDelete" /\ p.id = a /\ p.new = 0
      /\ p.login = <<>> /\ p.changed = {}
  BY <1>2, IdleType DEF Idle, Call, PC
<1>4. /\ Start(t, "delete", p)
      /\ UNCHANGED <<accounts, logins, codes, now, passwords, tokens, crashes>>
      /\ dealers' = dealers \/ dealers' = [dealers EXCEPT ![a] = "deleted"]
  BY <1>2 DEF SoftDeleteOne, SoftDeleteDealer, rows
<1>5. PICK q \in Call : q = [p EXCEPT !.call = "delete"]
  BY <1>3, <1>4, StartType
<1>6. /\ Become(t, q) /\ requests' \in Nat
      /\ q.pc = p.pc /\ q.id = p.id /\ q.login = p.login /\ q.changed = p.changed /\ q.new = p.new
  BY <1>3, <1>4, <1>5, StartType
<1>7. Fit(q)
  BY <1>1, <1>3, <1>6 DEF Fit, Found, Located, Genuine, RowsTyped
<1>8. RowsTyped'
  BY <1>1, <1>4, <1>6 DEF RowsTyped, DealerRow, Row
<1> QED
  BY <1>4, <1>6, <1>7, <1>8, QuietStep

\* A call about a login that was found: entity is what it loaded and set.
LEMMA FoundCall ==
  ASSUME Typed, NEW t \in Thread, NEW call, NEW a \in Account, NEW p \in Call,
         Start(t, call, p), p.pc \in {"compare", "findAdmin", "readCode"}, p.id = a,
         p.pc = "readCode" => p.record.name \in Phone,
         p.changed = {}, logins[a].row # "none",
         UNCHANGED rows, UNCHANGED <<now, crashes>>, tokens' \in Nat,
         p.new = 0 \/ Brings(p.new), p.new = 0 => UNCHANGED passwords,
         "row" \in DOMAIN p.login => p.login.row # "none",
         "password" \in DOMAIN p.login => p.login.password \in (1..passwords) \cup ({p.new} \ {0})
  PROVE  Typed'
<1>1. passwords \in Nat /\ passwords' \in Nat /\ passwords <= passwords' /\ p.new <= passwords'
  BY BringsType DEF Typed, RowsTyped
<1>2. "password" \in DOMAIN p.login => p.login.password \in 1..passwords'
  BY <1>1 DEF Call
<1>3. ASSUME NEW q \in Call, q.call = call, q.pc = p.pc, q.id = p.id, q.record = p.record,
             q.login = p.login, q.changed = p.changed, q.new = p.new
      PROVE  Fit(q)'
  BY <1>1, <1>2, <1>3 DEF Fit, Found, Located, Genuine, rows
<1> QED
  BY <1>1, <1>3, BeginStep

\* A live login is a row, with a password.
LEMMA LiveLogin ==
  ASSUME Typed, NEW a \in Account, Live(a)
  PROVE  /\ logins[a] \in LoginRow /\ logins[a].row # "none" /\ logins[a].password \in 1..passwords
         /\ Without(a, {}) = logins[a]
         /\ passwords \in Nat /\ tokens \in Nat
BY WithoutNone DEF Typed, RowsTyped, Live

\* login begins with a copy from which password and reset token were deleted.
LEMMA LoginBegun ==
  ASSUME Typed, NEW t \in Thread, NEW name, Login(t, name)
  PROVE  Typed'
<1>1. PICK a \in Account :
        /\ NamedBy(a, name)
        /\ Start(t, "login", [Idle EXCEPT !.pc = "compare", !.id = a,
                               !.login = [ReadCredentials(a) EXCEPT !.isLogin = TRUE]])
  BY DEF Login
<1>2. logins[a] \in LoginRow /\ logins[a].row # "none" /\ tokens \in Nat
  BY <1>1, LiveLogin DEF NamedBy
<1> DEFINE S == Column \ {"password", "resetToken"}
<1>3. PICK l \in LoginRow : l = [logins[a] EXCEPT !.isLogin = TRUE]
  BY <1>2 DEF LoginRow
<1>4. l.row # "none"
  BY <1>2, <1>3 DEF LoginRow
<1>5. [ReadCredentials(a) EXCEPT !.isLogin = TRUE] = [c \in S |-> l[c]]
  BY <1>2, <1>3 DEF ReadCredentials, Without, LoginRow, Column
<1>6. PICK e \in Entity : e = [c \in S |-> l[c]]
  BY EntityType
<1>7. DOMAIN e = S /\ e.row = l.row
  BY <1>6 DEF Column
<1>8. PICK p : p = [Idle EXCEPT !.pc = "compare", !.id = a, !.login = e]
  OBVIOUS
<1>9. /\ p \in Call /\ p.pc = "compare" /\ p.id = a /\ p.new = 0 /\ p.login = e /\ p.changed = {}
  BY <1>8, IdleType DEF Idle, Call, PC
<1>10. Start(t, "login", p)
  BY <1>1, <1>5, <1>6, <1>8
<1>11. "password" \notin DOMAIN p.login /\ p.login.row # "none"
  BY <1>4, <1>7, <1>9
<1>12. UNCHANGED rows /\ UNCHANGED <<now, crashes, passwords>> /\ tokens' \in Nat
  BY <1>2 DEF Login
<1> QED
  BY <1>2, <1>9, <1>10, <1>11, <1>12, FoundCall

\* The same with the whole row loaded, its password kept or replaced by the one the
\* call brings.
LEMMA WholeRowBegun ==
  ASSUME Typed, NEW t \in Thread, NEW call, NEW a \in Account, Live(a),
         NEW p \in Call, Start(t, call, p), p.pc \in {"compare", "findAdmin", "readCode"}, p.id = a,
         p.pc = "readCode" => p.record.name \in Phone,
         p.changed = {}, p.login \in LoginRow, p.login.row = logins[a].row,
         p.login.password = IF p.new = 0 THEN logins[a].password ELSE p.new,
         IF p.new = 0 THEN UNCHANGED passwords ELSE Brings(p.new),
         UNCHANGED rows, UNCHANGED <<now, crashes>>, tokens' \in Nat
  PROVE  Typed'
<1>1. logins[a].row # "none" /\ logins[a].password \in 1..passwords
  BY LiveLogin
<1>2. p.login.password \in (1..passwords) \cup ({p.new} \ {0})
  BY <1>1
<1> QED
  BY <1>1, <1>2, FoundCall

\* logout begins with the whole login.
LEMMA LogoutBegun ==
  ASSUME Typed, NEW t \in Thread, NEW a \in Account, Logout(t, a)
  PROVE  Typed'
<1>1. Live(a)
  BY DEF Logout
<1>2. logins[a] \in LoginRow /\ Without(a, {}) = logins[a] /\ tokens \in Nat
  BY <1>1, LiveLogin
<1>3. PICK l \in LoginRow : l = [logins[a] EXCEPT !.isLogin = FALSE]
  BY <1>2 DEF LoginRow
<1>4. l.row = logins[a].row /\ l.password = logins[a].password
  BY <1>2, <1>3 DEF LoginRow
<1>5. PICK p : p = [Idle EXCEPT !.pc = "compare", !.id = a, !.login = l]
  OBVIOUS
<1>6. /\ p \in Call /\ p.pc = "compare" /\ p.id = a /\ p.new = 0 /\ p.login = l /\ p.changed = {}
  BY <1>5, IdleType, WholeEntity DEF Idle, Call, PC
<1>7. /\ Start(t, "logout", p)
      /\ UNCHANGED rows /\ UNCHANGED <<now, passwords, tokens, crashes>>
  BY <1>2, <1>3, <1>5 DEF Logout
<1> QED
  BY <1>1, <1>2, <1>4, <1>6, <1>7, WholeRowBegun

\* Reset keeps a login a login.
LEMMA ResetType ==
  ASSUME Typed, NEW a \in Account, Live(a), NEW new \in Nat
  PROVE  /\ Reset(a, new) \in LoginRow
         /\ Reset(a, new).row = logins[a].row /\ Reset(a, new).password = new
BY LiveLogin DEF Reset, LoginRow

\* resetPasswordByToken begins with the whole login and a new password.
LEMMA ResetPasswordBegun ==
  ASSUME Typed, NEW t \in Thread, NEW a \in Account, ResetPasswordByToken(t, a)
  PROVE  Typed'
<1>1. Live(a) /\ passwords \in Nat /\ tokens \in Nat
  BY LiveLogin DEF ResetPasswordByToken
<1>2. PICK new \in Nat : new = passwords + 1 /\ new # 0
  BY <1>1
<1>3. PICK l \in LoginRow : l = Reset(a, new) /\ l.row = logins[a].row /\ l.password = new
  BY <1>1, ResetType
<1>4. PICK p : p = [Idle EXCEPT !.pc = "compare", !.id = a, !.new = new, !.login = l]
  OBVIOUS
<1>5. /\ p \in Call /\ p.pc = "compare" /\ p.id = a /\ p.new = new /\ p.login = l /\ p.changed = {}
  BY <1>4, IdleType, WholeEntity DEF Idle, Call, PC
<1>6. /\ Start(t, "resetPassword", p) /\ Brings(p.new)
      /\ UNCHANGED rows /\ UNCHANGED <<now, tokens, crashes>>
  BY <1>2, <1>3, <1>4, <1>5 DEF ResetPasswordByToken
<1> QED
  BY <1>1, <1>2, <1>3, <1>5, <1>6, WholeRowBegun

\* setPasswordResetToken begins with the whole login and a new token.
LEMMA ForgetPasswordBegun ==
  ASSUME Typed, NEW t \in Thread, NEW name, ForgetPassword(t, name)
  PROVE  Typed'
<1>1. PICK a \in Account :
        /\ NamedBy(a, name)
        /\ Start(t, "forgetPassword",
                 [Idle EXCEPT !.pc = "findAdmin", !.id = a, !.code = tokens + 1,
                              !.login = [Without(a, {}) EXCEPT !.resetToken = tokens + 1]])
  BY DEF ForgetPassword
<1>2. /\ Live(a) /\ logins[a] \in LoginRow /\ Without(a, {}) = logins[a] /\ tokens \in Nat
  BY <1>1, LiveLogin DEF NamedBy
<1>3. PICK code \in Nat : code = tokens + 1
  BY <1>2
<1>4. PICK l \in LoginRow : l = [logins[a] EXCEPT !.resetToken = code]
  BY <1>2 DEF LoginRow
<1>5. l.row = logins[a].row /\ l.password = logins[a].password
  BY <1>2, <1>4 DEF LoginRow
<1>6. PICK p : p = [Idle EXCEPT !.pc = "findAdmin", !.id = a, !.code = code, !.login = l]
  OBVIOUS
<1>7. /\ p \in Call /\ p.pc = "findAdmin" /\ p.id = a /\ p.new = 0 /\ p.login = l /\ p.changed = {}
  BY <1>6, IdleType, WholeEntity DEF Idle, Call, PC
<1>8. Start(t, "forgetPassword", p)
  BY <1>1, <1>2, <1>3, <1>4, <1>6
<1>9. UNCHANGED rows /\ UNCHANGED <<now, passwords, crashes>> /\ tokens' = code
  BY <1>3 DEF ForgetPassword
<1> QED
  BY <1>2, <1>5, <1>7, <1>8, <1>9, WholeRowBegun

\* resetPasswordByOtpToken begins with the login of the phone number.
LEMMA ResetByOtpBegun ==
  ASSUME Typed, NEW t \in Thread, NEW phone \in Phone, NEW code \in DOMAIN codes[phone],
         ResetPasswordByOtpToken(t, phone, code)
  PROVE  Typed'
<1>1. PICK a \in Account :
        /\ NamedBy(a, phone)
        /\ Start(t, "resetByOtp",
                 [Idle EXCEPT !.pc = "readCode", !.id = a, !.code = code, !.new = passwords + 1,
                              !.record.name = phone, !.login = Reset(a, passwords + 1)])
  BY DEF ResetPasswordByOtpToken
<1>2. Live(a) /\ passwords \in Nat /\ tokens \in Nat
  BY <1>1, LiveLogin DEF NamedBy
<1>3. code \in Nat
  BY DEF Typed, RowsTyped
<1>4. PICK new \in Nat : new = passwords + 1 /\ new # 0
  BY <1>2
<1>5. PICK l \in LoginRow : l = Reset(a, new) /\ l.row = logins[a].row /\ l.password = new
  BY <1>2, ResetType
<1>6. PICK record \in AccountRow : record = [NoAccount EXCEPT !.name = phone]
  BY NoRowTypes DEF AccountRow
<1>7. record.name = phone
  BY <1>6, NoRowTypes DEF AccountRow
<1>8. PICK p : p = [Idle EXCEPT !.pc = "readCode", !.id = a, !.code = code, !.new = new,
                                !.record.name = phone, !.login = l]
  OBVIOUS
<1>9. /\ p \in Call /\ p.pc = "readCode" /\ p.id = a /\ p.new = new /\ p.record = record
      /\ p.login = l /\ p.changed = {}
  BY <1>3, <1>6, <1>8, IdleType, WholeEntity DEF Idle, Call, PC
<1>10. Start(t, "resetByOtp", p)
  BY <1>1, <1>4, <1>5, <1>8
<1>11. Brings(p.new) /\ UNCHANGED rows /\ UNCHANGED <<now, tokens, crashes>>
  BY <1>4, <1>9 DEF ResetPasswordByOtpToken
<1> QED
  BY <1>2, <1>4, <1>5, <1>7, <1>9, <1>10, <1>11, WholeRowBegun

\* updatePassword begins with an entity of one column.
LEMMA ChangePasswordBegun ==
  ASSUME Typed, NEW t \in Thread, NEW a \in Account, ChangePassword(t, a)
  PROVE  Typed'
<1>1. Live(a) /\ Brings(passwords + 1)
  BY DEF ChangePassword
<1>2. logins[a] \in LoginRow /\ logins[a].row # "none" /\ passwords \in Nat /\ tokens \in Nat
  BY <1>1, LiveLogin
<1>3. PICK new \in Nat : new = passwords + 1 /\ new # 0
  BY <1>2
<1>4. PICK l \in LoginRow : l = [logins[a] EXCEPT !.password = new]
  BY <1>2 DEF LoginRow
<1>5. l.password = new
  BY <1>2, <1>4 DEF LoginRow
<1>6. PICK e \in Entity : e = [c \in {"password"} |-> l[c]]
  BY EntityType DEF Column
<1>7. DOMAIN e = {"password"} /\ e.password = new /\ e = [c \in {"password"} |-> new]
  BY <1>5, <1>6
<1>8. PICK p : p = [Idle EXCEPT !.pc = "compare", !.id = a, !.new = new, !.login = e]
  OBVIOUS
<1>9. /\ p \in Call /\ p.pc = "compare" /\ p.id = a /\ p.new = new
      /\ p.login = e /\ p.changed = {}
  BY <1>8, IdleType DEF Idle, Call, PC
<1>10. /\ Start(t, "changePassword", p) /\ Brings(p.new)
       /\ UNCHANGED rows /\ UNCHANGED <<now, tokens, crashes>>
  BY <1>1, <1>3, <1>7, <1>8, <1>9 DEF ChangePassword
<1>11. p.login.password \in (1..passwords) \cup ({p.new} \ {0})
  BY <1>3, <1>7, <1>9
<1>12. "row" \notin DOMAIN p.login
  BY <1>7, <1>9
<1> QED
  BY <1>2, <1>3, <1>9, <1>10, <1>11, <1>12, FoundCall

\* requestOtpToken begins with the phone number alone.
LEMMA RequestOtpBegun ==
  ASSUME Typed, NEW t \in Thread, NEW phone \in Phone, RequestOtpToken(t, phone)
  PROVE  Typed'
<1>1. RowsTyped
  BY DEF Typed
<1>2. PICK record \in AccountRow : record = [NoAccount EXCEPT !.name = phone]
  BY NoRowTypes DEF AccountRow
<1>3. record.name = phone
  BY <1>2, NoRowTypes DEF AccountRow
<1>4. PICK p : p = [Idle EXCEPT !.pc = "readCode", !.record.name = phone]
  OBVIOUS
<1>5. /\ p \in Call /\ p.pc = "readCode" /\ p.call = "none" /\ p.new = 0 /\ p.record = record
      /\ p.login = <<>> /\ p.changed = {}
  BY <1>2, <1>4, IdleType DEF Idle, Call, PC
<1>6. /\ Start(t, "requestOtp", p)
      /\ UNCHANGED rows /\ UNCHANGED <<now, passwords, tokens, crashes>>
  BY <1>4 DEF RequestOtpToken
<1>7. ASSUME NEW q \in Call, q.call = "requestOtp", q.pc = p.pc, q.record = p.record,
             q.login = p.login, q.changed = p.changed, q.new = p.new
      PROVE  Fit(q)'
  <2>1. Fit(q)
    BY <1>1, <1>3, <1>5, <1>7 DEF Fit, Found, Located, Genuine, RowsTyped
  <2> QED
    BY <1>6, <2>1, Unmoved DEF rows
<1>8. tokens \in Nat /\ passwords \in Nat
  BY <1>1 DEF RowsTyped
<1> QED
  BY <1>5, <1>6, <1>7, <1>8, BeginStep

\* Duty, the clock and a crash.
LEMMA OtherStepsTyped ==
  ASSUME Typed,
         \/ \E a \in Account, duty \in BOOLEAN : Duty(a, duty)
         \/ Tick \/ Crash
  PROVE  Typed'
<1>1. RowsTyped /\ thread \in [Thread -> Call] /\ \A t \in Thread : Fit(thread[t])
  BY DEF Typed
<1>2. UNCHANGED <<logins, passwords>>
  BY DEF Duty, Tick, Crash, rows, counts
<1>3. ASSUME NEW a \in Account, NEW duty \in BOOLEAN, Duty(a, duty)
      PROVE  Typed'
  <2>1. PICK r \in AccountRow : r = [accounts[a] EXCEPT !.isOnDuty = duty]
    BY <1>1 DEF RowsTyped, AccountRow
  <2>2. accounts' = accounts \/ accounts' = [accounts EXCEPT ![a] = r]
    BY <1>3, <2>1 DEF Duty, SetDuty
  <2>3. RowsTyped' /\ UNCHANGED thread
    BY <1>1, <1>3, <2>2 DEF Duty, RowsTyped
  <2> QED
    BY <1>1, <1>2, <2>3 DEF Typed, Fit, Genuine, Found
<1>4. CASE Tick
  <2>1. Seq(0..now) \subseteq Seq(0..now')
    BY <1>1, <1>4, SeqMonotonic DEF RowsTyped, Tick
  <2>2. RowsTyped' /\ UNCHANGED thread
    BY <1>1, <1>4, <2>1 DEF RowsTyped, Tick, rows, counts
  <2> QED
    BY <1>1, <1>2, <2>2 DEF Typed, Fit, Genuine, Found
<1>5. CASE Crash
  <2>1. RowsTyped' /\ thread' = [t \in Thread |-> Idle]
    BY <1>1, <1>5 DEF RowsTyped, Crash, rows
  <2>2. Fit(Idle)'
    BY <1>1, <1>2, IdleFits, Unmoved DEF RowsTyped
  <2> QED
    BY <2>1, <2>2, IdleType DEF Typed, Fit, Genuine, Found
<1> QED
  BY <1>3, <1>4, <1>5

\* Every step keeps rows and calls typed.
LEMMA TypedStep == Typed /\ [Next]_vars => Typed'
<1> SUFFICES ASSUME Typed, [Next]_vars PROVE Typed'
  OBVIOUS
<1>1. CASE UNCHANGED vars
  BY <1>1 DEF vars, rows, counts, Typed, RowsTyped, Fit, Genuine, Found
<1>2. ASSUME NEW t \in Thread, Administer(t)
      PROVE  Typed'
  <2>1. ASSUME NEW name, NEW kinds \in SUBSET Kind, OneOf(t, kinds, name)
        PROVE  Typed'
    BY <2>1, SaveAccountBegun DEF OneOf
  <2>2. CASE ServiceProviders(t)
    BY <2>1, <2>2, SoftDeleteBegun DEF ServiceProviders, Kind
  <2>3. CASE Dealers(t)
    BY <2>1, <2>3, SoftDeleteBegun DEF Dealers, Kind
  <2>4. CASE AdminUsers(t)
    BY <2>1, <2>4 DEF AdminUsers, Kind
  <2>5. CASE LoginCommands(t)
    BY <2>5, CreateUserLoginTyped, ReadLoginTyped DEF LoginCommands
  <2> QED
    BY <1>2, <2>2, <2>3, <2>4, <2>5, SaveRecordTyped DEF Administer
<1>3. ASSUME NEW t \in Thread, Authenticate(t)
      PROVE  Typed'
  BY <1>3, LoginBegun, ForgetPasswordBegun, LogoutBegun, ChangePasswordBegun,
     ResetPasswordBegun, RequestOtpBegun, ResetByOtpBegun, CodesTyped, CompareTyped
     DEF Authenticate
<1> QED
  BY <1>1, <1>2, <1>3, CompareTyped, UpdateTyped, OtherStepsTyped DEF Next

\* They are to begin with.
LEMMA TypedInit == Init => Typed
<1> SUFFICES ASSUME Init PROVE Typed
  OBVIOUS
<1>1. <<>> \in Seq(0..now)
  OBVIOUS
<1>2. RowsTyped
  BY <1>1, NoRowTypes DEF Init, RowsTyped, DealerRow, Row, NoLogin
<1> QED
  BY <1>2, IdleType, IdleFits DEF Init, Typed, RowsTyped

\* Rows and calls are always typed, and each call fits the rows.
LEMMA Typing == Spec => []Typed
<1> QED
  BY TypedInit, TypedStep, PTL DEF Spec

\* The four tables and the calls in progress are of their types, for any of the calls in
\* parallel: a login in use always has a password that somebody thought of, and no save
\* writes a column that its entity did not load.
THEOREM TypeCorrect == Spec => []TypeOK
<1>1. Typed => TypeOK
  <2> SUFFICES ASSUME Typed PROVE TypeOK
    OBVIOUS
  <2>1. ASSUME NEW t \in Thread
        PROVE  /\ thread[t].pc \in PC
               /\ DOMAIN thread[t].login \subseteq Column
               /\ thread[t].changed \subseteq DOMAIN thread[t].login
    <3>1. thread[t] \in Call /\ Fit(thread[t])
      BY DEF Typed
    <3> QED
      BY <3>1, EntityFields DEF Call, Fit
  <2> QED
    BY <2>1 DEF Typed, RowsTyped, TypeOK
<1> QED
  BY <1>1, Typing, PTL

------------------------------------------------------------------------------
(* Which calls are in progress together, and the rate of the codes *)

\* Of a nonempty set of positions of a sequence the newest is the last one.
LEMMA NewestIsLast ==
  ASSUME NEW n \in Nat, NEW s \in SUBSET (1..n), s # {}
  PROVE  Newest(s) \in s /\ \A j \in s : j <= Newest(s)
<1> DEFINE T == {n - i : i \in s}
<1>1. T \subseteq Nat /\ T # {}
  <2>1. \A i \in s : n - i \in Nat
    OBVIOUS
  <2> QED
    BY <2>1
<1>2. PICK x \in T : \A y \in T : <<y, x>> \notin OpToRel(<, Nat)
  BY <1>1, NatLessThanWellFounded, WFMin
<1>3. PICK i \in s : x = n - i
  BY <1>2
<1>4. \A j \in s : j <= i
  <2>1. ASSUME NEW j \in s PROVE ~(n - j < x)
    BY <1>1, <1>2 DEF OpToRel
  <2> QED
    BY <1>3, <2>1
<1> QED
  BY <1>4 DEF Newest

\* Calls that are in progress together are calls that may overlap.
Exclusive ==
  \A t, u \in Thread : t # u /\ thread[t] # Idle /\ thread[u] # Idle =>
                         {thread[t].call, thread[u].call} \subseteq Overlapping

\* What a step does to the calls: one goes on or ends, or one begins.
GoesOn(t) == /\ thread[t] # Idle
             /\ \E q \in Call : Become(t, q) /\ (q = Idle \/ q.call = thread[t].call)
Begins(t) == /\ thread[t] = Idle
             /\ \E q \in Call : /\ Become(t, q)
                                /\ \A u \in Thread : \/ thread[u] = Idle
                                                     \/ {q.call, thread[u].call} \subseteq Overlapping

\* Every step but a crash is the beginning of one call, or one call going on.
LEMMA BeginsOrGoesOn ==
  ASSUME Typed, Typed', NEW t \in Thread,
         Administer(t) \/ Authenticate(t) \/ Compare(t) \/ Update(t)
  PROVE  GoesOn(t) \/ Begins(t)
<1>1. PICK q \in Call : q = thread'[t]
  BY DEF Typed
<1>2. ASSUME NEW r, Become(t, r) PROVE r = q
  BY <1>1, <1>2 DEF Typed, Become
<1>3. thread[t] \in Call
  BY DEF Typed
<1>4. ASSUME NEW r, Become(t, r), r = Idle \/ r.call = thread[t].call, thread[t].pc # "idle"
      PROVE  GoesOn(t)
  BY <1>2, <1>4 DEF GoesOn, Idle
<1>5. ASSUME NEW pc, Goto(t, pc), thread[t].pc # "idle"
      PROVE  GoesOn(t)
  <2>1. [thread[t] EXCEPT !.pc = pc].call = thread[t].call
    BY <1>3 DEF Call
  <2> QED
    BY <1>4, <1>5, <2>1 DEF Goto
<1>6. ASSUME Finish(t), thread[t].pc # "idle"
      PROVE  GoesOn(t)
  BY <1>4, <1>6 DEF Finish
<1>7. CASE Compare(t)
  BY <1>3, <1>4, <1>7 DEF Compare, Mine, Call
<1>8. CASE Update(t)
  BY <1>5, <1>6, <1>8 DEF Update, Mine
<1>9. CASE SaveRecord(t) \/ SaveDealer(t) \/ SoftDelete(t)
  BY <1>5, <1>9 DEF SaveRecord, SaveDealer, SoftDelete, Mine
<1>10. CASE CreateUserLogin(t)
  BY <1>6, <1>10 DEF CreateUserLogin, Mine
<1>11. CASE UpdateUserLogin(t) \/ DeleteUserLogin(t)
  <2>1. ASSUME NEW e PROVE [thread[t] EXCEPT !.pc = "compare", !.login = e].call = thread[t].call
    BY <1>3 DEF Call
  <2> QED
    BY <1>4, <1>6, <1>11, <2>1 DEF UpdateUserLogin, DeleteUserLogin, Mine
<1>12. CASE ReadCode(t) \/ InsertCode(t) \/ FindAdmin(t) \/ LogoutOffDuty(t)
  BY <1>5, <1>6, <1>12 DEF ReadCode, InsertCode, FindAdmin, LogoutOffDuty, Mine
<1>13. ASSUME NEW call, NEW p, "call" \in DOMAIN p, Start(t, call, p)
       PROVE  Begins(t)
  <2>1. [p EXCEPT !.call = call].call = call
    BY <1>13
  <2>2. Become(t, [p EXCEPT !.call = call])
    BY <1>13 DEF Start
  <2>3. q = [p EXCEPT !.call = call]
    BY <1>2, <2>2
  <2> QED
    BY <1>13, <2>1, <2>2, <2>3 DEF Start, Begins
<1>14. ASSUME NEW a, NEW kind, NEW name, CreateOne(t, a, kind, name)
       PROVE  Begins(t)
  BY <1>13, <1>14 DEF CreateOne, Idle
<1>15. ASSUME NEW a, NEW kind, NEW name, NEW new, ReplaceOne(t, a, kind, name, new)
       PROVE  Begins(t)
  BY <1>13, <1>15 DEF ReplaceOne, Idle
<1>16. ASSUME NEW a, SoftDeleteOne(t, a) \/ SoftDeleteDealer(t, a)
       PROVE  Begins(t)
  BY <1>13, <1>16 DEF SoftDeleteOne, SoftDeleteDealer, Idle
<1>17. ASSUME NEW name, Login(t, name) \/ ForgetPassword(t, name)
       PROVE  Begins(t)
  BY <1>13, <1>17 DEF Login, ForgetPassword, Idle
<1>18. ASSUME NEW a, Logout(t, a) \/ ChangePassword(t, a) \/ ResetPasswordByToken(t, a)
       PROVE  Begins(t)
  BY <1>13, <1>18 DEF Logout, ChangePassword, ResetPasswordByToken, Idle
<1>19. ASSUME NEW phone, RequestOtpToken(t, phone)
       PROVE  Begins(t)
  BY <1>13, <1>19 DEF RequestOtpToken, Idle
<1>20. ASSUME NEW phone, NEW code, ResetPasswordByOtpToken(t, phone, code)
       PROVE  Begins(t)
  BY <1>13, <1>20 DEF ResetPasswordByOtpToken, Idle
<1>21. CASE Administer(t)
  BY <1>9, <1>10, <1>11, <1>14, <1>15, <1>16, <1>21 DEF Administer, ServiceProviders, Dealers,
     AdminUsers, OneOf, LoginCommands
<1>22. CASE Authenticate(t)
  BY <1>12, <1>17, <1>18, <1>19, <1>20, <1>22 DEF Authenticate
<1> QED
  BY <1>7, <1>8, <1>21, <1>22

\* Calls in progress together are all of them in Overlapping.
LEMMA ExclusiveStep == Typed /\ Typed' /\ Exclusive /\ [Next]_vars => Exclusive'
<1> SUFFICES ASSUME Typed, Typed', Exclusive, [Next]_vars PROVE Exclusive'
  OBVIOUS
<1>1. CASE UNCHANGED thread
  BY <1>1 DEF Exclusive
<1>2. CASE Crash
  BY <1>2 DEF Exclusive, Crash
<1>3. ASSUME NEW t \in Thread, GoesOn(t)
      PROVE  Exclusive'
  <2>1. PICK q \in Call : Become(t, q) /\ (q = Idle \/ q.call = thread[t].call)
    BY <1>3 DEF GoesOn
  <2>2. \A u \in Thread : thread'[u] = IF u = t THEN q ELSE thread[u]
    BY <2>1 DEF Become, Typed
  <2> QED
    BY <1>3, <2>1, <2>2 DEF Exclusive, GoesOn
<1>4. ASSUME NEW t \in Thread, Begins(t)
      PROVE  Exclusive'
  <2>1. PICK q \in Call : /\ Become(t, q)
                          /\ \A u \in Thread : \/ thread[u] = Idle
                                               \/ {q.call, thread[u].call} \subseteq Overlapping
    BY <1>4 DEF Begins
  <2>2. \A u \in Thread : thread'[u] = IF u = t THEN q ELSE thread[u]
    BY <2>1 DEF Become, Typed
  <2> QED
    BY <2>1, <2>2 DEF Exclusive
<1>5. (\E a \in Account, duty \in BOOLEAN : Duty(a, duty)) \/ Tick => UNCHANGED thread
  BY DEF Duty, Tick
<1> QED
  BY <1>1, <1>2, <1>3, <1>4, <1>5, BeginsOrGoesOn DEF Next, vars

\* What makes the next code, if it is inserted now, come late enough: the codes made
\* so far were made in order, and the one call that is about to insert one has
\* found the last of them old enough.
Ordered(made) == \A i, j \in DOMAIN made : i < j => made[i] <= made[j]

LateEnough(made) ==
  \A i \in DOMAIN made : now >= made[i] + RequestWindow \/ now >= made[i] + ExpiryWindow

OtpInv ==
  /\ OtpWithinRate
  /\ \A p \in Phone : Ordered(codes[p])
  /\ \A t \in Thread :
       /\ thread[t].pc = "readCode" => thread[t].call \in {"requestOtp", "resetByOtp"}
       /\ thread[t].pc = "insertCode" => /\ thread[t].call = "requestOtp"
                                         /\ LateEnough(codes[thread[t].record.name])

\* The steps that have nothing to do with codes.
NotOfCodes(t) ==
  \/ Administer(t) \/ Compare(t) \/ Update(t) \/ FindAdmin(t) \/ LogoutOffDuty(t)
  \/ \E name \in Phone \cup Email : Login(t, name) \/ ForgetPassword(t, name)
  \/ \E a \in Account : Logout(t, a) \/ ChangePassword(t, a) \/ ResetPasswordByToken(t, a)

\* Only InsertCode changes the codes.
LEMMA NotOfCodesStep ==
  ASSUME Typed, NEW t \in Thread, NotOfCodes(t)
  PROVE  /\ \A u \in Thread : u # t => thread'[u] = thread[u]
         /\ thread'[t].pc \notin {"readCode", "insertCode"}
         /\ UNCHANGED <<codes, now>>
<1>1. ASSUME NEW q, Become(t, q)
      PROVE  thread'[t] = q /\ \A u \in Thread : u # t => thread'[u] = thread[u]
  BY <1>1 DEF Become, Typed
<1> DEFINE Away == /\ \A u \in Thread : u # t => thread'[u] = thread[u]
                   /\ thread'[t].pc \notin {"readCode", "insertCode"}
<1>2. ASSUME Finish(t) PROVE Away
  BY <1>1, <1>2 DEF Finish, Idle
<1>3. ASSUME NEW pc \in PC \ {"readCode", "insertCode"}, Goto(t, pc)
      PROVE  Away
  <2>1. [thread[t] EXCEPT !.pc = pc].pc = pc
    BY DEF Typed, Call
  <2> QED
    BY <1>1, <1>3, <2>1 DEF Goto
<1>4. ASSUME NEW call, NEW p, "call" \in DOMAIN p, "pc" \in DOMAIN p,
             p.pc \notin {"readCode", "insertCode"}, Start(t, call, p)
      PROVE  Away
  <2>1. [p EXCEPT !.call = call].pc = p.pc
    BY <1>4
  <2> QED
    BY <1>1, <1>4, <2>1 DEF Start
<1>5. CASE Compare(t)
  <2>1. ASSUME NEW c PROVE [thread[t] EXCEPT !.pc = "update", !.changed = c].pc = "update"
    BY DEF Typed, Call
  <2> QED
    BY <1>1, <1>5, <2>1 DEF Compare, rows
<1>6. CASE Update(t)
  <2>1. Finish(t) \/ Goto(t, "offDuty")
    BY <1>6 DEF Update
  <2>2. Away
    BY <1>2, <1>3, <2>1 DEF PC
  <2> QED
    BY <1>6, <2>2 DEF Update
<1>7. CASE SaveRecord(t) \/ SaveDealer(t) \/ SoftDelete(t)
  <2>1. \E pc \in {"updateLogin", "saveDealer", "insertLogin", "deleteLogin"} : Goto(t, pc)
    BY <1>7 DEF SaveRecord, SaveDealer, SoftDelete
  <2>2. Away
    BY <1>3, <2>1 DEF PC
  <2> QED
    BY <1>7, <2>2 DEF SaveRecord, SaveDealer, SoftDelete
<1>8. CASE CreateUserLogin(t)
  BY <1>2, <1>8 DEF CreateUserLogin
<1>9. CASE UpdateUserLogin(t) \/ DeleteUserLogin(t)
  <2>1. ASSUME NEW e, Become(t, [thread[t] EXCEPT !.pc = "compare", !.login = e])
        PROVE  Away
    <3>1. [thread[t] EXCEPT !.pc = "compare", !.login = e].pc = "compare"
      BY DEF Typed, Call
    <3> QED
      BY <1>1, <2>1, <3>1
  <2>2. Away
    BY <1>2, <1>9, <2>1 DEF UpdateUserLogin, DeleteUserLogin
  <2> QED
    BY <1>9, <2>2 DEF UpdateUserLogin, DeleteUserLogin, rows
<1>10. CASE FindAdmin(t) \/ LogoutOffDuty(t)
  <2>1. Finish(t) \/ Goto(t, "compare")
    BY <1>10 DEF FindAdmin, LogoutOffDuty
  <2>2. Away
    BY <1>2, <1>3, <2>1 DEF PC
  <2> QED
    BY <1>10, <2>2 DEF FindAdmin, LogoutOffDuty, rows
<1>11. ASSUME NEW a, NEW kind, NEW name, CreateOne(t, a, kind, name)
       PROVE  Away /\ UNCHANGED <<codes, now>>
  BY <1>4, <1>11 DEF CreateOne, Idle, rows
<1>12. ASSUME NEW a, NEW kind, NEW name, NEW new, ReplaceOne(t, a, kind, name, new)
       PROVE  Away /\ UNCHANGED <<codes, now>>
  BY <1>4, <1>12 DEF ReplaceOne, Idle, rows
<1>13. ASSUME NEW a, SoftDeleteOne(t, a) \/ SoftDeleteDealer(t, a)
       PROVE  Away /\ UNCHANGED <<codes, now>>
  BY <1>4, <1>13 DEF SoftDeleteOne, SoftDeleteDealer, Idle, rows
<1>14. ASSUME NEW name, Login(t, name) \/ ForgetPassword(t, name)
       PROVE  Away /\ UNCHANGED <<codes, now>>
  BY <1>4, <1>14 DEF Login, ForgetPassword, Idle, rows
<1>15. ASSUME NEW a, Logout(t, a) \/ ChangePassword(t, a) \/ ResetPasswordByToken(t, a)
       PROVE  Away /\ UNCHANGED <<codes, now>>
  BY <1>4, <1>15 DEF Logout, ChangePassword, ResetPasswordByToken, Idle, rows
<1>16. CASE Administer(t)
  BY <1>7, <1>8, <1>9, <1>11, <1>12, <1>13, <1>16 DEF Administer, ServiceProviders, Dealers,
     AdminUsers, OneOf, LoginCommands
<1> QED
  BY <1>5, <1>6, <1>10, <1>14, <1>15, <1>16 DEF NotOfCodes

\* The codes of a phone are times in a sequence.
LEMMA CodesType ==
  ASSUME Typed, NEW p \in Phone
  PROVE  /\ codes[p] \in Seq(Nat) /\ Len(codes[p]) \in Nat /\ DOMAIN codes[p] = 1..Len(codes[p])
         /\ \A i \in DOMAIN codes[p] : codes[p][i] \in Nat /\ codes[p][i] <= now
         /\ now \in Nat /\ RequestWindow \in Nat /\ ExpiryWindow \in Nat
<1>1. codes[p] \in Seq(0..now) /\ now \in Nat
  BY DEF Typed, RowsTyped
<1>2. RequestWindow \in Nat /\ ExpiryWindow \in Nat
  BY AccountsAssumption
<1>3. PICK made, T : made = codes[p] /\ T = 0..now
  OBVIOUS
<1>4. made \in Seq(T)
  BY <1>1, <1>3
<1>5. T \subseteq Nat /\ \A x \in T : x <= now
  BY <1>1, <1>3
<1>6. Len(made) \in Nat /\ DOMAIN made = 1..Len(made) /\ \A i \in DOMAIN made : made[i] \in T
  BY <1>4
<1>7. made \in Seq(Nat)
  BY <1>4, <1>5, SeqMonotonic
<1>8. \A i \in DOMAIN made : made[i] \in Nat /\ made[i] <= now
  BY <1>5, <1>6
<1> QED
  BY <1>1, <1>2, <1>3, <1>6, <1>7, <1>8

\* Later than late enough is late enough.
LEMMA LateEnoughStays ==
  ASSUME Typed, NEW p \in Phone, NEW made, made = codes[p], LateEnough(made),
         now' \in Nat, now <= now'
  PROVE  LateEnough(made)'
<1>1. ASSUME NEW i \in DOMAIN made
      PROVE  now' >= made[i] + RequestWindow \/ now' >= made[i] + ExpiryWindow
  <2>1. PICK n, m : n = now /\ m = now'
    OBVIOUS
  <2>2. /\ made[i] \in Nat /\ n \in Nat /\ m \in Nat /\ n <= m
        /\ RequestWindow \in Nat /\ ExpiryWindow \in Nat
    BY <2>1, CodesType
  <2>3. n >= made[i] + RequestWindow \/ n >= made[i] + ExpiryWindow
    BY <2>1 DEF LateEnough
  <2>4. m >= made[i] + RequestWindow \/ m >= made[i] + ExpiryWindow
    BY <2>2, <2>3
  <2> QED BY <2>1, <2>4
<1> QED BY <1>1 DEF LateEnough

\* A step that changes no code and begins or ends no request for one.
LEMMA QuietCodes ==
  ASSUME Typed, Typed', OtpInv, UNCHANGED codes, now <= now',
         \A t \in Thread : \/ thread'[t] = thread[t]
                           \/ thread'[t].pc \notin {"readCode", "insertCode"}
                           \/ thread'[t].pc = "readCode" /\ thread'[t].call \in {"requestOtp", "resetByOtp"}
  PROVE  OtpInv'
<1>1. now' \in Nat
  BY DEF Typed, RowsTyped
<1>2. OtpWithinRate' /\ \A p \in Phone : Ordered(codes[p])'
  BY DEF OtpInv, OtpWithinRate, Ordered
<1>3. ASSUME NEW t \in Thread, thread'[t].pc = "insertCode"
      PROVE  thread'[t].call = "requestOtp" /\ LateEnough(codes[thread[t].record.name])'
  <2>1. thread'[t] = thread[t]
    BY <1>3
  <2>2. thread[t].record.name \in Phone
    BY <1>3, <2>1 DEF Typed, Fit
  <2>3. PICK made : made = codes[thread[t].record.name]
    OBVIOUS
  <2>4. LateEnough(made)'
    BY <1>1, <1>3, <2>1, <2>2, <2>3, LateEnoughStays DEF OtpInv
  <2> QED
    BY <1>3, <2>1, <2>3, <2>4 DEF OtpInv, LateEnough
<1> QED
  BY <1>2, <1>3 DEF OtpInv

\* InsertCode: the code that is inserted was found to be late enough.
LEMMA AppendedCodes ==
  ASSUME Typed, Typed', Exclusive, OtpInv, "requestOtp" \notin Overlapping,
         NEW t \in Thread, InsertCode(t)
  PROVE  OtpInv'
<1> DEFINE p == thread[t].record.name
           made == codes[p]
<1>1. thread[t].pc = "insertCode" /\ thread[t].call = "requestOtp" /\ LateEnough(made) /\ p \in Phone
  BY DEF InsertCode, Mine, OtpInv, Typed, Fit
<1>2. /\ codes' = [codes EXCEPT ![p] = Append(made, now)] /\ UNCHANGED now
      /\ thread' = [thread EXCEPT ![t] = Idle]
  BY DEF InsertCode, Finish, Become
<1>3. PICK old : old = made
  OBVIOUS
<1>4. PICK phone \in Phone : phone = p
  BY <1>1
<1>5. /\ old \in Seq(Nat) /\ \A i \in DOMAIN old : old[i] \in Nat /\ old[i] <= now
      /\ now \in Nat /\ RequestWindow \in Nat /\ ExpiryWindow \in Nat
  BY <1>3, <1>4, CodesType
<1>6. PICK extended : extended = Append(old, now)
  OBVIOUS
<1>7. /\ DOMAIN old = 1..Len(old) /\ Len(old) \in Nat
      /\ DOMAIN extended = 1..(Len(old) + 1) /\ extended[Len(old) + 1] = now
      /\ \A i \in DOMAIN old : extended[i] = old[i]
  BY <1>5, <1>6
<1>8. Ordered(old) /\ Ordered(extended)
  <2>1. Ordered(old)
    BY <1>3, <1>4 DEF OtpInv
  <2> QED
    BY <1>5, <1>7, <2>1 DEF Ordered
<1>9. ASSUME NEW i \in DOMAIN extended, NEW j \in DOMAIN extended, i < j
      PROVE  \/ extended[j] >= extended[i] + RequestWindow
             \/ extended[j] >= extended[i] + ExpiryWindow
  <2>1. CASE j \in DOMAIN old
    <3>1. i \in DOMAIN old
      BY <1>7, <1>9, <2>1
    <3> QED
      BY <1>3, <1>4, <1>7, <1>9, <2>1, <3>1 DEF OtpInv, OtpWithinRate
  <2>2. CASE j = Len(old) + 1
    <3>1. i \in DOMAIN old
      BY <1>7, <1>9, <2>2
    <3> QED
      BY <1>1, <1>3, <1>7, <2>2, <3>1 DEF LateEnough
  <2> QED
    BY <1>7, <2>1, <2>2
<1>10. \A q \in Phone : codes'[q] = IF q = phone THEN extended ELSE codes[q]
  BY <1>2, <1>3, <1>4, <1>6 DEF Typed, RowsTyped
<1>11. OtpWithinRate' /\ \A q \in Phone : Ordered(codes[q])'
  BY <1>8, <1>9, <1>10 DEF OtpInv, OtpWithinRate, Ordered
<1>12. ASSUME NEW u \in Thread PROVE thread'[u] = Idle
  <2>1. thread[t] # Idle
    BY <1>1 DEF Idle
  <2>2. u # t => thread[u] = Idle
    BY <1>1, <2>1 DEF Exclusive
  <2> QED
    BY <1>2, <2>2 DEF Typed
<1> QED
  BY <1>11, <1>12 DEF OtpInv, Idle

\* ReadCode: the newest valid code is the last one, so none is nearer than it.
LEMMA ReadCodes ==
  ASSUME Typed, Typed', OtpInv, NEW t \in Thread, ReadCode(t)
  PROVE  OtpInv'
<1> DEFINE p == thread[t]
           phone == p.record.name
           c == ValidCode(phone)
<1>1. /\ p \in Call /\ p.pc = "readCode" /\ phone \in Phone
      /\ p.call \in {"requestOtp", "resetByOtp"} /\ UNCHANGED <<codes, now>>
  BY DEF ReadCode, Mine, OtpInv, Typed, Fit, rows
<1>2. \/ Goto(t, "compare") \/ Finish(t)
      \/ /\ Goto(t, "insertCode") /\ p.call = "requestOtp"
         /\ c # 0 => IsWithinRateLimit(codes[phone][c])
  BY <1>1 DEF ReadCode
<1>3. ASSUME NEW pc, Goto(t, pc)
      PROVE  /\ thread'[t] = [p EXCEPT !.pc = pc] /\ thread'[t].pc = pc
             /\ thread'[t].call = p.call /\ thread'[t].record = p.record
             /\ \A u \in Thread : u # t => thread'[u] = thread[u]
  <2>1. thread'[t] = [p EXCEPT !.pc = pc] /\ \A u \in Thread : u # t => thread'[u] = thread[u]
    BY <1>3 DEF Goto, Become, Typed
  <2> QED
    BY <1>1, <2>1 DEF Call
<1>4. CASE Goto(t, "compare") \/ Finish(t)
  <2>1. /\ thread'[t].pc \notin {"readCode", "insertCode"}
        /\ \A u \in Thread : u # t => thread'[u] = thread[u]
    BY <1>3, <1>4 DEF Finish, Become, Idle, Typed
  <2> QED
    BY <1>1, <2>1, QuietCodes DEF Typed, RowsTyped
<1>5. ASSUME Goto(t, "insertCode"), p.call = "requestOtp",
             c # 0 => IsWithinRateLimit(codes[phone][c])
      PROVE  OtpInv'
  <2>1. PICK made : made = codes[phone]
    OBVIOUS
  <2>2. /\ made \in Seq(Nat) /\ \A i \in DOMAIN made : made[i] \in Nat
        /\ DOMAIN made = 1..Len(made) /\ Len(made) \in Nat
        /\ now \in Nat /\ RequestWindow \in Nat /\ ExpiryWindow \in Nat
    BY <1>1, <2>1, CodesType
  <2>3. LateEnough(made)
    <3>1. SUFFICES ASSUME NEW i \in DOMAIN made, ~(now >= made[i] + ExpiryWindow)
                   PROVE  now >= made[i] + RequestWindow
      BY DEF LateEnough
    <3>2. i \in Valid(phone) /\ Valid(phone) \subseteq 1..Len(made)
      BY <2>1, <2>2, <3>1 DEF Valid
    <3>3. c \in Valid(phone) /\ i <= c
      BY <2>2, <3>2, NewestIsLast DEF ValidCode
    <3>4. c # 0 /\ c \in DOMAIN made /\ made[i] <= made[c]
      <4>1. Ordered(made)
        BY <1>1, <2>1 DEF OtpInv
      <4>2. i \in DOMAIN made /\ c \in DOMAIN made /\ c # 0 /\ (i = c \/ i < c)
        BY <2>2, <3>2, <3>3
      <4> QED
        BY <2>2, <4>1, <4>2 DEF Ordered
    <3>5. now >= made[c] + RequestWindow
      BY <1>5, <2>1, <3>4 DEF IsWithinRateLimit
    <3> QED
      BY <2>2, <3>1, <3>4, <3>5
  <2>4. LateEnough(made)'
    BY <1>1, <2>3 DEF LateEnough
  <2>5. OtpWithinRate' /\ \A q \in Phone : Ordered(codes[q])'
    BY <1>1 DEF OtpInv, OtpWithinRate, Ordered
  <2>6. ASSUME NEW u \in Thread, u # t
        PROVE  LateEnough(codes[thread[u].record.name])' <=> LateEnough(codes[thread[u].record.name])
    BY <1>1, <1>3, <1>5, <2>6 DEF LateEnough
  <2>7. thread'[t].pc = "insertCode" /\ thread'[t].call = "requestOtp"
        /\ LateEnough(codes[thread[t].record.name])'
    BY <1>1, <1>3, <1>5, <2>1, <2>4 DEF LateEnough
  <2> QED
    BY <1>3, <1>5, <2>5, <2>6, <2>7 DEF OtpInv
<1> QED
  BY <1>2, <1>4, <1>5

\* Every step keeps the codes in order and the request in progress late enough.
LEMMA OtpStep ==
  ASSUME "requestOtp" \notin Overlapping
  PROVE  Typed /\ Typed' /\ Exclusive /\ OtpInv /\ [Next]_vars => OtpInv'
<1> SUFFICES ASSUME Typed, Typed', Exclusive, OtpInv, [Next]_vars PROVE OtpInv'
  OBVIOUS
<1>1. now \in Nat
  BY DEF Typed, RowsTyped
<1>2. CASE UNCHANGED thread /\ UNCHANGED codes /\ now <= now'
  BY <1>2, QuietCodes
<1>3. CASE UNCHANGED vars \/ Tick \/ \E a \in Account, duty \in BOOLEAN : Duty(a, duty)
  BY <1>1, <1>2, <1>3 DEF vars, rows, Tick, Duty
<1>4. CASE Crash
  <2>1. \A t \in Thread : thread'[t].pc = "idle"
    BY <1>4 DEF Crash, Idle
  <2> QED
    BY <1>1, <1>4, <2>1, QuietCodes DEF Crash, rows
<1>5. ASSUME NEW t \in Thread, NotOfCodes(t)
      PROVE  OtpInv'
  BY <1>1, <1>5, NotOfCodesStep, QuietCodes
<1>6. ASSUME NEW t \in Thread, NEW call \in {"requestOtp", "resetByOtp"}, NEW p,
             {"pc", "call"} \subseteq DOMAIN p, p.pc = "readCode", Start(t, call, p),
             UNCHANGED <<codes, now>>
      PROVE  OtpInv'
  <2>1. [p EXCEPT !.call = call].pc = "readCode" /\ [p EXCEPT !.call = call].call = call
    BY <1>6
  <2>2. \A u \in Thread : thread'[u] = IF u = t THEN [p EXCEPT !.call = call] ELSE thread[u]
    BY <1>6 DEF Start, Become, Typed
  <2> QED
    BY <1>1, <1>6, <2>1, <2>2, QuietCodes
<1>7. ASSUME NEW t \in Thread, NEW phone \in Phone, RequestOtpToken(t, phone)
      PROVE  OtpInv'
  BY <1>6, <1>7 DEF RequestOtpToken, Idle, rows
<1>8. ASSUME NEW t \in Thread, NEW phone \in Phone, NEW code, ResetPasswordByOtpToken(t, phone, code)
      PROVE  OtpInv'
  BY <1>6, <1>8 DEF ResetPasswordByOtpToken, Idle, rows
<1>9. ASSUME NEW t \in Thread, Authenticate(t)
      PROVE  OtpInv'
  BY <1>5, <1>7, <1>8, <1>9, ReadCodes, AppendedCodes DEF Authenticate, NotOfCodes
<1> QED
  BY <1>3, <1>4, <1>5, <1>9 DEF Next, NotOfCodes

\* There are no codes and no calls to begin with.
LEMMA OtpInit == Init => Exclusive /\ OtpInv
BY DEF Init, Exclusive, OtpInv, OtpWithinRate, Ordered, Idle

\* Two codes for one phone number are a request window apart, or the first had
\* expired: for all windows and any number of phones and calls, as long as
\* requests for codes do not overlap.
THEOREM RateIsKept ==
  ASSUME "requestOtp" \notin Overlapping
  PROVE  Spec => []OtpWithinRate
<1>1. Init => Exclusive /\ OtpInv
  BY OtpInit
<1>2. Typed /\ Typed' /\ Exclusive /\ OtpInv /\ [Next]_vars => Exclusive' /\ OtpInv'
  BY OtpStep, ExclusiveStep
<1>3. OtpInv => OtpWithinRate
  BY DEF OtpInv
<1> QED
  BY <1>1, <1>2, <1>3, Typing, PTL DEF Spec

------------------------------------------------------------------------------
(* Secrets *)

\* The calls that save a login they read whole, with the secrets as they were.
SaveWhole == {"replace", "delete", "logout", "forgetPassword"}

\* The entity has no secret but those the call brings, or clears, ...
Brought(p) == /\ "password" \in DOMAIN p.login => p.login.password = p.new
              /\ "resetToken" \in DOMAIN p.login => p.login.resetToken = 0

\* ... or it has those of the row as well.
AsInRow(p) ==
  /\ "password" \in DOMAIN p.login => p.login.password \in {p.new, logins[p.id].password}
  /\ "resetToken" \in DOMAIN p.login => p.login.resetToken \in {0, p.code, logins[p.id].resetToken}

\* A call between reading its login and comparing it; a call that is to update.
Secret(p) ==
  /\ p.pc \in {"readCode", "findAdmin", "compare"} =>
       Brought(p) \/ (p.call \in SaveWhole /\ AsInRow(p))
  /\ p.pc = "update" => /\ "password" \in p.changed => p.login.password = p.new
                        /\ "resetToken" \in p.changed => p.login.resetToken \in {0, p.code}
  /\ p.pc = "updateLogin" => p.call = "replace"
  /\ p.pc \in {"softDelete", "deleteLogin"} => p.call = "delete"

SecretInv == \A t \in Thread : Secret(thread[t])

\* What a call brought or read stays so while its login does.
LEMMA SecretStays ==
  ASSUME NEW p, Secret(p), Brought(p) \/ p.pc \notin {"readCode", "findAdmin", "compare"} \/ UNCHANGED logins
  PROVE  Secret(p)'
BY DEF Secret, Brought, AsInRow

\* A step that writes no login, and moves one call to another that keeps its secrets.
LEMMA QuietSecrets ==
  ASSUME Typed, SecretInv, UNCHANGED logins, NEW t \in Thread, NEW q, Secret(q), Become(t, q)
  PROVE  SecretInv'
<1>1. ASSUME NEW u \in Thread PROVE Secret(thread[u])'
  <2>1. PICK p : p = thread'[u]
    OBVIOUS
  <2>2. p = q \/ p = thread[u]
    BY <2>1 DEF Become, Typed
  <2>3. Secret(p)
    BY <2>2 DEF SecretInv
  <2>4. Secret(p)'
    BY <2>3, SecretStays
  <2> QED
    BY <2>1, <2>4 DEF Secret, Brought, AsInRow
<1> QED
  BY <1>1 DEF SecretInv

\* A thread with nothing to do has no secrets.
LEMMA IdleSecret == Secret(Idle)
BY DEF Secret, Idle

\* Update: the login is written, and a call that read it before runs alone.
LEMMA SavedSecrets ==
  ASSUME Typed, Exclusive, SecretInv, Overlapping \cap SaveWhole = {},
         NEW t \in Thread, Update(t) \/ CreateUserLogin(t)
  PROVE  SecretInv'
<1>1. PICK p \in Call : p = thread[t]
  BY DEF Typed
<1>2. p # Idle /\ p.pc \in {"update", "insertLogin"}
  BY <1>1 DEF Update, CreateUserLogin, Mine, Idle
<1>3. PICK q : Become(t, q) /\ q.pc \in {"idle", "offDuty"}
  <2>1. Become(t, Idle) \/ Become(t, [p EXCEPT !.pc = "offDuty"])
    BY <1>1 DEF Update, CreateUserLogin, Finish, Goto
  <2>2. Idle.pc = "idle" /\ [p EXCEPT !.pc = "offDuty"].pc = "offDuty"
    BY DEF Idle, Call
  <2> QED
    BY <2>1, <2>2
<1>4. ASSUME NEW u \in Thread PROVE Secret(thread[u])'
  <2>1. PICK r : r = thread'[u]
    OBVIOUS
  <2>2. CASE u = t
    <3>1. r = q
      BY <1>3, <2>1, <2>2 DEF Become, Typed
    <3> QED
      BY <1>3, <2>1, <3>1 DEF Secret
  <2>3. CASE u # t
    <3>1. r = thread[u]
      BY <1>3, <2>1, <2>3 DEF Become, Typed
    <3>2. r = Idle \/ r.call \in Overlapping
      BY <1>1, <1>2, <2>3, <3>1 DEF Exclusive
    <3>3. r.pc \notin {"readCode", "findAdmin", "compare"} \/ Brought(r)
      BY <3>1, <3>2 DEF SecretInv, Secret, Idle
    <3>4. Secret(r)'
      BY <3>1, <3>3, SecretStays DEF SecretInv
    <3> QED
      BY <2>1, <3>4 DEF Secret, Brought, AsInRow
  <2> QED
    BY <2>2, <2>3
<1> QED
  BY <1>4 DEF SecretInv

\* Compare: what differs is what the call brought.
LEMMA ComparedSecrets ==
  ASSUME Typed, SecretInv, NEW t \in Thread, Compare(t)
  PROVE  SecretInv'
<1>1. PICK p \in Call : p = thread[t] /\ p.pc = "compare" /\ Secret(p)
  BY DEF Typed, Compare, Mine, SecretInv
<1>2. PICK q : q = [p EXCEPT !.pc = "update", !.changed = Differing(p.id, p.login)]
  OBVIOUS
<1>3. /\ Become(t, q) /\ UNCHANGED logins
      /\ q.pc = "update" /\ q.changed = Differing(p.id, p.login)
      /\ q.login = p.login /\ q.new = p.new /\ q.code = p.code
  BY <1>1, <1>2 DEF Compare, rows, Call
<1>4. /\ "password" \in q.changed =>
           "password" \in DOMAIN p.login /\ p.login.password # logins[p.id].password
      /\ "resetToken" \in q.changed =>
           "resetToken" \in DOMAIN p.login /\ p.login.resetToken # logins[p.id].resetToken
  BY <1>3 DEF Differing
<1>5. Secret(q)
  BY <1>1, <1>3, <1>4 DEF Secret, Brought, AsInRow
<1> QED
  BY <1>3, <1>5, QuietSecrets

\* The steps between the beginning of a call and its save().
LEMMA ContinuedSecrets ==
  ASSUME Typed, SecretInv, NEW t \in Thread,
         \/ SaveRecord(t) \/ SaveDealer(t) \/ SoftDelete(t)
         \/ UpdateUserLogin(t) \/ DeleteUserLogin(t)
         \/ ReadCode(t) \/ InsertCode(t) \/ FindAdmin(t) \/ LogoutOffDuty(t)
  PROVE  SecretInv'
<1>1. PICK p \in Call : p = thread[t] /\ Secret(p) /\ Fit(p)
  BY DEF Typed, SecretInv
<1>2. UNCHANGED logins
  BY DEF SaveRecord, SaveDealer, SoftDelete, UpdateUserLogin, DeleteUserLogin, ReadCode,
         InsertCode, FindAdmin, LogoutOffDuty, rows
<1>3. ASSUME Finish(t) PROVE SecretInv'
  BY <1>2, <1>3, IdleSecret, QuietSecrets DEF Finish
<1>4. ASSUME NEW pc \in PC, Goto(t, pc), Secret([p EXCEPT !.pc = pc])
      PROVE  SecretInv'
  BY <1>1, <1>2, <1>4, QuietSecrets DEF Goto
<1>5. CASE SaveRecord(t)
  <2>1. PICK pc \in {"updateLogin", "saveDealer", "insertLogin"} :
          Goto(t, pc) /\ (pc = "updateLogin" => p.call = "replace")
    BY <1>1, <1>5 DEF SaveRecord
  <2>2. Secret([p EXCEPT !.pc = pc])
    BY <2>1, Moved DEF PC, Secret
  <2> QED
    BY <1>4, <2>1, <2>2 DEF PC
<1>6. CASE SaveDealer(t)
  <2>1. Secret([p EXCEPT !.pc = "insertLogin"])
    BY Moved DEF PC, Secret
  <2> QED
    BY <1>4, <1>6, <2>1 DEF PC, SaveDealer
<1>7. CASE SoftDelete(t)
  <2>1. Secret([p EXCEPT !.pc = "deleteLogin"])
    BY <1>1, <1>7, Moved DEF PC, Secret, SoftDelete, Mine
  <2> QED
    BY <1>4, <1>7, <2>1 DEF PC, SoftDelete
<1>8. CASE ReadCode(t)
  <2>1. p.pc = "readCode"
    BY <1>1, <1>8 DEF ReadCode, Mine
  <2>2. Secret([p EXCEPT !.pc = "compare"]) /\ Secret([p EXCEPT !.pc = "insertCode"])
    BY <1>1, <2>1, Moved DEF PC, Secret, Brought, AsInRow
  <2>3. Goto(t, "compare") \/ Goto(t, "insertCode") \/ Finish(t)
    BY <1>8 DEF ReadCode
  <2> QED
    BY <1>3, <1>4, <2>2, <2>3 DEF PC
<1>9. CASE FindAdmin(t)
  <2>1. p.pc = "findAdmin"
    BY <1>1, <1>9 DEF FindAdmin, Mine
  <2>2. Secret([p EXCEPT !.pc = "compare"])
    BY <1>1, <2>1, Moved DEF PC, Secret, Brought, AsInRow
  <2> QED
    BY <1>3, <1>4, <1>9, <2>2 DEF PC, FindAdmin
<1>10. CASE UpdateUserLogin(t) \/ DeleteUserLogin(t)
  <2>1. p.pc \in {"updateLogin", "deleteLogin"} /\ p.id \in Account /\ p.call \in SaveWhole
    BY <1>1, <1>10 DEF UpdateUserLogin, DeleteUserLogin, Mine, Fit, Located, Secret, SaveWhole
  <2>2. CASE ~Live(p.id)
    BY <1>1, <1>3, <1>10, <2>2 DEF UpdateUserLogin, DeleteUserLogin
  <2>3. CASE Live(p.id)
    <3>1. PICK l \in LoginRow : l = logins[p.id] /\ Without(p.id, {}) = l
      BY <2>1, <2>3, LiveLogin
    <3> DEFINE password == IF p.new = 0 THEN l.password ELSE p.new
    <3>2. PICK e : /\ Become(t, [p EXCEPT !.pc = "compare", !.login = e])
                   /\ \/ e = [l EXCEPT !.row = "deleted", !.deletionToken = p.id]
                      \/ e = [l EXCEPT !.password = password,
                                       !.username = p.record.name, !.group = p.record.kind]
      BY <1>1, <1>10, <2>3, <3>1 DEF UpdateUserLogin, DeleteUserLogin
    <3>3. e.password \in {l.password, p.new} /\ e.resetToken = l.resetToken
      <4>1. password \in {l.password, p.new}
        OBVIOUS
      <4> HIDE DEF password
      <4> QED
        BY <3>2, <4>1 DEF LoginRow
    <3>4. PICK q : q = [p EXCEPT !.pc = "compare", !.login = e]
      OBVIOUS
    <3>5. /\ q.pc = "compare" /\ q.call = p.call /\ q.login = e /\ q.id = p.id
          /\ q.new = p.new /\ q.code = p.code
      BY <3>4 DEF Call
    <3>6. AsInRow(q)
      BY <3>1, <3>3, <3>5 DEF AsInRow
    <3>7. Secret(q)
      BY <2>1, <3>5, <3>6 DEF Secret
    <3> QED
      BY <1>2, <3>2, <3>4, <3>7, QuietSecrets
  <2> QED
    BY <2>2, <2>3
<1> QED
  BY <1>3, <1>5, <1>6, <1>7, <1>8, <1>9, <1>10 DEF InsertCode, LogoutOffDuty

\* A call begins with secrets that it brings or that it has just read.
LEMMA BegunSecrets ==
  ASSUME Typed, SecretInv, NEW t \in Thread, NEW call, NEW p, Start(t, call, p),
         {"pc", "call", "id", "login", "changed", "new", "code"} \subseteq DOMAIN p,
         p.pc \in {"readCode", "findAdmin", "compare"} => Brought(p) \/ (call \in SaveWhole /\ AsInRow(p)),
         p.pc \notin {"update", "updateLogin", "deleteLogin"},
         p.pc = "softDelete" => call = "delete", UNCHANGED logins
  PROVE  SecretInv'
<1>1. PICK q : q = [p EXCEPT !.call = call]
  OBVIOUS
<1>2. /\ Become(t, q) /\ q.call = call /\ q.pc = p.pc /\ q.id = p.id
      /\ q.login = p.login /\ q.changed = p.changed /\ q.new = p.new /\ q.code = p.code
  BY <1>1 DEF Start
<1>3. Secret(q)
  BY <1>2 DEF Secret, Brought, AsInRow
<1> QED
  BY <1>2, <1>3, QuietSecrets

\* The administrators' calls begin.
LEMMA AccountCallSecrets ==
  ASSUME Typed, SecretInv, NEW t \in Thread, NEW a, NEW kind, NEW name, NEW new,
         \/ CreateOne(t, a, kind, name) \/ ReplaceOne(t, a, kind, name, new)
         \/ SoftDeleteOne(t, a) \/ SoftDeleteDealer(t, a)
  PROVE  SecretInv'
<1>1. UNCHANGED logins
  BY DEF CreateOne, ReplaceOne, SoftDeleteOne, SoftDeleteDealer, rows
<1>2. CASE CreateOne(t, a, kind, name)
  BY <1>1, <1>2, BegunSecrets DEF CreateOne, Idle
<1>3. CASE ReplaceOne(t, a, kind, name, new)
  BY <1>1, <1>3, BegunSecrets DEF ReplaceOne, Idle
<1>4. CASE SoftDeleteOne(t, a) \/ SoftDeleteDealer(t, a)
  BY <1>1, <1>4, BegunSecrets DEF SoftDeleteOne, SoftDeleteDealer, Idle
<1> QED
  BY <1>2, <1>3, <1>4

\* The calls of AuthService begin.
LEMMA LoginCallSecrets ==
  ASSUME Typed, SecretInv, NEW t \in Thread,
         \/ \E name : Login(t, name) \/ ForgetPassword(t, name)
         \/ \E a \in Account : Logout(t, a) \/ ChangePassword(t, a) \/ ResetPasswordByToken(t, a)
         \/ \E phone \in Phone : RequestOtpToken(t, phone)
         \/ \E phone \in Phone : \E code \in DOMAIN codes[phone] : ResetPasswordByOtpToken(t, phone, code)
  PROVE  SecretInv'
<1>1. UNCHANGED logins
  BY DEF Login, ForgetPassword, Logout, ChangePassword, ResetPasswordByToken, RequestOtpToken,
         ResetPasswordByOtpToken, rows
<1>2. ASSUME NEW name, Login(t, name) PROVE SecretInv'
  <2>1. PICK a \in Account :
          Start(t, "login", [Idle EXCEPT !.pc = "compare", !.id = a,
                              !.login = [ReadCredentials(a) EXCEPT !.isLogin = TRUE]])
    BY <1>2 DEF Login
  <2>2. PICK e : e = [ReadCredentials(a) EXCEPT !.isLogin = TRUE]
    OBVIOUS
  <2>3. "password" \notin DOMAIN e /\ "resetToken" \notin DOMAIN e
    BY <2>2 DEF ReadCredentials, Without
  <2>4. PICK p : p = [Idle EXCEPT !.pc = "compare", !.id = a, !.login = e]
    OBVIOUS
  <2>5. p.login = e /\ p.pc = "compare" /\ DOMAIN p = DOMAIN Idle
    BY <2>4 DEF Idle
  <2>6. Start(t, "login", p)
    BY <2>1, <2>2, <2>4
  <2>7. Brought(p)
    BY <2>3, <2>5 DEF Brought
  <2> QED
    BY <1>1, <2>5, <2>6, <2>7, BegunSecrets DEF Idle
<1>3. ASSUME NEW name, ForgetPassword(t, name) PROVE SecretInv'
  <2>1. PICK a \in Account :
          /\ NamedBy(a, name)
          /\ Start(t, "forgetPassword",
                [Idle EXCEPT !.pc = "findAdmin", !.id = a, !.code = tokens + 1,
                             !.login = [Without(a, {}) EXCEPT !.resetToken = tokens + 1]])
    BY <1>3 DEF ForgetPassword
  <2>2. PICK l \in LoginRow : l = logins[a] /\ Without(a, {}) = l
    BY <2>1, LiveLogin DEF NamedBy
  <2>3. PICK code : code = tokens + 1
    OBVIOUS
  <2>4. PICK e : e = [l EXCEPT !.resetToken = code]
    OBVIOUS
  <2>5. e.password = l.password /\ e.resetToken = code
    BY <2>4 DEF LoginRow
  <2>6. PICK p : p = [Idle EXCEPT !.pc = "findAdmin", !.id = a, !.code = code, !.login = e]
    OBVIOUS
  <2>7. p.login = e /\ p.code = code /\ p.id = a /\ p.pc = "findAdmin" /\ DOMAIN p = DOMAIN Idle
    BY <2>6 DEF Idle
  <2>8. Start(t, "forgetPassword", p)
    BY <2>1, <2>2, <2>3, <2>4, <2>6
  <2>9. AsInRow(p)
    BY <2>2, <2>5, <2>7 DEF AsInRow
  <2> QED
    BY <1>1, <2>7, <2>8, <2>9, BegunSecrets DEF Idle, SaveWhole
<1>4. ASSUME NEW a \in Account, Logout(t, a) PROVE SecretInv'
  <2>1. PICK l \in LoginRow : l = logins[a] /\ Without(a, {}) = l
    BY <1>4, LiveLogin DEF Logout
  <2>2. PICK e : e = [l EXCEPT !.isLogin = FALSE]
    OBVIOUS
  <2>3. e.password = l.password /\ e.resetToken = l.resetToken
    BY <2>2 DEF LoginRow
  <2>4. PICK p : p = [Idle EXCEPT !.pc = "compare", !.id = a, !.login = e]
    OBVIOUS
  <2>5. p.login = e /\ p.id = a /\ p.pc = "compare" /\ DOMAIN p = DOMAIN Idle
    BY <2>4 DEF Idle
  <2>6. Start(t, "logout", p)
    BY <1>4, <2>1, <2>2, <2>4 DEF Logout
  <2>7. AsInRow(p)
    BY <2>1, <2>3, <2>5 DEF AsInRow
  <2> QED
    BY <1>1, <2>5, <2>6, <2>7, BegunSecrets DEF Idle, SaveWhole
<1>5. ASSUME NEW a \in Account, ChangePassword(t, a) PROVE SecretInv'
  <2>1. PICK new : new = passwords + 1
    OBVIOUS
  <2>2. PICK e : e = [c \in {"password"} |-> new]
    OBVIOUS
  <2>3. PICK p : p = [Idle EXCEPT !.pc = "compare", !.id = a, !.new = new, !.login = e]
    OBVIOUS
  <2>4. p.login = e /\ p.new = new /\ p.pc = "compare" /\ DOMAIN p = DOMAIN Idle
    BY <2>3 DEF Idle
  <2>5. Start(t, "changePassword", p)
    BY <1>5, <2>1, <2>2, <2>3 DEF ChangePassword
  <2>6. Brought(p)
    BY <2>2, <2>4 DEF Brought
  <2> QED
    BY <1>1, <2>4, <2>5, <2>6, BegunSecrets DEF Idle
<1>6. ASSUME NEW a \in Account, NEW new, Live(a) PROVE Reset(a, new).password = new /\ Reset(a, new).resetToken = 0
  BY <1>6, LiveLogin DEF Reset, LoginRow
<1>7. ASSUME NEW a \in Account, ResetPasswordByToken(t, a) PROVE SecretInv'
  <2>1. PICK new : new = passwords + 1
    OBVIOUS
  <2>2. PICK e : e = Reset(a, new) /\ e.password = new /\ e.resetToken = 0
    BY <1>6, <1>7 DEF ResetPasswordByToken
  <2>3. PICK p : p = [Idle EXCEPT !.pc = "compare", !.id = a, !.new = new, !.login = e]
    OBVIOUS
  <2>4. p.login = e /\ p.new = new /\ p.pc = "compare" /\ DOMAIN p = DOMAIN Idle
    BY <2>3 DEF Idle
  <2>5. Start(t, "resetPassword", p)
    BY <1>7, <2>1, <2>2, <2>3 DEF ResetPasswordByToken
  <2>6. Brought(p)
    BY <2>2, <2>4 DEF Brought
  <2> QED
    BY <1>1, <2>4, <2>5, <2>6, BegunSecrets DEF Idle
<1>8. ASSUME NEW phone \in Phone, RequestOtpToken(t, phone) PROVE SecretInv'
  <2>1. PICK p : p = [Idle EXCEPT !.pc = "readCode", !.record.name = phone]
    OBVIOUS
  <2>2. p.login = <<>> /\ p.pc = "readCode" /\ DOMAIN p = DOMAIN Idle
    BY <2>1 DEF Idle
  <2>3. Start(t, "requestOtp", p)
    BY <1>8, <2>1 DEF RequestOtpToken
  <2>4. Brought(p)
    BY <2>2 DEF Brought
  <2> QED
    BY <1>1, <2>2, <2>3, <2>4, BegunSecrets DEF Idle
<1>9. ASSUME NEW phone, NEW code, ResetPasswordByOtpToken(t, phone, code) PROVE SecretInv'
  <2>1. PICK new : new = passwords + 1
    OBVIOUS
  <2>2. PICK a \in Account :
          /\ Live(a)
          /\ Start(t, "resetByOtp",
                [Idle EXCEPT !.pc = "readCode", !.id = a, !.code = code, !.new = passwords + 1,
                             !.record.name = phone, !.login = Reset(a, passwords + 1)])
    BY <1>9 DEF ResetPasswordByOtpToken, NamedBy
  <2>3. PICK e : e = Reset(a, new) /\ e.password = new /\ e.resetToken = 0
    BY <1>6, <2>2
  <2>4. PICK p : p = [Idle EXCEPT !.pc = "readCode", !.id = a, !.code = code, !.new = new,
                                  !.record.name = phone, !.login = e]
    OBVIOUS
  <2>5. p.login = e /\ p.new = new /\ p.pc = "readCode" /\ DOMAIN p = DOMAIN Idle
    BY <2>4 DEF Idle
  <2>6. Start(t, "resetByOtp", p)
    BY <2>1, <2>2, <2>3, <2>4
  <2>7. Brought(p)
    BY <2>3, <2>5 DEF Brought
  <2> QED
    BY <1>1, <2>5, <2>6, <2>7, BegunSecrets DEF Idle
<1> QED
  BY <1>2, <1>3, <1>4, <1>5, <1>7, <1>8, <1>9

\* Every step keeps each call's secrets its own or those of its row.
LEMMA SecretStep ==
  ASSUME Overlapping \cap SaveWhole = {}
  PROVE  Typed /\ Exclusive /\ SecretInv /\ [Next]_vars => SecretInv'
<1> SUFFICES ASSUME Typed, Exclusive, SecretInv, [Next]_vars PROVE SecretInv'
  OBVIOUS
<1>1. CASE UNCHANGED <<logins, thread>>
  BY <1>1 DEF SecretInv, Secret, Brought, AsInRow
<1>2. CASE Crash
  <2>1. \A u \in Thread : thread'[u].pc = "idle"
    BY <1>2 DEF Crash, Idle
  <2> QED
    BY <2>1 DEF SecretInv, Secret
<1>3. ASSUME NEW t \in Thread, Administer(t) PROVE SecretInv'
  BY <1>3, SavedSecrets, ContinuedSecrets, AccountCallSecrets DEF Administer, ServiceProviders,
     Dealers, AdminUsers, OneOf, LoginCommands
<1>4. ASSUME NEW t \in Thread, Authenticate(t) PROVE SecretInv'
  BY <1>4, ContinuedSecrets, LoginCallSecrets DEF Authenticate
<1>5. ASSUME \/ Tick \/ UNCHANGED vars \/ \E a \in Account, duty \in BOOLEAN : Duty(a, duty)
      PROVE  UNCHANGED <<logins, thread>>
  BY <1>5 DEF Tick, Duty, rows, vars
<1> QED
  BY <1>1, <1>2, <1>3, <1>4, <1>5, SavedSecrets, ComparedSecrets DEF Next

\* Only these two steps write a login.
LEMMA LoginsWritten ==
  ASSUME [Next]_vars
  PROVE  UNCHANGED logins \/ \E t \in Thread : Update(t) \/ CreateUserLogin(t)
<1>1. ASSUME NEW t \in Thread, Administer(t), ~CreateUserLogin(t)
      PROVE  UNCHANGED logins
  <2>1. ASSUME NEW a, NEW kind, NEW name, NEW new,
               CreateOne(t, a, kind, name) \/ ReplaceOne(t, a, kind, name, new)
        PROVE  UNCHANGED logins
    BY <2>1 DEF CreateOne, ReplaceOne, rows
  <2>2. ASSUME NEW a, SoftDeleteOne(t, a) \/ SoftDeleteDealer(t, a)
        PROVE  UNCHANGED logins
    BY <2>2 DEF SoftDeleteOne, SoftDeleteDealer, rows
  <2>3. SaveRecord(t) \/ SaveDealer(t) \/ SoftDelete(t) \/ UpdateUserLogin(t) \/ DeleteUserLogin(t)
        => UNCHANGED logins
    BY DEF SaveRecord, SaveDealer, SoftDelete, UpdateUserLogin, DeleteUserLogin, rows
  <2> QED
    BY <1>1, <2>1, <2>2, <2>3 DEF Administer, ServiceProviders, Dealers, AdminUsers, OneOf,
       LoginCommands
<1>2. ASSUME NEW t \in Thread, Authenticate(t)
      PROVE  UNCHANGED logins
  BY <1>2 DEF Authenticate, Login, ForgetPassword, Logout, ChangePassword, ResetPasswordByToken,
     RequestOtpToken, ResetPasswordByOtpToken, ReadCode, InsertCode, FindAdmin, LogoutOffDuty, rows
<1>3. \/ Tick \/ Crash \/ UNCHANGED vars \/ (\E t \in Thread : Compare(t))
      \/ (\E a \in Account, duty \in BOOLEAN : Duty(a, duty))
      => UNCHANGED logins
  BY DEF Tick, Crash, Compare, Duty, vars, rows
<1> QED
  BY <1>1, <1>2, <1>3 DEF Next

\* What these two write into a login was brought by their call.
LEMMA WrittenSecrets ==
  ASSUME Typed, SecretInv, NEW t \in Thread, Update(t) \/ CreateUserLogin(t), NEW a \in Account
  PROVE  /\ logins'[a].password # logins[a].password => thread[t].new = logins'[a].password
         /\ logins'[a].resetToken \notin {0, logins[a].resetToken} =>
              thread[t].code = logins'[a].resetToken
<1>1. PICK p \in Call : p = thread[t] /\ Secret(p) /\ Fit(p)
  BY DEF Typed, SecretInv
<1>2. p.id \in Account /\ logins \in [Account -> LoginRow]
  BY <1>1 DEF Fit, Located, Update, CreateUserLogin, Mine, Typed, RowsTyped
<1>3. CASE Update(t)
  <2>1. p.pc = "update"
    BY <1>1, <1>3 DEF Update, Mine
  <2>2. PICK l : l = UpdatedLogin(p.id, p)
    OBVIOUS
  <2>3. /\ l.password = IF "password" \in p.changed THEN p.login.password ELSE logins[p.id].password
        /\ l.resetToken = IF "resetToken" \in p.changed THEN p.login.resetToken ELSE logins[p.id].resetToken
    BY <2>2 DEF UpdatedLogin, Column
  <2>4. logins' = logins \/ logins' = [logins EXCEPT ![p.id] = l]
    BY <1>1, <1>3, <2>2 DEF Update
  <2> QED
    BY <1>1, <1>2, <2>1, <2>3, <2>4 DEF Secret
<1>4. CASE CreateUserLogin(t)
  <2>1. PICK l : l = [NoLogin EXCEPT !.row = "live", !.group = p.record.kind,
                                     !.username = p.record.name, !.password = p.new]
    OBVIOUS
  <2>2. l.password = p.new /\ l.resetToken = 0
    BY <2>1 DEF NoLogin
  <2>3. logins' = logins \/ logins' = [logins EXCEPT ![p.id] = l]
    BY <1>1, <1>4, <2>1 DEF CreateUserLogin
  <2> QED
    BY <1>1, <1>2, <2>2, <2>3
<1> QED
  BY <1>3, <1>4

\* A password that was replaced does not come back, nor does a reset token: no call
\* writes a secret it did not bring, for any number of accounts and calls, as long as
\* the calls that save a whole login with the secrets they read do not overlap others.
THEOREM SecretsStayReplaced ==
  ASSUME Overlapping \cap SaveWhole = {}
  PROVE  Spec => SecretsDoNotReturn
<1>1. Init => Exclusive /\ SecretInv
  BY OtpInit DEF Init, SecretInv, Secret, Idle
<1>2. Typed /\ Typed' /\ Exclusive /\ SecretInv /\ [Next]_vars => Exclusive' /\ SecretInv'
  BY ExclusiveStep, SecretStep
<1>3. Typed /\ SecretInv /\ [Next]_vars =>
        [\A a \in Account :
           /\ logins'[a].password # logins[a].password =>
                \E t \in Thread : thread[t].new = logins'[a].password
           /\ logins'[a].resetToken \notin {0, logins[a].resetToken} =>
                \E t \in Thread : thread[t].code = logins'[a].resetToken]_vars
  BY LoginsWritten, WrittenSecrets
<1> QED
  BY <1>1, <1>2, <1>3, Typing, PTL DEF Spec, SecretsDoNotReturn

------------------------------------------------------------------------------
(* The two tables *)

Writers == {"create", "replace", "delete"}

Identity == {"row", "group", "username", "deletionToken"}

Following(a) ==
  /\ logins[a].row = accounts[a].row
  /\ Live(a) => /\ logins[a].username = accounts[a].name
                /\ logins[a].group = accounts[a].kind

\* What a name stands for: a deleted login has given its name free, an administrator's
\* is among the administrators', and a dealer has a live profile.
Links ==
  /\ \A a \in Account : /\ logins[a].row = "live" => logins[a].deletionToken = Unlinked
                        /\ logins[a].row = "deleted" => logins[a].deletionToken = a
  /\ \A a \in Account : accounts[a].kind = "ADMIN" /\ logins[a].row # "none" => logins[a].group = "ADMIN"
  /\ \A a \in Account : dealers[a] = "live" => accounts[a].row = "live" /\ accounts[a].kind = "DEALER"

Free(p) == \A b \in Account \ {p.id} : accounts[b].row = "live" => accounts[b].name # p.record.name

Recorded(p) == /\ accounts[p.id].row = "live"
               /\ accounts[p.id].kind = p.record.kind /\ accounts[p.id].name = p.record.name

Creating(p) ==
  /\ p.pc \in {"saveRecord", "saveDealer", "insertLogin"}
  /\ p.record.row = "live" /\ Free(p)
  /\ logins[p.id].row = "none"
  /\ IF p.pc = "saveRecord" THEN accounts[p.id].row = "none" ELSE Recorded(p)
  /\ p.pc = "saveDealer" => p.record.kind = "DEALER"

Replacing(p) ==
  /\ p.pc \in {"saveRecord", "updateLogin", "compare", "update"}
  /\ p.record.row = "live" /\ Free(p)
  /\ p.record.kind = "ADMIN" <=> accounts[p.id].kind = "ADMIN"
  /\ p.record.kind # "ADMIN" => logins[p.id].row = "live"
  /\ dealers[p.id] = "live" => p.record.kind = "DEALER"
  /\ IF p.pc = "saveRecord" THEN accounts[p.id].row = "live" ELSE Recorded(p)
  /\ p.pc \in {"compare", "update"} =>
       /\ logins[p.id].row = "live"
       /\ p.login \in LoginRow /\ p.login.row = "live" /\ p.login.deletionToken = Unlinked
       /\ p.login.username = p.record.name /\ p.login.group = p.record.kind
  /\ p.pc = "update" => p.changed = Differing(p.id, p.login)

Deleting(p) ==
  /\ p.pc \in {"softDelete", "deleteLogin", "compare", "update"}
  /\ accounts[p.id].kind # "ADMIN" /\ logins[p.id].row = "live" /\ dealers[p.id] # "live"
  /\ accounts[p.id].row = IF p.pc = "softDelete" THEN "live" ELSE "deleted"
  /\ p.pc \in {"compare", "update"} =>
       p.login \in LoginRow /\ p.login.row = "deleted" /\ p.login.deletionToken = p.id
  /\ p.pc = "update" => p.changed = Differing(p.id, p.login)

\* A call that is none of these: it leaves alone who the login is of.
Bystander(p) ==
  /\ p.pc \in {"idle", "readCode", "insertCode", "findAdmin", "compare", "update", "offDuty"}
  /\ Found(p) /\ p.pc # "update" =>
       \A c \in Identity \cap DOMAIN p.login : p.login[c] = logins[p.id][c]
  /\ p.pc = "update" => p.changed \cap Identity = {}

Stage(p) ==
  /\ p.call = "create" => Creating(p)
  /\ p.call = "replace" => Replacing(p)
  /\ p.call = "delete" => Deleting(p)
  /\ p.call \notin Writers => Bystander(p)

Follows ==
  /\ Links
  /\ \A a \in Account : accounts[a].kind # "ADMIN" =>
       Following(a) \/ \E t \in Thread : thread[t].call \in Writers /\ thread[t].id = a
  /\ \A t \in Thread : Stage(thread[t])

FollowInv == crashes = 0 => Follows

\* A thread with nothing to do is at no stage of a writer.
LEMMA IdleStage == Stage(Idle) /\ Idle.call \notin Writers
BY DEF Stage, Idle, Bystander, Writers, Found

\* A step of a call that is alone: what the others need is vacuous.
LEMMA WriterStep ==
  ASSUME Typed, NEW t \in Thread, \A u \in Thread : u # t => thread[u] = Idle,
         NEW q, Become(t, q), Stage(q)', Links',
         \A a \in Account : accounts'[a].kind # "ADMIN" =>
           Following(a)' \/ (q.call \in Writers /\ q.id = a)
  PROVE  Follows'
<1>1. thread'[t] = q /\ \A u \in Thread : u # t => thread'[u] = Idle
  BY DEF Become, Typed
<1>2. ASSUME NEW u \in Thread PROVE Stage(thread[u])'
  <2>1. PICK r : r = thread'[u]
    OBVIOUS
  <2>2. r = q \/ r = Idle
    BY <1>1, <2>1
  <2>3. Stage(r)'
    BY <2>2 DEF Stage, Idle, Bystander, Writers, Found
  <2> QED
    BY <2>1, <2>3 DEF Stage, Creating, Replacing, Deleting, Bystander, Free, Recorded, Differing
<1> QED
  BY <1>1, <1>2 DEF Follows

\* A step after which accounts and logins are who they were.
SameIdentities ==
  /\ UNCHANGED dealers
  /\ \A a \in Account :
       /\ accounts'[a].row = accounts[a].row /\ accounts'[a].kind = accounts[a].kind
       /\ accounts'[a].name = accounts[a].name
       /\ \A c \in Identity : logins'[a][c] = logins[a][c]

\* Nobody's identity changes and no writer is about: each call stays at its stage.
LEMMA BystanderStep ==
  ASSUME Typed, Typed', Follows, SameIdentities, \A u \in Thread : thread[u].call \notin Writers,
         \A u \in Thread : \/ thread'[u] = thread[u]
                           \/ thread'[u].call \notin Writers /\ Bystander(thread'[u])
  PROVE  Follows'
<1>1. \A a \in Account : /\ logins'[a].row = logins[a].row /\ logins'[a].group = logins[a].group
                         /\ logins'[a].username = logins[a].username
                         /\ logins'[a].deletionToken = logins[a].deletionToken
  BY DEF SameIdentities, Identity
<1>2. Links'
  BY <1>1 DEF Follows, Links, SameIdentities
<1>3. \A a \in Account : accounts'[a].kind # "ADMIN" => Following(a)'
  BY <1>1 DEF Follows, SameIdentities, Following, Live
<1>4. ASSUME NEW u \in Thread PROVE Stage(thread[u])'
  <2>1. PICK r : r = thread'[u]
    OBVIOUS
  <2>2. r.call \notin Writers /\ Bystander(r)
    BY <2>1 DEF Follows, Stage
  <2>3. Found(r) => r.id \in Account
    BY <2>1 DEF Typed, Fit, Found
  <2>4. Bystander(r)'
    BY <2>2, <2>3 DEF Bystander, SameIdentities
  <2>5. Stage(r)'
    BY <2>2, <2>4 DEF Stage, Writers
  <2> QED
    BY <2>1, <2>5 DEF Stage, Creating, Replacing, Deleting, Bystander, Free, Recorded, Differing
<1> QED
  BY <1>2, <1>3, <1>4 DEF Follows

\* A writer may overlap nothing: it is alone.
LEMMA Alone ==
  ASSUME Overlapping \cap Writers = {}, Exclusive, NEW t \in Thread, thread[t].call \in Writers
  PROVE  \A u \in Thread : u # t => thread[u] = Idle
<1>1. thread[t] # Idle
  BY DEF Idle, Writers
<1>2. thread[t].call \notin Overlapping
  OBVIOUS
<1> QED
  BY <1>1, <1>2 DEF Exclusive

\* Where a call that is none is in progress, no writer is.
LEMMA NoWriter ==
  ASSUME Overlapping \cap Writers = {}, Exclusive, NEW t \in Thread, thread[t] # Idle,
         thread[t].call \notin Writers
  PROVE  \A u \in Thread : thread[u].call \notin Writers
<1>1. SUFFICES ASSUME NEW u \in Thread, thread[u].call \in Writers PROVE FALSE
  OBVIOUS
<1>2. t # u /\ thread[t] = Idle
  BY <1>1, Alone
<1> QED
  BY <1>2

\* A call that begins and may not overlap begins when nothing is in progress.
LEMMA BegunAlone ==
  ASSUME Overlapping \cap Writers = {}, NEW t \in Thread, NEW call \in Writers, NEW p, Start(t, call, p)
  PROVE  \A u \in Thread : thread[u] = Idle
<1>1. call \notin Overlapping
  OBVIOUS
<1> QED
  BY <1>1 DEF Start

\* With nothing in progress every provider's login follows him.
LEMMA NobodyAtWork ==
  ASSUME Follows, \A u \in Thread : thread[u] = Idle
  PROVE  \A a \in Account : accounts[a].kind # "ADMIN" => Following(a)
BY DEF Follows, Idle, Writers

\* CreateOne and ReplaceOne begin alone.
LEMMA SaveAccountFollows ==
  ASSUME Overlapping \cap Writers = {}, Typed, Follows,
         NEW t \in Thread, NEW a \in Account, NEW kind \in Kind, NEW name, NEW new,
         CreateOne(t, a, kind, name) \/ ReplaceOne(t, a, kind, name, new)
  PROVE  Follows'
<1>1. UNCHANGED rows /\ ~InUse(name, {a})
  BY DEF CreateOne, ReplaceOne, InUse
<1>2. PICK call, brought :
        /\ Start(t, call, [Idle EXCEPT !.pc = "saveRecord", !.id = a, !.new = brought,
                                       !.record = Record(kind, name)])
        /\ \/ call = "create" /\ CreateOne(t, a, kind, name)
           \/ call = "replace" /\ ReplaceOne(t, a, kind, name, new)
  BY DEF CreateOne, ReplaceOne
<1>3. \A u \in Thread : thread[u] = Idle
  BY <1>2, BegunAlone DEF Writers
<1>4. PICK record : record = Record(kind, name)
  OBVIOUS
<1>5. record.row = "live" /\ record.kind = kind /\ record.name = name
  BY <1>4 DEF Record, NoAccount
<1>6. PICK q : q = [[Idle EXCEPT !.pc = "saveRecord", !.id = a, !.new = brought,
                                 !.record = record] EXCEPT !.call = call]
  OBVIOUS
<1>7. Become(t, q) /\ q.pc = "saveRecord" /\ q.id = a /\ q.record = record /\ q.call = call
  BY <1>2, <1>4, <1>6 DEF Start, Idle
<1>8. \A b \in Account : accounts[b].kind # "ADMIN" => Following(b)
  BY <1>3, NobodyAtWork
<1>9. Free(q)
  BY <1>1, <1>5, <1>7 DEF Free, InUse
<1>10. ASSUME call = "create", CreateOne(t, a, kind, name)
       PROVE  Stage(q)
  <2>1. accounts[a].row = "none" /\ logins[a].row = "none"
    BY <1>2, <1>10 DEF CreateOne
  <2>2. Creating(q)
    BY <1>5, <1>7, <1>9, <2>1 DEF Creating
  <2> QED
    BY <1>7, <1>10, <2>2 DEF Stage, Writers
<1>11. ASSUME call = "replace", ReplaceOne(t, a, kind, name, new)
       PROVE  Stage(q)
  <2>1. /\ accounts[a].row = "live"
        /\ kind = accounts[a].kind \/ {kind, accounts[a].kind} = {"INDEPENDENT", "WORKER"}
    BY <1>2, <1>11 DEF ReplaceOne
  <2>2. kind = "ADMIN" <=> accounts[a].kind = "ADMIN"
    BY <2>1
  <2>3. accounts[a].kind # "ADMIN" => logins[a].row = "live"
    BY <1>8, <2>1 DEF Following
  <2>4. dealers[a] = "live" => kind = "DEALER"
    BY <2>1 DEF Follows, Links
  <2>5. Replacing(q)
    BY <1>5, <1>7, <1>9, <2>1, <2>2, <2>3, <2>4 DEF Replacing
  <2> QED
    BY <1>7, <1>11, <2>5 DEF Stage, Writers
<1>12. Stage(q)
  BY <1>2, <1>10, <1>11
<1>13. Stage(q)' /\ Links' /\ \A b \in Account : accounts'[b].kind # "ADMIN" => Following(b)'
  BY <1>1, <1>8, <1>12 DEF rows, Stage, Creating, Replacing, Deleting, Bystander, Free, Recorded,
     Differing, Follows, Links, Following, Live
<1> QED
  BY <1>3, <1>7, <1>13, WriterStep

\* softDeleteOne begins alone, of a provider whose login follows him.
LEMMA SoftDeleteBegunFollows ==
  ASSUME Overlapping \cap Writers = {}, Typed, Follows,
         NEW t \in Thread, NEW a \in Account, SoftDeleteOne(t, a) \/ SoftDeleteDealer(t, a)
  PROVE  Follows'
<1>1. PICK p : p = [Idle EXCEPT !.pc = "softDelete", !.id = a]
  OBVIOUS
<1>2. Start(t, "delete", p) /\ UNCHANGED <<accounts, logins>>
  BY <1>1 DEF SoftDeleteOne, SoftDeleteDealer, rows
<1>3. \A u \in Thread : thread[u] = Idle
  BY <1>2, BegunAlone DEF Writers
<1>4. PICK q : q = [p EXCEPT !.call = "delete"]
  OBVIOUS
<1>5. Become(t, q) /\ q.pc = "softDelete" /\ q.id = a /\ q.call = "delete"
  BY <1>1, <1>2, <1>4 DEF Start, Idle
<1>6. \A b \in Account : accounts[b].kind # "ADMIN" => Following(b)
  BY <1>3, NobodyAtWork
<1>7. accounts[a].row = "live" /\ accounts[a].kind # "ADMIN"
  BY DEF SoftDeleteOne, SoftDeleteDealer, Follows, Links
<1>8. logins[a].row = "live"
  BY <1>6, <1>7 DEF Following
<1>9. /\ dealers'[a] # "live"
      /\ \A b \in Account : dealers'[b] = "live" => dealers[b] = "live"
  <2>1. CASE SoftDeleteOne(t, a)
    BY <2>1 DEF SoftDeleteOne, rows, Follows, Links
  <2>2. CASE SoftDeleteDealer(t, a)
    BY <2>2 DEF SoftDeleteDealer, Typed, RowsTyped
  <2> QED
    BY <2>1, <2>2
<1>10. Deleting(q)'
  BY <1>2, <1>5, <1>7, <1>8, <1>9 DEF Deleting
<1>11. Stage(q)'
  BY <1>5, <1>10 DEF Stage, Writers
<1>12. Links' /\ \A b \in Account : accounts'[b].kind # "ADMIN" => Following(b)'
  BY <1>2, <1>6, <1>9 DEF Follows, Links, Following, Live
<1> QED
  BY <1>3, <1>5, <1>11, <1>12, WriterStep

\* What a writer in the middle of its work can rely on.
LEMMA AtWork ==
  ASSUME Overlapping \cap Writers = {}, Typed, Exclusive, Follows,
         NEW t \in Thread, thread[t].call \in Writers, thread[t].id \in Account
  PROVE  /\ \A u \in Thread : u # t => thread[u] = Idle
         /\ \A b \in Account \ {thread[t].id} : accounts[b].kind # "ADMIN" => Following(b)
         /\ Stage(thread[t])
<1>1. \A u \in Thread : u # t => thread[u] = Idle
  BY Alone
<1>2. Idle.call \notin Writers
  BY DEF Idle, Writers
<1> QED
  BY <1>1, <1>2 DEF Follows

\* saveRecord and saveDealer: from here the row is ahead of its login.
LEMMA SaveRecordFollows ==
  ASSUME Overlapping \cap Writers = {}, Typed, Exclusive, Follows,
         NEW t \in Thread, SaveRecord(t) \/ SaveDealer(t)
  PROVE  Follows'
<1>1. PICK p \in Call : p = thread[t] /\ Fit(p) /\ Stage(p)
  BY DEF Typed, Follows
<1>2. p.pc \in {"saveRecord", "saveDealer"} /\ p.id \in Account
  BY <1>1 DEF SaveRecord, SaveDealer, Mine, Fit, Located
<1>3. p.call \in {"create", "replace"} /\ (p.pc = "saveDealer" => p.call = "create")
  BY <1>1, <1>2 DEF Stage, Bystander, Replacing, Deleting, Writers
<1>4. /\ \A u \in Thread : u # t => thread[u] = Idle
      /\ \A b \in Account \ {p.id} : accounts[b].kind # "ADMIN" => Following(b)
  BY <1>1, <1>2, <1>3, AtWork DEF Writers
<1>5. p.record.row = "live" /\ Free(p) /\ p.record \in AccountRow
  BY <1>1, <1>3 DEF Stage, Creating, Replacing, Call
<1>6. UNCHANGED logins
  BY DEF SaveRecord, SaveDealer
<1>7. /\ accounts'[p.id].row = "live" /\ accounts'[p.id].kind = p.record.kind
      /\ accounts'[p.id].name = p.record.name
      /\ \A b \in Account \ {p.id} : accounts'[b] = accounts[b]
  <2>1. CASE SaveRecord(t)
    <3>1. PICK r : r = [p.record EXCEPT !.isOnDuty = accounts[p.id].isOnDuty]
      OBVIOUS
    <3>2. r.row = p.record.row /\ r.kind = p.record.kind /\ r.name = p.record.name
      BY <1>5, <3>1 DEF AccountRow
    <3>3. accounts' = [accounts EXCEPT ![p.id] = r]
      BY <1>1, <2>1, <3>1 DEF SaveRecord
    <3> QED
      BY <1>2, <1>5, <3>2, <3>3 DEF Typed, RowsTyped
  <2>2. CASE SaveDealer(t)
    <3>1. p.pc = "saveDealer" /\ p.call = "create" /\ UNCHANGED accounts
      BY <1>1, <1>3, <2>2 DEF SaveDealer, Mine
    <3> QED
      BY <1>1, <3>1 DEF Stage, Creating, Recorded
  <2> QED
    BY <2>1, <2>2
<1>8. PICK q, pc : /\ q = [p EXCEPT !.pc = pc] /\ Become(t, q)
                   /\ \/ p.call = "replace" /\ pc = "updateLogin"
                      \/ p.call = "create" /\ pc = "saveDealer" /\ p.record.kind = "DEALER"
                      \/ p.call = "create" /\ pc = "insertLogin"
  <2>1. CASE SaveRecord(t) /\ p.call = "replace"
    BY <1>1, <2>1 DEF SaveRecord, Goto
  <2>2. CASE SaveRecord(t) /\ p.call = "create" /\ p.record.kind = "DEALER"
    BY <1>1, <2>2 DEF SaveRecord, Goto
  <2>3. CASE SaveRecord(t) /\ p.call = "create" /\ p.record.kind # "DEALER"
    BY <1>1, <2>3 DEF SaveRecord, Goto
  <2>4. CASE SaveDealer(t)
    <3>1. p.pc = "saveDealer" /\ Goto(t, "insertLogin")
      BY <1>1, <2>4 DEF SaveDealer, Mine
    <3> QED
      BY <1>1, <1>3, <3>1 DEF Goto
  <2> QED
    BY <1>3, <2>1, <2>2, <2>3, <2>4
<1>9. q.pc = pc /\ q.call = p.call /\ q.id = p.id /\ q.record = p.record
  BY <1>8 DEF Call
<1>10. /\ dealers'[p.id] = "live" => p.record.kind = "DEALER"
       /\ \A b \in Account \ {p.id} : dealers'[b] = dealers[b]
       /\ p.call = "replace" => UNCHANGED dealers
  <2>1. CASE SaveRecord(t)
    <3>1. UNCHANGED dealers
      BY <2>1 DEF SaveRecord
    <3>2. CASE p.call = "replace"
      BY <1>1, <3>1, <3>2 DEF Stage, Replacing
    <3>3. CASE p.call = "create"
      <4>1. accounts[p.id].row = "none"
        BY <1>1, <2>1, <3>3 DEF Stage, Creating, SaveRecord, Mine
      <4> QED
        BY <1>2, <3>1, <3>3, <4>1 DEF Follows, Links
    <3> QED
      BY <1>3, <3>2, <3>3
  <2>2. CASE SaveDealer(t)
    <3>1. p.pc = "saveDealer" /\ p.call = "create" /\ dealers' = [dealers EXCEPT ![p.id] = "live"]
      BY <1>1, <1>3, <2>2 DEF SaveDealer, Mine
    <3> QED
      BY <1>1, <1>2, <3>1 DEF Stage, Creating, Typed, RowsTyped
  <2> QED
    BY <2>1, <2>2
<1>11. Stage(q)'
  <2>1. Free(q)' /\ Recorded(q)'
    BY <1>2, <1>5, <1>7, <1>9 DEF Free, Recorded
  <2>2. CASE p.call = "create"
    <3>1. logins[p.id].row = "none"
      BY <1>1, <2>2 DEF Stage, Creating
    <3>2. Creating(q)'
      BY <1>5, <1>6, <1>8, <1>9, <2>1, <2>2, <3>1 DEF Creating
    <3> QED
      BY <1>9, <2>2, <3>2 DEF Stage, Writers
  <2>3. CASE p.call = "replace"
    <3>1. p.record.kind # "ADMIN" => logins[p.id].row = "live"
      BY <1>1, <2>3 DEF Stage, Replacing
    <3>2. Replacing(q)'
      BY <1>5, <1>6, <1>7, <1>8, <1>9, <1>10, <2>1, <2>3, <3>1 DEF Replacing
    <3> QED
      BY <1>9, <2>3, <3>2 DEF Stage, Writers
  <2> QED
    BY <1>3, <2>2, <2>3
<1>12. Links'
  <2>1. p.record.kind = "ADMIN" /\ logins[p.id].row # "none" => logins[p.id].group = "ADMIN"
    <3>1. CASE p.call = "create"
      BY <1>1, <3>1 DEF Stage, Creating
    <3>2. CASE p.call = "replace"
      BY <1>1, <1>2, <3>2 DEF Stage, Replacing, Follows, Links
    <3> QED
      BY <1>3, <3>1, <3>2
  <2> QED
    BY <1>6, <1>7, <1>10, <2>1 DEF Follows, Links
<1>13. \A b \in Account : accounts'[b].kind # "ADMIN" => Following(b)' \/ (q.call \in Writers /\ q.id = b)
  BY <1>3, <1>4, <1>6, <1>7, <1>9 DEF Following, Live, Writers
<1> QED
  BY <1>4, <1>8, <1>11, <1>12, <1>13, WriterStep

\* A login that goes live under a free name of a provider breaks no unique constraint.
LEMMA FreeNameIsUnique ==
  ASSUME Typed, Links, NEW a \in Account, NEW name, NEW kind, kind # "ADMIN",
         \A b \in Account \ {a} : accounts[b].row = "live" => accounts[b].name # name,
         \A b \in Account \ {a} : accounts[b].kind # "ADMIN" => Following(b),
         NEW l, l.username = name, l.group = kind, l.deletionToken = Unlinked
  PROVE  Unique(a, l)
<1>1. SUFFICES ASSUME NEW b \in Account \ {a}, logins[b].row # "none",
                      logins[b].username = name, SameUserType(logins[b].group, kind),
                      logins[b].deletionToken = Unlinked
               PROVE  FALSE
  BY DEF Unique
<1>2. accounts[b].kind # "ADMIN"
  BY <1>1 DEF Links, SameUserType
<1>3. logins[b].row \in {"live", "deleted"}
  BY <1>1 DEF Typed, RowsTyped, LoginRow, Row
<1>4. logins[b].row = "live"
  BY <1>1, <1>3, AccountsAssumption DEF Links, Unlinked
<1> QED
  BY <1>1, <1>2, <1>4 DEF Following, Live

\* Nor does one that is deleted, whose token nobody else has.
LEMMA DeletedIsUnique ==
  ASSUME Typed, Links, NEW a \in Account, NEW l, l.deletionToken = a
  PROVE  Unique(a, l)
<1>1. SUFFICES ASSUME NEW b \in Account \ {a}, logins[b].row # "none",
                      logins[b].deletionToken = a
               PROVE  FALSE
  BY DEF Unique
<1>2. logins[b].row \in {"live", "deleted"}
  BY <1>1 DEF Typed, RowsTyped, LoginRow, Row
<1> QED
  BY <1>1, <1>2, AccountsAssumption DEF Links, Unlinked

\* The last step of a writer: its login is as it should be, and it is done.
LEMMA WriterEnds ==
  ASSUME Typed, Follows, NEW t \in Thread, \A u \in Thread : u # t => thread[u] = Idle,
         NEW a \in Account, \A b \in Account \ {a} : accounts[b].kind # "ADMIN" => Following(b),
         Finish(t), UNCHANGED <<accounts, dealers>>,
         \A b \in Account \ {a} : logins'[b] = logins[b],
         logins'[a].row = "live" => logins'[a].deletionToken = Unlinked,
         logins'[a].row = "deleted" => logins'[a].deletionToken = a,
         accounts[a].kind = "ADMIN" /\ logins'[a].row # "none" => logins'[a].group = "ADMIN",
         accounts[a].kind # "ADMIN" => Following(a)'
  PROVE  Follows'
<1>1. Links'
  BY DEF Follows, Links
<1>2. \A b \in Account : accounts'[b].kind # "ADMIN" => Following(b)'
  BY DEF Following, Live
<1>3. PICK q : q = Idle
  OBVIOUS
<1>4. Stage(q)'
  BY <1>3 DEF Idle, Stage, Bystander, Found, Writers
<1> QED
  BY <1>1, <1>2, <1>3, <1>4, WriterStep DEF Finish

\* insertLogin: the name is nobody else's, so the login is accepted and follows.
LEMMA CreateUserLoginFollows ==
  ASSUME Overlapping \cap Writers = {}, Typed, Exclusive, Follows,
         NEW t \in Thread, CreateUserLogin(t)
  PROVE  Follows'
<1>1. PICK p \in Call : p = thread[t] /\ Fit(p) /\ Stage(p)
  BY DEF Typed, Follows
<1>2. p.pc = "insertLogin" /\ p.id \in Account
  BY <1>1 DEF CreateUserLogin, Mine, Fit, Located
<1>3. p.call = "create"
  BY <1>1, <1>2 DEF Stage, Bystander, Replacing, Deleting, Writers
<1>4. /\ \A u \in Thread : u # t => thread[u] = Idle
      /\ \A b \in Account \ {p.id} : accounts[b].kind # "ADMIN" => Following(b)
  BY <1>1, <1>2, <1>3, AtWork DEF Writers
<1>5. Creating(p) /\ Recorded(p)
  BY <1>1, <1>2, <1>3 DEF Stage, Creating
<1>6. PICK l : l = [NoLogin EXCEPT !.row = "live", !.group = p.record.kind,
                                   !.username = p.record.name, !.password = p.new]
  OBVIOUS
<1>7. /\ l.row = "live" /\ l.group = p.record.kind /\ l.username = p.record.name
      /\ l.deletionToken = Unlinked
  BY <1>6 DEF NoLogin
<1>8. logins' = IF Unique(p.id, l) THEN [logins EXCEPT ![p.id] = l] ELSE logins
  BY <1>1, <1>6 DEF CreateUserLogin
<1>9. UNCHANGED <<accounts, dealers>> /\ Finish(t)
  BY DEF CreateUserLogin
<1>10. accounts[p.id].kind # "ADMIN" => Unique(p.id, l)
  BY <1>2, <1>4, <1>5, <1>7, FreeNameIsUnique DEF Follows, Recorded, Creating, Free
<1>11. logins \in [Account -> LoginRow] /\ logins[p.id].row = "none"
  BY <1>5 DEF Typed, RowsTyped, Creating
<1>12. /\ logins'[p.id] = IF Unique(p.id, l) THEN l ELSE logins[p.id]
       /\ \A b \in Account \ {p.id} : logins'[b] = logins[b]
  BY <1>2, <1>8, <1>11
<1>13. accounts[p.id].kind # "ADMIN" => Following(p.id)'
  BY <1>5, <1>7, <1>9, <1>10, <1>12 DEF Following, Live, Recorded
<1>14. /\ logins'[p.id].row = "live" => logins'[p.id].deletionToken = Unlinked
       /\ logins'[p.id].row # "deleted"
       /\ accounts[p.id].kind = "ADMIN" /\ logins'[p.id].row # "none" => logins'[p.id].group = "ADMIN"
  BY <1>5, <1>7, <1>11, <1>12 DEF Recorded
<1> QED
  BY <1>2, <1>4, <1>9, <1>12, <1>13, <1>14, WriterEnds

\* softDelete: the row is deleted and its login not yet.
LEMMA SoftDeleteFollows ==
  ASSUME Overlapping \cap Writers = {}, Typed, Exclusive, Follows,
         NEW t \in Thread, SoftDelete(t)
  PROVE  Follows'
<1>1. PICK p \in Call : p = thread[t] /\ Fit(p) /\ Stage(p)
  BY DEF Typed, Follows
<1>2. p.pc = "softDelete" /\ p.id \in Account
  BY <1>1 DEF SoftDelete, Mine, Fit, Located
<1>3. p.call = "delete"
  BY <1>1, <1>2 DEF Stage, Bystander, Replacing, Creating, Writers
<1>4. /\ \A u \in Thread : u # t => thread[u] = Idle
      /\ \A b \in Account \ {p.id} : accounts[b].kind # "ADMIN" => Following(b)
  BY <1>1, <1>2, <1>3, AtWork DEF Writers
<1>5. Deleting(p)
  BY <1>1, <1>3 DEF Stage
<1>6. UNCHANGED <<logins, dealers>>
  BY DEF SoftDelete
<1>7. PICK r : r = [accounts[p.id] EXCEPT !.row = "deleted"]
  OBVIOUS
<1>8. r.row = "deleted" /\ r.kind = accounts[p.id].kind
  BY <1>2, <1>7 DEF Typed, RowsTyped, AccountRow
<1>9. accounts'[p.id] = r /\ \A b \in Account \ {p.id} : accounts'[b] = accounts[b]
  BY <1>1, <1>2, <1>7 DEF SoftDelete, Typed, RowsTyped
<1>10. PICK q : q = [p EXCEPT !.pc = "deleteLogin"]
  OBVIOUS
<1>11. Become(t, q) /\ q.pc = "deleteLogin" /\ q.call = "delete" /\ q.id = p.id
  BY <1>1, <1>3, <1>10 DEF SoftDelete, Goto, Call
<1>12. Deleting(q)'
  BY <1>2, <1>5, <1>6, <1>8, <1>9, <1>11 DEF Deleting
<1>13. Stage(q)'
  BY <1>11, <1>12 DEF Stage, Writers
<1>14. Links'
  BY <1>5, <1>6, <1>8, <1>9 DEF Follows, Links, Deleting
<1>15. \A b \in Account : accounts'[b].kind # "ADMIN" => Following(b)' \/ (q.call \in Writers /\ q.id = b)
  BY <1>4, <1>6, <1>9, <1>11 DEF Following, Live, Writers
<1> QED
  BY <1>4, <1>11, <1>13, <1>14, <1>15, WriterStep

\* updateLogin and deleteLogin: what will be saved is the login with the identity of the row.
LEMMA ReadLoginFollows ==
  ASSUME Overlapping \cap Writers = {}, Typed, Exclusive, Follows,
         NEW t \in Thread, UpdateUserLogin(t) \/ DeleteUserLogin(t)
  PROVE  Follows'
<1>1. PICK p \in Call : p = thread[t] /\ Fit(p) /\ Stage(p)
  BY DEF Typed, Follows
<1>2. p.pc \in {"updateLogin", "deleteLogin"} /\ p.id \in Account
  BY <1>1 DEF UpdateUserLogin, DeleteUserLogin, Mine, Fit, Located
<1>3. \/ p.call = "replace" /\ p.pc = "updateLogin" /\ UpdateUserLogin(t)
      \/ p.call = "delete" /\ p.pc = "deleteLogin" /\ DeleteUserLogin(t)
  BY <1>1, <1>2 DEF Stage, Bystander, Replacing, Creating, Deleting, Writers,
     UpdateUserLogin, DeleteUserLogin, Mine
<1>4. /\ \A u \in Thread : u # t => thread[u] = Idle
      /\ \A b \in Account \ {p.id} : accounts[b].kind # "ADMIN" => Following(b)
  BY <1>1, <1>2, <1>3, AtWork DEF Writers
<1>5. UNCHANGED <<accounts, dealers, logins>>
  BY DEF UpdateUserLogin, DeleteUserLogin, rows
<1>6. CASE ~Live(p.id)
  <2>1. accounts[p.id].kind = "ADMIN"
    BY <1>1, <1>3, <1>6 DEF Live, Stage, Replacing, Deleting
  <2>2. Finish(t)
    BY <1>1, <1>6 DEF UpdateUserLogin, DeleteUserLogin
  <2> QED
    BY <1>2, <1>4, <1>5, <2>1, <2>2, WriterEnds DEF Follows, Links
<1>7. CASE Live(p.id)
  <2>1. PICK l \in LoginRow : l = logins[p.id] /\ Without(p.id, {}) = l
    BY <1>2, <1>7, LiveLogin
  <2>2. l.row = "live" /\ l.deletionToken = Unlinked
    BY <1>2, <1>7, <2>1 DEF Live, Follows, Links
  <2>3. PICK password : password = IF p.new = 0 THEN l.password ELSE p.new
    OBVIOUS
  <2>4. password \in Nat /\ p.record.kind \in Kind /\ p.record.name \in Phone \cup Email \cup {Unnamed}
    BY <2>3 DEF Call, LoginRow, AccountRow
  <2>5. PICK e : /\ Become(t, [p EXCEPT !.pc = "compare", !.login = e])
                 /\ \/ /\ p.call = "delete"
                       /\ e = [l EXCEPT !.row = "deleted", !.deletionToken = p.id]
                    \/ /\ p.call = "replace"
                       /\ e = [l EXCEPT !.password = password,
                                        !.username = p.record.name, !.group = p.record.kind]
    <3>1. CASE p.call = "replace"
      BY <1>1, <1>3, <1>7, <2>1, <2>3, <3>1 DEF UpdateUserLogin
    <3>2. CASE p.call = "delete"
      BY <1>1, <1>3, <1>7, <2>1, <3>2 DEF DeleteUserLogin
    <3> QED
      BY <1>3, <3>1, <3>2
  <2>6. PICK q : q = [p EXCEPT !.pc = "compare", !.login = e]
    OBVIOUS
  <2>7. /\ Become(t, q) /\ q.pc = "compare" /\ q.call = p.call /\ q.id = p.id
        /\ q.login = e /\ q.record = p.record
    BY <2>5, <2>6 DEF Call
  <2>8. CASE p.call = "delete"
    <3>1. e \in LoginRow /\ e.row = "deleted" /\ e.deletionToken = p.id
      BY <1>2, <2>5, <2>8 DEF LoginRow, Row
    <3>2. Deleting(p) /\ p.pc = "deleteLogin"
      BY <1>1, <1>3, <2>8 DEF Stage
    <3>3. Deleting(q)
      BY <2>7, <3>1, <3>2 DEF Deleting
    <3> QED
      BY <2>7, <2>8, <3>3, <1>5, <1>4, WriterStep DEF Stage, Writers, Deleting, Differing, Follows, Links,
         Following, Live
  <2>9. CASE p.call = "replace"
    <3>1. /\ e \in LoginRow /\ e.row = "live" /\ e.deletionToken = Unlinked
          /\ e.username = p.record.name /\ e.group = p.record.kind
      BY <2>2, <2>4, <2>5, <2>9 DEF LoginRow
    <3>2. Replacing(p) /\ p.pc = "updateLogin"
      BY <1>1, <1>3, <2>9 DEF Stage
    <3>3. Replacing(q)
      BY <2>1, <2>2, <2>7, <3>1, <3>2 DEF Replacing, Free, Recorded
    <3> QED
      BY <2>7, <2>9, <3>3, <1>5, <1>4, WriterStep DEF Stage, Writers, Replacing, Free, Recorded, Differing,
         Follows, Links, Following, Live
  <2> QED
    BY <1>3, <2>8, <2>9
<1> QED
  BY <1>6, <1>7

\* Compare, of a writer: the columns that differ are those to be written.
LEMMA WriterCompares ==
  ASSUME Overlapping \cap Writers = {}, Typed, Exclusive, Follows,
         NEW t \in Thread, Compare(t), thread[t].call \in Writers
  PROVE  Follows'
<1>1. PICK p \in Call : p = thread[t] /\ Fit(p) /\ Stage(p) /\ p.pc = "compare"
  BY DEF Typed, Follows, Compare, Mine
<1>2. p.id \in Account
  BY <1>1 DEF Fit, Located
<1>3. p.call \in {"replace", "delete"}
  BY <1>1 DEF Stage, Creating, Writers
<1>4. /\ \A u \in Thread : u # t => thread[u] = Idle
      /\ \A b \in Account \ {p.id} : accounts[b].kind # "ADMIN" => Following(b)
  BY <1>1, <1>2, AtWork
<1>5. UNCHANGED <<accounts, dealers, logins>>
  BY DEF Compare, rows
<1>6. PICK q : q = [p EXCEPT !.pc = "update", !.changed = Differing(p.id, p.login)]
  OBVIOUS
<1>7. /\ Become(t, q) /\ q.pc = "update" /\ q.call = p.call /\ q.id = p.id
      /\ q.login = p.login /\ q.record = p.record /\ q.changed = Differing(q.id, q.login)
  BY <1>1, <1>6 DEF Compare, Call
<1>8. Stage(q)
  <2>1. CASE p.call = "replace"
    <3>1. Replacing(q)
      BY <1>1, <1>7, <2>1 DEF Stage, Replacing, Free, Recorded
    <3> QED
      BY <1>7, <2>1, <3>1 DEF Stage, Writers
  <2>2. CASE p.call = "delete"
    <3>1. Deleting(q)
      BY <1>1, <1>7, <2>2 DEF Stage, Deleting
    <3> QED
      BY <1>7, <2>2, <3>1 DEF Stage, Writers
  <2> QED
    BY <1>3, <2>1, <2>2
<1>9. Stage(q)'
  BY <1>3, <1>5, <1>7, <1>8 DEF Stage, Replacing, Deleting, Free, Recorded, Differing, Writers
<1>10. Links' /\ \A b \in Account \ {p.id} : accounts'[b].kind # "ADMIN" => Following(b)'
  BY <1>4, <1>5 DEF Follows, Links, Following, Live
<1> QED
  BY <1>1, <1>4, <1>7, <1>9, <1>10, WriterStep

\* Where all that differs is written, the row becomes the entity.
LEMMA WholeUpdate ==
  ASSUME NEW a \in Account, logins[a] \in LoginRow, NEW p, p.login \in LoginRow,
         p.changed = Differing(a, p.login)
  PROVE  UpdatedLogin(a, p) = p.login
<1>1. PICK l \in LoginRow : l = p.login
  OBVIOUS
<1>2. DOMAIN l = Column /\ l = [c \in Column |-> l[c]]
  BY WholeEntity
<1> QED
  BY <1>1, <1>2 DEF UpdatedLogin, Differing

\* Update, of a writer: the unique index accepts it, and the login follows again.
LEMMA WriterUpdates ==
  ASSUME Overlapping \cap Writers = {}, Typed, Exclusive, Follows,
         NEW t \in Thread, Update(t), thread[t].call \in Writers
  PROVE  Follows'
<1>1. PICK p \in Call : p = thread[t] /\ Fit(p) /\ Stage(p) /\ p.pc = "update"
  BY DEF Typed, Follows, Update, Mine
<1>2. p.id \in Account
  BY <1>1 DEF Fit, Located
<1>3. /\ p.call = "replace" => Replacing(p)
      /\ p.call = "delete" => Deleting(p)
      /\ p.call \in {"replace", "delete"}
  BY <1>1 DEF Stage, Creating, Writers
<1>4. /\ \A u \in Thread : u # t => thread[u] = Idle
      /\ \A b \in Account \ {p.id} : accounts[b].kind # "ADMIN" => Following(b)
  BY <1>1, <1>2, AtWork
<1>5. p.login \in LoginRow /\ p.changed = Differing(p.id, p.login)
  BY <1>1, <1>3 DEF Replacing, Deleting
<1>6. logins \in [Account -> LoginRow]
  BY DEF Typed, RowsTyped
<1>7. PICK l \in LoginRow : l = p.login /\ UpdatedLogin(p.id, p) = l
  BY <1>2, <1>5, <1>6, WholeUpdate
<1>8. /\ logins' = IF Unique(p.id, l) THEN [logins EXCEPT ![p.id] = l] ELSE logins
      /\ Finish(t) /\ UNCHANGED <<accounts, dealers>>
  <2>1. p.call # "logout"
    BY <1>3
  <2> QED
    BY <1>1, <1>7, <2>1 DEF Update
<1>9. /\ logins'[p.id] = IF Unique(p.id, l) THEN l ELSE logins[p.id]
      /\ \A b \in Account \ {p.id} : logins'[b] = logins[b]
  BY <1>2, <1>6, <1>8
<1>10. CASE p.call = "replace"
  <2>1. /\ logins[p.id].row = "live" /\ Recorded(p) /\ Free(p)
        /\ l.row = "live" /\ l.deletionToken = Unlinked
        /\ l.username = p.record.name /\ l.group = p.record.kind
    BY <1>1, <1>3, <1>7, <1>10 DEF Replacing
  <2>2. accounts[p.id].kind # "ADMIN" => Unique(p.id, l)
    BY <1>2, <1>4, <2>1, FreeNameIsUnique DEF Follows, Recorded, Free
  <2>3. accounts[p.id].kind # "ADMIN" => Following(p.id)'
    BY <1>8, <1>9, <2>1, <2>2 DEF Following, Live, Recorded
  <2>4. /\ logins'[p.id].row = "live" /\ logins'[p.id].deletionToken = Unlinked
        /\ accounts[p.id].kind = "ADMIN" => logins'[p.id].group = "ADMIN"
    BY <1>2, <1>9, <2>1 DEF Follows, Links, Recorded
  <2> QED
    BY <1>2, <1>4, <1>8, <1>9, <2>3, <2>4, WriterEnds
<1>11. CASE p.call = "delete"
  <2>1. /\ accounts[p.id].row = "deleted" /\ accounts[p.id].kind # "ADMIN"
        /\ l.row = "deleted" /\ l.deletionToken = p.id
    BY <1>1, <1>3, <1>7, <1>11 DEF Deleting
  <2>2. Unique(p.id, l)
    BY <1>2, <2>1, DeletedIsUnique DEF Follows
  <2>3. Following(p.id)'
    BY <1>8, <1>9, <2>1, <2>2 DEF Following, Live
  <2>4. logins'[p.id].row = "deleted" /\ logins'[p.id].deletionToken = p.id
    BY <1>9, <2>1, <2>2
  <2> QED
    BY <1>2, <1>4, <1>8, <1>9, <2>1, <2>3, <2>4, WriterEnds
<1> QED
  BY <1>3, <1>10, <1>11

\* A step of a call that is no writer, to q.
LEMMA BystanderMoves ==
  ASSUME Overlapping \cap Writers = {}, Typed, Typed', Exclusive, Follows, SameIdentities,
         NEW t \in Thread, thread[t] # Idle, thread[t].call \notin Writers,
         NEW q, Become(t, q), q.call \notin Writers, Bystander(q)
  PROVE  Follows'
<1>1. \A u \in Thread : thread[u].call \notin Writers
  BY NoWriter
<1>2. thread'[t] = q /\ \A u \in Thread : u # t => thread'[u] = thread[u]
  BY DEF Become, Typed
<1> QED
  BY <1>1, <1>2, BystanderStep

\* Compare, of another call: none of the columns that differ is of the identity.
LEMMA BystanderCompares ==
  ASSUME Overlapping \cap Writers = {}, Typed, Typed', Exclusive, Follows,
         NEW t \in Thread, thread[t].call \notin Writers, Compare(t)
  PROVE  Follows'
<1>1. PICK p \in Call : p = thread[t] /\ Fit(p) /\ Bystander(p) /\ p.pc = "compare"
  BY DEF Typed, Follows, Compare, Mine, Stage
<1>2. PICK q : q = [p EXCEPT !.pc = "update", !.changed = Differing(p.id, p.login)]
  OBVIOUS
<1>3. Become(t, q) /\ q.pc = "update" /\ q.call = p.call /\ q.changed = Differing(p.id, p.login)
  BY <1>1, <1>2 DEF Compare, Call
<1>4. q.changed \cap Identity = {}
  BY <1>1, <1>3 DEF Bystander, Found, Differing
<1>5. Bystander(q)
  BY <1>3, <1>4 DEF Bystander
<1>6. SameIdentities /\ p # Idle
  BY <1>1 DEF Compare, rows, SameIdentities, Idle
<1> QED
  BY <1>1, <1>3, <1>5, <1>6, BystanderMoves

\* Update, of another call: no column of the identity is written.
LEMMA BystanderUpdates ==
  ASSUME Overlapping \cap Writers = {}, Typed, Typed', Exclusive, Follows,
         NEW t \in Thread, thread[t].call \notin Writers, Update(t)
  PROVE  Follows'
<1>1. PICK p \in Call : p = thread[t] /\ Fit(p) /\ Bystander(p) /\ p.pc = "update"
  BY DEF Typed, Follows, Update, Mine, Stage
<1>2. p.id \in Account /\ p.changed \cap Identity = {} /\ p # Idle
  BY <1>1 DEF Fit, Located, Bystander, Idle
<1>3. PICK l : l = UpdatedLogin(p.id, p)
  OBVIOUS
<1>4. \A c \in Identity : l[c] = logins[p.id][c]
  BY <1>2, <1>3 DEF UpdatedLogin, Identity, Column
<1>5. logins' = logins \/ logins' = [logins EXCEPT ![p.id] = l]
  BY <1>1, <1>3 DEF Update
<1>6. SameIdentities
  BY <1>2, <1>4, <1>5 DEF SameIdentities, Update, Typed, RowsTyped
<1>7. PICK q : Become(t, q) /\ q.call \notin Writers /\ Bystander(q)
  <2>1. Become(t, Idle) \/ Become(t, [p EXCEPT !.pc = "offDuty"])
    BY <1>1 DEF Update, Finish, Goto
  <2>2. PICK r : r = [p EXCEPT !.pc = "offDuty"]
    OBVIOUS
  <2>3. r.pc = "offDuty" /\ r.call = p.call
    BY <2>2 DEF Call
  <2>4. Bystander(r) /\ r.call \notin Writers
    BY <1>1, <2>3 DEF Bystander, Found
  <2>5. Bystander(Idle) /\ Idle.call \notin Writers
    BY IdleStage DEF Stage
  <2> QED
    BY <2>1, <2>2, <2>4, <2>5
<1> QED
  BY <1>1, <1>2, <1>6, <1>7, BystanderMoves

\* The steps between the beginning of such a call and its save().
LEMMA BystanderContinues ==
  ASSUME Overlapping \cap Writers = {}, Typed, Typed', Exclusive, Follows,
         NEW t \in Thread, ReadCode(t) \/ InsertCode(t) \/ FindAdmin(t) \/ LogoutOffDuty(t)
  PROVE  Follows'
<1>1. PICK p \in Call : p = thread[t] /\ Fit(p) /\ Stage(p)
                        /\ p.pc \in {"readCode", "insertCode", "findAdmin", "offDuty"}
  BY DEF Typed, Follows, ReadCode, InsertCode, FindAdmin, LogoutOffDuty, Mine
<1>2. p.call \notin Writers /\ Bystander(p) /\ p # Idle
  BY <1>1 DEF Stage, Writers, Creating, Replacing, Deleting, Idle
<1>3. SameIdentities
  <2>1. CASE LogoutOffDuty(t)
    <3>1. PICK r : r = [accounts[p.id] EXCEPT !.isOnDuty = FALSE]
      OBVIOUS
    <3>2. p.id \in Account
      BY <1>1, <2>1 DEF LogoutOffDuty, Mine, Fit, Located
    <3>3. r.row = accounts[p.id].row /\ r.kind = accounts[p.id].kind /\ r.name = accounts[p.id].name
      BY <3>1, <3>2 DEF Typed, RowsTyped, AccountRow
    <3>4. accounts' = accounts \/ accounts' = [accounts EXCEPT ![p.id] = r]
      BY <1>1, <2>1, <3>1 DEF LogoutOffDuty, SetDuty
    <3> QED
      BY <2>1, <3>2, <3>3, <3>4 DEF SameIdentities, LogoutOffDuty, Typed, RowsTyped
  <2>2. CASE ReadCode(t) \/ InsertCode(t) \/ FindAdmin(t)
    BY <2>2 DEF ReadCode, InsertCode, FindAdmin, rows, SameIdentities
  <2> QED
    BY <2>1, <2>2
<1>4. ASSUME NEW pc \in {"compare", "insertCode"}, Goto(t, pc), pc = "compare" => Found(p)
      PROVE  Follows'
  <2>1. PICK q : q = [p EXCEPT !.pc = pc]
    OBVIOUS
  <2>2. Become(t, q) /\ q.pc = pc /\ q.call = p.call /\ q.id = p.id /\ q.login = p.login
    BY <1>1, <1>4, <2>1 DEF Goto, Call
  <2>3. Bystander(q)
    BY <1>1, <1>2, <1>4, <2>2 DEF Bystander, Found
  <2> QED
    BY <1>1, <1>2, <1>3, <2>2, <2>3, BystanderMoves
<1>5. ASSUME Finish(t) PROVE Follows'
  <2>1. Bystander(Idle) /\ Idle.call \notin Writers
    BY IdleStage DEF Stage
  <2> QED
    BY <1>1, <1>2, <1>3, <1>5, <2>1, BystanderMoves DEF Finish
<1>6. CASE ReadCode(t)
  <2>1. p.pc = "readCode"
    BY <1>1, <1>6 DEF ReadCode, Mine
  <2>2. CASE p.call = "resetByOtp"
    BY <1>1, <1>4, <1>5, <1>6, <2>1, <2>2 DEF ReadCode, Found
  <2>3. CASE p.call # "resetByOtp"
    BY <1>1, <1>4, <1>5, <1>6, <2>3 DEF ReadCode
  <2> QED
    BY <2>2, <2>3
<1>7. CASE FindAdmin(t)
  BY <1>1, <1>4, <1>5, <1>7 DEF FindAdmin, Mine, Found
<1> QED
  BY <1>5, <1>6, <1>7 DEF InsertCode, LogoutOffDuty

\* A call that begins with its login as it is.
LEMMA BystanderBegins ==
  ASSUME Overlapping \cap Writers = {}, Typed, Typed', Exclusive, Follows, UNCHANGED rows,
         NEW t \in Thread, NEW call, call \notin Writers,
         NEW p, Start(t, call, p), {"pc", "call", "id", "login", "changed"} \subseteq DOMAIN p,
         p.pc \in {"compare", "findAdmin", "readCode"},
         \A c \in Identity \cap DOMAIN p.login : p.login[c] = logins[p.id][c]
  PROVE  Follows'
<1>1. PICK q : q = [p EXCEPT !.call = call]
  OBVIOUS
<1>2. /\ Become(t, q) /\ q.call = call /\ q.pc = p.pc /\ q.id = p.id /\ q.login = p.login
  BY <1>1 DEF Start
<1>3. Bystander(q)
  BY <1>2 DEF Bystander, Found
<1>4. \A u \in Thread : thread[u].call \notin Writers
  BY DEF Start, Idle, Writers
<1>5. thread'[t] = q /\ \A u \in Thread : u # t => thread'[u] = thread[u]
  BY <1>2 DEF Become, Typed
<1>6. SameIdentities
  BY DEF rows, SameIdentities
<1> QED
  BY <1>2, <1>3, <1>4, <1>5, <1>6, BystanderStep

\* The calls of AuthService begin with their login as it is.
LEMMA LoginCallFollows ==
  ASSUME Overlapping \cap Writers = {}, Typed, Typed', Exclusive, Follows, NEW t \in Thread,
         \/ \E name : Login(t, name) \/ ForgetPassword(t, name)
         \/ \E a \in Account : Logout(t, a) \/ ChangePassword(t, a) \/ ResetPasswordByToken(t, a)
         \/ \E phone \in Phone : RequestOtpToken(t, phone)
         \/ \E phone \in Phone : \E code \in DOMAIN codes[phone] : ResetPasswordByOtpToken(t, phone, code)
  PROVE  Follows'
<1>1. UNCHANGED rows
  BY DEF Login, ForgetPassword, Logout, ChangePassword, ResetPasswordByToken, RequestOtpToken,
         ResetPasswordByOtpToken
<1>2. ASSUME NEW name, Login(t, name) PROVE Follows'
  <2>1. PICK a \in Account :
          Start(t, "login", [Idle EXCEPT !.pc = "compare", !.id = a,
                              !.login = [ReadCredentials(a) EXCEPT !.isLogin = TRUE]])
    BY <1>2 DEF Login
  <2>2. PICK e : e = [ReadCredentials(a) EXCEPT !.isLogin = TRUE]
    OBVIOUS
  <2>3. \A c \in Identity \cap DOMAIN e : e[c] = logins[a][c]
    BY <2>2 DEF ReadCredentials, Without, Identity, Column
  <2>4. PICK p : p = [Idle EXCEPT !.pc = "compare", !.id = a, !.login = e]
    OBVIOUS
  <2>5. p.login = e /\ p.id = a /\ p.pc = "compare" /\ DOMAIN p = DOMAIN Idle
    BY <2>4 DEF Idle
  <2>6. Start(t, "login", p)
    BY <2>1, <2>2, <2>4
  <2> QED
    BY <1>1, <2>3, <2>5, <2>6, BystanderBegins DEF Idle, Writers
<1>3. ASSUME NEW name, ForgetPassword(t, name) PROVE Follows'
  <2>1. PICK a \in Account :
          /\ NamedBy(a, name)
          /\ Start(t, "forgetPassword",
                [Idle EXCEPT !.pc = "findAdmin", !.id = a, !.code = tokens + 1,
                             !.login = [Without(a, {}) EXCEPT !.resetToken = tokens + 1]])
    BY <1>3 DEF ForgetPassword
  <2>2. PICK l \in LoginRow : l = logins[a] /\ Without(a, {}) = l
    BY <2>1, LiveLogin DEF NamedBy
  <2>3. PICK code : code = tokens + 1
    OBVIOUS
  <2>4. PICK e : e = [l EXCEPT !.resetToken = code]
    OBVIOUS
  <2>5. \A c \in Identity : e[c] = l[c]
    BY <2>4 DEF LoginRow, Identity
  <2>6. PICK p : p = [Idle EXCEPT !.pc = "findAdmin", !.id = a, !.code = code, !.login = e]
    OBVIOUS
  <2>7. p.login = e /\ p.id = a /\ p.pc = "findAdmin" /\ DOMAIN p = DOMAIN Idle
    BY <2>6 DEF Idle
  <2>8. Start(t, "forgetPassword", p)
    BY <2>1, <2>2, <2>3, <2>4, <2>6
  <2> QED
    BY <1>1, <2>2, <2>5, <2>7, <2>8, BystanderBegins DEF Idle, Writers
<1>4. ASSUME NEW a \in Account, Logout(t, a) PROVE Follows'
  <2>1. PICK l \in LoginRow : l = logins[a] /\ Without(a, {}) = l
    BY <1>4, LiveLogin DEF Logout
  <2>2. PICK e : e = [l EXCEPT !.isLogin = FALSE]
    OBVIOUS
  <2>3. \A c \in Identity : e[c] = l[c]
    BY <2>2 DEF LoginRow, Identity
  <2>4. PICK p : p = [Idle EXCEPT !.pc = "compare", !.id = a, !.login = e]
    OBVIOUS
  <2>5. p.login = e /\ p.id = a /\ p.pc = "compare" /\ DOMAIN p = DOMAIN Idle
    BY <2>4 DEF Idle
  <2>6. Start(t, "logout", p)
    BY <1>4, <2>1, <2>2, <2>4 DEF Logout
  <2> QED
    BY <1>1, <2>1, <2>3, <2>5, <2>6, BystanderBegins DEF Idle, Writers
<1>5. ASSUME NEW a \in Account, ChangePassword(t, a) PROVE Follows'
  <2>1. PICK new : new = passwords + 1
    OBVIOUS
  <2>2. PICK e : e = [c \in {"password"} |-> new]
    OBVIOUS
  <2>3. PICK p : p = [Idle EXCEPT !.pc = "compare", !.id = a, !.new = new, !.login = e]
    OBVIOUS
  <2>4. p.login = e /\ p.id = a /\ p.pc = "compare" /\ DOMAIN p = DOMAIN Idle
    BY <2>3 DEF Idle
  <2>5. Start(t, "changePassword", p)
    BY <1>5, <2>1, <2>2, <2>3 DEF ChangePassword
  <2>6. Identity \cap DOMAIN e = {}
    BY <2>2 DEF Identity
  <2> QED
    BY <1>1, <2>4, <2>5, <2>6, BystanderBegins DEF Idle, Writers
<1>6. ASSUME NEW a \in Account, NEW new, Live(a)
      PROVE  \A c \in Identity : Reset(a, new)[c] = logins[a][c]
  BY <1>6, LiveLogin DEF Reset, LoginRow, Identity
<1>7. ASSUME NEW a \in Account, ResetPasswordByToken(t, a) PROVE Follows'
  <2>1. PICK new : new = passwords + 1
    OBVIOUS
  <2>0. \A c \in Identity : Reset(a, new)[c] = logins[a][c]
    BY <1>6, <1>7 DEF ResetPasswordByToken
  <2>2. PICK e : e = Reset(a, new) /\ \A c \in Identity : e[c] = logins[a][c]
    BY <2>0
  <2>3. PICK p : p = [Idle EXCEPT !.pc = "compare", !.id = a, !.new = new, !.login = e]
    OBVIOUS
  <2>4. p.login = e /\ p.id = a /\ p.pc = "compare" /\ DOMAIN p = DOMAIN Idle
    BY <2>3 DEF Idle
  <2>5. Start(t, "resetPassword", p)
    BY <1>7, <2>1, <2>2, <2>3 DEF ResetPasswordByToken
  <2> QED
    BY <1>1, <2>2, <2>4, <2>5, BystanderBegins DEF Idle, Writers
<1>8. ASSUME NEW phone \in Phone, RequestOtpToken(t, phone) PROVE Follows'
  <2>1. PICK p : p = [Idle EXCEPT !.pc = "readCode", !.record.name = phone]
    OBVIOUS
  <2>2. DOMAIN p.login = {} /\ p.pc = "readCode" /\ DOMAIN p = DOMAIN Idle
    BY <2>1 DEF Idle
  <2>3. Start(t, "requestOtp", p)
    BY <1>8, <2>1 DEF RequestOtpToken
  <2> QED
    BY <1>1, <2>2, <2>3, BystanderBegins DEF Idle, Writers
<1>9. ASSUME NEW phone, NEW code, ResetPasswordByOtpToken(t, phone, code) PROVE Follows'
  <2>1. PICK new : new = passwords + 1
    OBVIOUS
  <2>2. PICK a \in Account :
          /\ Live(a)
          /\ Start(t, "resetByOtp",
                [Idle EXCEPT !.pc = "readCode", !.id = a, !.code = code, !.new = passwords + 1,
                             !.record.name = phone, !.login = Reset(a, passwords + 1)])
    BY <1>9 DEF ResetPasswordByOtpToken, NamedBy
  <2>3. PICK e : e = Reset(a, new) /\ \A c \in Identity : e[c] = logins[a][c]
    BY <1>6, <2>2
  <2>4. PICK p : p = [Idle EXCEPT !.pc = "readCode", !.id = a, !.code = code, !.new = new,
                                  !.record.name = phone, !.login = e]
    OBVIOUS
  <2>5. p.login = e /\ p.id = a /\ p.pc = "readCode" /\ DOMAIN p = DOMAIN Idle
    BY <2>4 DEF Idle
  <2>6. Start(t, "resetByOtp", p)
    BY <2>1, <2>2, <2>3, <2>4
  <2> QED
    BY <1>1, <2>3, <2>5, <2>6, BystanderBegins DEF Idle, Writers
<1> QED
  BY <1>2, <1>3, <1>4, <1>5, <1>7, <1>8, <1>9

\* Going on and off duty changes no identity.
LEMMA DutyFollows ==
  ASSUME Overlapping \cap Writers = {}, Typed, Typed', Follows,
         NEW a \in Account, NEW duty \in BOOLEAN, Duty(a, duty)
  PROVE  Follows'
<1>1. \A u \in Thread : thread[u].call \notin Writers
  BY DEF Duty, Idle, Writers
<1>2. PICK r : r = [accounts[a] EXCEPT !.isOnDuty = duty]
  OBVIOUS
<1>3. r.row = accounts[a].row /\ r.kind = accounts[a].kind /\ r.name = accounts[a].name
  BY <1>2 DEF Typed, RowsTyped, AccountRow
<1>4. accounts' = accounts \/ accounts' = [accounts EXCEPT ![a] = r]
  BY <1>2 DEF Duty, SetDuty
<1>5. SameIdentities
  BY <1>3, <1>4 DEF SameIdentities, Duty, Typed, RowsTyped
<1> QED
  BY <1>1, <1>5, BystanderStep DEF Duty

\* Only a crash is counted.
LEMMA CrashIsCounted ==
  ASSUME Typed, [Next]_vars, crashes' = 0
  PROVE  crashes = 0 /\ ~Crash
<1>1. crashes \in Nat
  BY DEF Typed, RowsTyped
<1>3. ASSUME Tick \/ UNCHANGED vars \/ \E a \in Account, duty \in BOOLEAN : Duty(a, duty)
      PROVE  UNCHANGED crashes
  BY <1>3 DEF Tick, Duty, vars, counts
<1>4. ASSUME NEW t \in Thread, Administer(t) PROVE UNCHANGED crashes
  BY <1>4 DEF Administer, counts, ServiceProviders, Dealers, AdminUsers, OneOf, LoginCommands, CreateOne,
     ReplaceOne, SaveRecord, SaveDealer, SoftDeleteOne, SoftDeleteDealer, SoftDelete, CreateUserLogin,
     UpdateUserLogin, DeleteUserLogin
<1>5. ASSUME NEW t \in Thread, Authenticate(t) PROVE UNCHANGED crashes
  BY <1>5 DEF Authenticate, counts, Login, Logout, ForgetPassword, ChangePassword,
     ResetPasswordByToken, RequestOtpToken, ResetPasswordByOtpToken, ReadCode, InsertCode, FindAdmin,
     LogoutOffDuty
<1>6. ASSUME NEW t \in Thread, Compare(t) \/ Update(t) PROVE UNCHANGED crashes
  BY <1>6 DEF Compare, Update, counts
<1>7. UNCHANGED crashes \/ Crash
  BY <1>3, <1>4, <1>5, <1>6 DEF Next
<1>8. ~Crash
  BY <1>1 DEF Crash
<1> QED
  BY <1>7, <1>8

\* Every step but a crash keeps the two tables together, but for the writer at work.
LEMMA FollowStep ==
  ASSUME Overlapping \cap Writers = {}
  PROVE  Typed /\ Typed' /\ Exclusive /\ FollowInv /\ [Next]_vars => FollowInv'
<1> SUFFICES ASSUME Typed, Typed', Exclusive, FollowInv, [Next]_vars, crashes' = 0 PROVE Follows'
  BY DEF FollowInv
<1>1. Follows /\ ~Crash
  BY CrashIsCounted DEF FollowInv
<1>2. CASE UNCHANGED <<rows, thread>>
  BY <1>1, <1>2 DEF Follows, Links, Following, Live, Stage, Creating, Replacing, Deleting, Bystander,
     Free, Recorded, Differing, rows
<1>3. ASSUME NEW t \in Thread, Administer(t) PROVE Follows'
  <2>1. ASSUME NEW a \in Account, NEW kind \in Kind, NEW name, NEW new,
               CreateOne(t, a, kind, name) \/ ReplaceOne(t, a, kind, name, new)
        PROVE  Follows'
    BY <1>1, <2>1, SaveAccountFollows
  <2>2. ASSUME NEW kinds, kinds \subseteq Kind, NEW name, OneOf(t, kinds, name) PROVE Follows'
    BY <2>1, <2>2 DEF OneOf
  <2>3. CASE ServiceProviders(t) \/ Dealers(t) \/ AdminUsers(t)
    BY <1>1, <2>2, <2>3, SoftDeleteBegunFollows DEF ServiceProviders, Dealers, AdminUsers, Kind
  <2>4. CASE SaveRecord(t) \/ SaveDealer(t) \/ SoftDelete(t) \/ LoginCommands(t)
    BY <1>1, <2>4, SaveRecordFollows, SoftDeleteFollows, CreateUserLoginFollows, ReadLoginFollows
       DEF LoginCommands
  <2> QED
    BY <1>3, <2>3, <2>4 DEF Administer
<1>4. ASSUME NEW t \in Thread, Authenticate(t) PROVE Follows'
  BY <1>1, <1>4, BystanderContinues, LoginCallFollows DEF Authenticate
<1>5. ASSUME Tick \/ UNCHANGED vars PROVE UNCHANGED <<rows, thread>>
  BY <1>5 DEF Tick, rows, vars
<1>6. ASSUME NEW t \in Thread, Compare(t) PROVE Follows'
  BY <1>1, <1>6, BystanderCompares, WriterCompares
<1>7. ASSUME NEW t \in Thread, Update(t) PROVE Follows'
  BY <1>1, <1>7, BystanderUpdates, WriterUpdates
<1> QED
  BY <1>1, <1>2, <1>3, <1>4, <1>5, <1>6, <1>7, DutyFollows DEF Next

\* With no call in progress and none lost in a crash, every provider's login is alive
\* if and only if he is, and bears his name and type.
THEOREM LoginsFollow ==
  ASSUME Overlapping \cap Writers = {}
  PROVE  Spec => []LoginFollowsAccount
<1>1. Init => Exclusive /\ FollowInv
  <2>1. Init => Follows
    BY IdleStage DEF Init, Follows, Links, Following, Live, NoAccount, NoLogin
  <2> QED
    BY <2>1, OtpInit DEF FollowInv
<1>2. Typed /\ Typed' /\ Exclusive /\ FollowInv /\ [Next]_vars => Exclusive' /\ FollowInv'
  BY ExclusiveStep, FollowStep
<1>3. FollowInv => LoginFollowsAccount
  BY NobodyAtWork DEF FollowInv, LoginFollowsAccount, Resting, Following
<1> QED
  BY <1>1, <1>2, <1>3, Typing, PTL DEF Spec
=============================================================================
