-------------------------- MODULE Anonymization_proofs --------------------------
(* For any archives that verify accepts and any passes, cut anywhere and      *)
(* mixed with redactions: a directory that has the mark can be published,     *)
(* until a removal begins in it; the control condemns a pass only for a word  *)
(* of its own; every level keeps what it promises of the texts; and a second  *)
(* pass changes nothing in the texts where nothing touches a match.           *)
EXTENDS Redaction_proofs

(*------------------------- identities and their table --------------------*)
\* The accounts in the order of their ranks, and the identity of each rank.
Ranks(order, table, ids, n) ==
  /\ order \in [1..n -> ids]
  /\ \A i, j \in 1..n : order[i] = order[j] => i = j
  /\ ids = {order[i] : i \in 1..n}
  /\ DOMAIN table = ids
  /\ \A i \in 1..n : table[order[i]] = Identity(i)

LEMMA TableOfOrder ==
  ASSUME NEW rows, AreRows(rows), Distinct(rows), NEW order \in Orders(Ids(rows))
  PROVE  Ranks(order, IdentityTable(order), Ids(rows), Len(rows))
<1> DEFINE n == Len(rows)
           ids == Ids(rows)
           table == IdentityTable(order)
           at == [i \in 1..n |-> rows[i].id]
<1>1. n \in Nat /\ DOMAIN rows = 1..n
  BY LenProperties DEF AreRows
<1>2. ids = {rows[i].id : i \in 1..n}
  BY <1>1 DEF Ids, ToSet
<1>3. at \in Surjection(1..n, ids)
  BY <1>2 DEF Surjection
<1>4. Cardinality(ids) = n
  BY DistinctRows DEF Repeats
<1>5. order \in [1..n -> ids] /\ \A i, j \in 1..n : order[i] = order[j] => i = j
  BY <1>4 DEF Orders, SetToSeqs
<1> HIDE DEF n, ids, at, table
<1>6. IsFiniteSet(1..n) /\ Cardinality(1..n) = n
  <2>1. n \in Int /\ 1 \in Int
    BY <1>1
  <2>2. IsFiniteSet(1..n) /\ Cardinality(1..n) = IF 1 > n THEN 0 ELSE n - 1 + 1
    BY <2>1, FS_Interval
  <2> QED BY <1>1, <2>2
<1>7. IsFiniteSet(ids)
  BY <1>3, <1>6, FS_Surjection
<1>8. order \in Injection(1..n, ids)
  BY <1>5 DEF Injection, IsInjective
<1>9. order \in Surjection(1..n, ids)
  BY <1>4, <1>6, <1>7, <1>8, FS_Injection
<1>10. ids = {order[i] : i \in 1..n}
  BY <1>5, <1>9 DEF Surjection
<1>11. ToSet(order) = ids /\ DOMAIN order = 1..n
  BY <1>5, <1>10 DEF ToSet
<1>12. DOMAIN table = ids /\ \A id \in ids : table[id] = Identity(CHOOSE i \in 1..n : order[i] = id)
  BY <1>11 DEF table, IdentityTable
<1>13. ASSUME NEW i \in 1..n PROVE table[order[i]] = Identity(i)
  <2>1. (CHOOSE j \in 1..n : order[j] = order[i]) = i
    BY <1>5
  <2> QED BY <1>5, <1>12, <2>1
<1> QED BY <1>5, <1>10, <1>12, <1>13 DEF Ranks, n, ids, table

LEMMA SortedRows ==
  ASSUME NEW users, AreRows(users), Distinct(users), NEW order, NEW table,
         Ranks(order, table, Ids(users), Len(users))
  PROVE  LET sorted == Sorted(users, table) IN
         /\ sorted \in Seq(ToSet(users)) /\ Len(sorted) = Len(users)
         /\ ToSet(sorted) = ToSet(users) /\ Distinct(sorted)
<1> DEFINE n == Len(users)
           ids == Ids(users)
           Rank(i) == table[users[i].id].rank
           Sorts(p) == \A i, j \in 1..n : i < j => Rank(p[i]) <= Rank(p[j])
           at == CHOOSE p \in SetToSeqs(1..n) : Sorts(p)
           sorted == [i \in 1..n |-> users[at[i]]]
<1>1. n \in Nat /\ DOMAIN users = 1..n /\ users \in Seq(ToSet(users))
  BY LenProperties DEF AreRows
<1>2. ids = {users[i].id : i \in 1..n} /\ ToSet(users) = {users[i] : i \in 1..n}
  BY <1>1 DEF Ids, ToSet
<1>3. \A i, j \in 1..n : users[i].id = users[j].id => i = j
  BY <1>1 DEF Distinct
<1>4. Sorted(users, table) = sorted
  BY DEF Sorted
<1>5. /\ order \in [1..n -> ids] /\ \A i, j \in 1..n : order[i] = order[j] => i = j
      /\ \A i \in 1..n : table[order[i]].rank = i
  <2>1. \A i : Identity(i).rank = i
    BY DEF Identity
  <2> QED BY <2>1 DEF Ranks
<1>6. IsFiniteSet(1..n) /\ Cardinality(1..n) = n
  <2>1. n \in Int /\ 1 \in Int
    BY <1>1
  <2>2. IsFiniteSet(1..n) /\ Cardinality(1..n) = IF 1 > n THEN 0 ELSE n - 1 + 1
    BY <2>1, FS_Interval
  <2> QED BY <1>1, <2>2
<1> HIDE DEF n, ids
\* The place of the account of each rank is such a permutation.
<1>7. \E p \in SetToSeqs(1..n) : Sorts(p)
  <2> DEFINE q == [i \in 1..n |-> CHOOSE k \in 1..n : users[k].id = order[i]]
  <2>1. \A i \in 1..n : \E k \in 1..n : users[k].id = order[i]
    BY <1>2, <1>5
  <2>2. \A i \in 1..n : q[i] \in 1..n /\ users[q[i]].id = order[i]
    BY <2>1
  <2>3. q \in [1..n -> 1..n]
    BY <2>2
  <2> HIDE DEF q
  <2>4. \A i, j \in 1..n : i # j => q[i] # q[j]
    BY <1>5, <2>2
  <2>5. q \in SetToSeqs(1..n)
    BY <1>6, <2>3, <2>4 DEF SetToSeqs
  <2>6. \A i \in 1..n : Rank(q[i]) = i
    BY <1>5, <2>2
  <2>7. Sorts(q)
    BY <2>6
  <2> QED BY <2>5, <2>7
<1>8. at \in SetToSeqs(1..n)
  <2> HIDE DEF Sorts
  <2> QED BY <1>7
<1> HIDE DEF at, Sorts, Rank
<1>9. at \in [1..n -> 1..n] /\ \A i, j \in 1..n : at[i] = at[j] => i = j
  BY <1>6, <1>8 DEF SetToSeqs
<1>10. \A k \in 1..n : \E i \in 1..n : at[i] = k
  <2>1. at \in Injection(1..n, 1..n)
    BY <1>9 DEF Injection, IsInjective
  <2>2. at \in Surjection(1..n, 1..n)
    BY <1>6, <2>1, FS_Injection
  <2> QED BY <2>2 DEF Surjection
<1>11. \A i \in 1..n : sorted[i] \in ToSet(users)
  BY <1>2, <1>9
<1>12. sorted \in Seq(ToSet(users)) /\ Len(sorted) = n /\ DOMAIN sorted = 1..n
  <2>1. sorted = [i \in 1..n |-> sorted[i]] /\ DOMAIN sorted = 1..n
    OBVIOUS
  <2> HIDE DEF sorted
  <2> QED BY <1>1, <1>11, <2>1, IsASeq, LenProperties
<1>13. ToSet(sorted) = ToSet(users)
  <2>1. ToSet(sorted) = {users[at[i]] : i \in 1..n}
    BY <1>12 DEF ToSet
  <2> QED BY <1>2, <1>9, <1>10, <2>1
<1>14. Distinct(sorted)
  <2> SUFFICES ASSUME NEW i \in 1..n, NEW j \in 1..n, users[at[i]].id = users[at[j]].id PROVE i = j
    BY <1>12 DEF Distinct
  <2> QED BY <1>3, <1>9
<1> QED BY <1>4, <1>12, <1>13, <1>14 DEF n

(*--------------------- what an anonymization is made from -----------------*)
\* An archive that redactions made of one of the sources, a level and a table.
GoodBasis(b) ==
  /\ IsArchive(b.src) /\ WellFormed(b.src)
  /\ \E a \in Sources : \A u \in ToSet(b.src.users) : u \in ToSet(a.users) \/ Renamed(u)
  /\ b.niveau \in Levels
  /\ \E order \in Orders(Ids(b.src.users)) : b.table = IdentityTable(order)

\* Every account has an identity, of one of the ranks, and no two the same.
LEMMA TableIs ==
  ASSUME NEW b, GoodBasis(b)
  PROVE  /\ Len(b.src.users) \in Nat /\ DOMAIN b.table = Ids(b.src.users)
         /\ \E order : Ranks(order, b.table, Ids(b.src.users), Len(b.src.users))
         /\ \A id \in DOMAIN b.table : \E i \in 1..Len(b.src.users) : b.table[id] = Identity(i)
<1> DEFINE users == b.src.users
           n == Len(users)
<1>1. PICK order \in Orders(Ids(users)) : b.table = IdentityTable(order)
  BY DEF GoodBasis
<1>2. AreRows(users) /\ Distinct(users)
  BY PartsOfArchive DEF GoodBasis, WellFormed, UsersWell, AreUsers
<1>3. n \in Nat
  BY <1>2, LenProperties DEF AreRows
<1> HIDE DEF users
<1>4. Ranks(order, b.table, Ids(users), n)
  BY <1>1, <1>2, TableOfOrder
<1>5. \A id \in DOMAIN b.table : \E i \in 1..n : b.table[id] = Identity(i)
  BY <1>4 DEF Ranks
<1> QED BY <1>3, <1>4, <1>5 DEF Ranks, users

LEMMA UidsDiffer ==
  ASSUME NEW b, GoodBasis(b), \A n \in Nat : IdentitiesDiffer(n)
  PROVE  \A x, y \in DOMAIN b.table : b.table[x].uid = b.table[y].uid => x = y
<1> DEFINE n == Len(b.src.users)
           ids == Ids(b.src.users)
<1>1. n \in Nat
  BY TableIs
<1>2. PICK order : Ranks(order, b.table, ids, n)
  BY TableIs
<1> HIDE DEF n, ids
<1>3. \A i, j \in 1..n : Identity(i).uid = Identity(j).uid => i = j
  BY <1>1 DEF IdentitiesDiffer
<1> QED BY <1>2, <1>3 DEF Ranks

(*------------------------- the archive it produces -----------------------*)
\* What an anonymization writes of a post.
NewText(b, p) ==
  IF RewritesForms(b.niveau) THEN Rewritten(DesignatedRewritten(p, Res(b)), Res(b), Noms(b))
  ELSE DesignatedRewritten(p, Res(b))
NewProps(b, p) == ReducedProps(p.props, Res(b), RewritesForms(b.niveau), Noms(b))
NewReactors(b, p) == {b.table[u].uid : u \in p.reactors \cap DOMAIN b.table}
NewPosts(b, posts) == [i \in DOMAIN posts |-> AnonPost(b, Res(b), Noms(b), posts[i])]

LEMMA AnonPostIs ==
  ASSUME NEW b, NEW p, IsPost(p)
  PROVE  AnonPost(b, Res(b), Noms(b), p) =
           [id |-> p.id, at |-> p.at, user |-> Substitute(b, p.user),
            reactors |-> NewReactors(b, p), files |-> p.files, sys |-> p.sys,
            text |-> NewText(b, p), props |-> NewProps(b, p)]
<1> DEFINE user == Substitute(b, p.user)
           reactors == NewReactors(b, p)
           text == NewText(b, p)
           props == NewProps(b, p)
<1>1. AnonPost(b, Res(b), Noms(b), p) =
        [p EXCEPT !.user = user, !.reactors = reactors, !.text = text, !.props = props]
  BY DEF AnonPost, NewText, NewProps, NewReactors
<1>2. p = [id |-> p.id, at |-> p.at, user |-> p.user, reactors |-> p.reactors,
           files |-> p.files, sys |-> p.sys, text |-> p.text, props |-> p.props]
  BY DEF IsPost
<1> HIDE DEF user, reactors, text, props
<1>3. AnonPost(b, Res(b), Noms(b), p) =
        [id |-> p.id, at |-> p.at, user |-> user, reactors |-> reactors,
         files |-> p.files, sys |-> p.sys, text |-> text, props |-> props]
  BY <1>1, <1>2
<1> QED BY <1>3 DEF user, reactors, text, props

\* The rows of the output, file by file.
NewUsers(b) == LET sorted == Sorted(b.src.users, b.table) IN
  [i \in DOMAIN sorted |-> AnonUser(b, sorted[i])]
NewEmojis(b) == [i \in DOMAIN b.src.emojis |-> AnonEmoji(b, b.src.emojis[i])]
NewFiles(b) == [i \in DOMAIN b.src.files |-> AnonFile(b, b.src.files[i], i)]
AllNewPosts(b) == [c \in DOMAIN b.src.posts |-> NewPosts(b, b.src.posts[c])]

LEMMA ProducedIs ==
  ASSUME NEW b, IsArchive(b.src), IsManifest(b.src.manifest)
  PROVE  LET o == Produced(b)
             m == b.src.manifest IN
         /\ o = [posts |-> AllNewPosts(b), users |-> NewUsers(b), files |-> NewFiles(b),
                 emojis |-> NewEmojis(b), channels |-> b.src.channels, blobs |-> {}, avatars |-> {},
                 stray |-> b.src.stray, manifest |-> o.manifest]
         /\ o.manifest = [readable |-> m.readable,
              counts |-> [channels |-> Len(o.channels), posts |-> PostLines(o), users |-> Len(o.users),
                          emojis |-> Len(o.emojis), attachments |-> 0],
              range |-> IF PostRange(o) = <<>> THEN m.range ELSE PostRange(o),
              joined |-> m.joined, joinedList |-> m.joinedList,
              operator |-> AnonOperator(b, m.operator), url |-> ""]
<1> DEFINE s == b.src
           m == s.manifest
           posts == AllNewPosts(b)
           users == NewUsers(b)
           emojis == NewEmojis(b)
           files == NewFiles(b)
           o == Produced(b)
           bare == [s EXCEPT !.posts = posts, !.users = users, !.emojis = emojis, !.files = files,
                             !.blobs = {}, !.avatars = {}]
           manifest == AnonManifest(b, bare)
<1>1. o = [bare EXCEPT !.manifest = manifest]
  BY DEF Produced, AllNewPosts, NewPosts, NewUsers, NewEmojis, NewFiles
<1>2. s = [posts |-> s.posts, users |-> s.users, files |-> s.files, emojis |-> s.emojis,
           channels |-> s.channels, blobs |-> s.blobs, avatars |-> s.avatars,
           stray |-> s.stray, manifest |-> s.manifest]
  BY PartsOfArchive
<1> HIDE DEF posts, users, emojis, files, manifest, o, s
<1>21. bare = [s EXCEPT !.posts = posts, !.users = users, !.emojis = emojis, !.files = files,
                        !.blobs = {}, !.avatars = {}]
  OBVIOUS
<1> HIDE DEF bare
<1>3. bare = [posts |-> posts, users |-> users, files |-> files, emojis |-> emojis,
              channels |-> s.channels, blobs |-> {}, avatars |-> {}, stray |-> s.stray,
              manifest |-> s.manifest]
  BY <1>2, <1>21
<1>4. o = [posts |-> posts, users |-> users, files |-> files, emojis |-> emojis,
           channels |-> s.channels, blobs |-> {}, avatars |-> {}, stray |-> s.stray,
           manifest |-> manifest]
  BY <1>1, <1>3
<1>5. PostLines(bare) = PostLines(o) /\ PostRange(bare) = PostRange(o)
  <2>1. bare.posts = o.posts
    BY <1>3, <1>4
  <2> QED BY <2>1 DEF PostLines, PostRange, Created, PostsOf
<1> DEFINE counts == [channels |-> Len(o.channels), posts |-> PostLines(o), users |-> Len(o.users),
                      emojis |-> Len(o.emojis), attachments |-> 0]
           range == IF PostRange(o) = <<>> THEN m.range ELSE PostRange(o)
           operator == AnonOperator(b, m.operator)
<1>6. manifest = [m EXCEPT !.counts = counts, !.range = range, !.operator = operator, !.url = ""]
  <2>1. bare.channels = o.channels /\ bare.users = o.users /\ bare.emojis = o.emojis
    BY <1>3, <1>4
  <2>2. counts = [channels |-> Len(bare.channels), posts |-> PostLines(bare),
                  users |-> Len(bare.users), emojis |-> Len(bare.emojis), attachments |-> 0]
    BY <1>5, <2>1
  <2>3. range = IF PostRange(bare) = <<>> THEN m.range ELSE PostRange(bare)
    BY <1>5
  <2> HIDE DEF counts, range, operator
  <2>4. manifest = [m EXCEPT
          !.counts = [channels |-> Len(bare.channels), posts |-> PostLines(bare),
                      users |-> Len(bare.users), emojis |-> Len(bare.emojis), attachments |-> 0],
          !.range = IF PostRange(bare) = <<>> THEN m.range ELSE PostRange(bare),
          !.operator = operator, !.url = ""]
    BY DEF manifest, AnonManifest, operator, s
  <2> QED BY <2>2, <2>3, <2>4
<1>7. m = [readable |-> m.readable, counts |-> m.counts, range |-> m.range, joined |-> m.joined,
           joinedList |-> m.joinedList, operator |-> m.operator, url |-> m.url]
  BY DEF IsManifest, s
<1> HIDE DEF counts, range, operator, m
<1>8. manifest = [readable |-> m.readable, counts |-> counts, range |-> range,
                  joined |-> m.joined, joinedList |-> m.joinedList, operator |-> operator, url |-> ""]
  BY <1>6, <1>7
<1>9. o.manifest = manifest
  BY <1>4
<1>10. /\ o = [posts |-> AllNewPosts(b), users |-> NewUsers(b), files |-> NewFiles(b),
               emojis |-> NewEmojis(b), channels |-> b.src.channels, blobs |-> {}, avatars |-> {},
               stray |-> b.src.stray, manifest |-> o.manifest]
  BY <1>4, <1>9 DEF posts, users, emojis, files, s
<1>11. o.manifest = [readable |-> m.readable, counts |-> counts, range |-> range,
              joined |-> m.joined, joinedList |-> m.joinedList, operator |-> operator, url |-> ""]
  BY <1>8, <1>9
<1> QED BY <1>10, <1>11 DEF counts, range, operator, m, o, s

\* The identifiers of its users are those of the table, one row for each.
LEMMA NewUsersAre ==
  ASSUME NEW b, GoodBasis(b), \A n \in Nat : IdentitiesDiffer(n)
  PROVE  LET users == NewUsers(b) IN
         /\ AreUsers(users) /\ Len(users) = Len(b.src.users) /\ Distinct(users)
         /\ Ids(users) = {b.table[id].uid : id \in DOMAIN b.table}
         /\ {u.username : u \in ToSet(users)} = {b.table[id].username : id \in DOMAIN b.table}
         /\ \A u \in ToSet(users) : /\ ~ u.avatar /\ ~ u.email
                                    /\ u.names \subseteq Pseudonymes(Len(users))
<1> DEFINE old == b.src.users
           table == b.table
           sorted == Sorted(old, table)
           R == ToSet(old)
           N == [u \in R |-> AnonUser(b, u)]
           users == NewUsers(b)
<1>1. AreRows(old) /\ Distinct(old)
  BY PartsOfArchive DEF GoodBasis, WellFormed, UsersWell, AreUsers
<1>2. PICK order : Ranks(order, table, Ids(old), Len(old))
  BY TableIs
<1>3. sorted \in Seq(R) /\ Len(sorted) = Len(old) /\ ToSet(sorted) = R /\ Distinct(sorted)
  <2> HIDE DEF old, table
  <2> QED BY <1>1, <1>2, SortedRows
<1>4. DOMAIN table = Ids(old) /\ \A id \in DOMAIN table : \E i \in 1..Len(old) : table[id] = Identity(i)
  BY TableIs
<1>5. \A x, y \in DOMAIN table : table[x].uid = table[y].uid => x = y
  BY UidsDiffer
<1>6. \A u \in R : N[u] = [id |-> table[u.id].uid, username |-> table[u.id].username,
                           names |-> {table[u.id].pseudonyme}, avatar |-> FALSE,
                           email |-> FALSE]
  BY DEF AnonUser
<1>61. ASSUME NEW u \in R
       PROVE  /\ N[u].id = table[u.id].uid /\ N[u].username = table[u.id].username
              /\ N[u].names = {table[u.id].pseudonyme} /\ N[u].avatar = FALSE
              /\ N[u].email = FALSE /\ IsUser(N[u])
  <2> DEFINE uid == table[u.id].uid
             name == table[u.id].username
             names == {table[u.id].pseudonyme}
  <2>1. N[u] = [id |-> uid, username |-> name, names |-> names, avatar |-> FALSE, email |-> FALSE]
    BY <1>6
  <2> HIDE DEF uid, name, names, N
  <2>2. N[u].id = uid /\ N[u].username = name /\ N[u].names = names
    BY <2>1
  <2>3. N[u].avatar = FALSE /\ N[u].email = FALSE
    BY <2>1
  <2>4. IsUser(N[u])
    BY <2>1, <2>2, <2>3 DEF IsUser
  <2> QED BY <2>2, <2>3, <2>4 DEF uid, name, names
<1>7. \A u \in R : u.id \in DOMAIN table
  BY <1>4 DEF Ids
<1>8. users = Mapped(sorted, N)
  <2> HIDE DEF sorted, N
  <2>1. users = [i \in DOMAIN sorted |-> AnonUser(b, sorted[i])]
    BY DEF NewUsers, sorted, old
  <2>2. \A i \in DOMAIN sorted : sorted[i] \in R
    BY <1>3 DEF ToSet
  <2>3. \A i \in DOMAIN sorted : N[sorted[i]] = AnonUser(b, sorted[i])
    BY <2>2 DEF N
  <2> QED BY <2>1, <2>3 DEF Mapped
<1>9. DOMAIN table = {u.id : u \in R}
  BY <1>4 DEF Ids
<1> HIDE DEF old, table, sorted, R, N, users
<1>10. users \in Seq({N[u] : u \in R}) /\ Len(users) = Len(old) /\ ToSet(users) = {N[u] : u \in R}
  <2> DEFINE S == {N[u] : u \in R}
  <2>1. \A u \in R : N[u] \in S
    OBVIOUS
  <2> HIDE DEF S
  <2>2. Mapped(sorted, N) \in Seq(S) /\ Len(Mapped(sorted, N)) = Len(sorted)
        /\ ToSet(Mapped(sorted, N)) = {N[u] : u \in ToSet(sorted)}
    BY <1>3, <2>1, MappedIsSeq
  <2> QED BY <1>3, <1>8, <2>2 DEF S
<1>11. AreUsers(users)
  <2>1. AreRows(users)
    BY <1>10, SequencesAreRows
  <2>2. \A u \in R : IsUser(N[u])
    BY <1>61
  <2> QED BY <1>10, <2>1, <2>2 DEF AreUsers
<1>12. Distinct(users)
  <2>1. ASSUME NEW x \in R, NEW y \in R, N[x].id = N[y].id PROVE x.id = y.id
    <3>1. table[x.id].uid = table[y.id].uid
      BY <1>61, <2>1
    <3> QED BY <1>5, <1>7, <3>1
  <2> QED BY <1>3, <1>8, <2>1, DistinctMapped
<1>13. Ids(users) = {table[id].uid : id \in DOMAIN table}
  <2>1. Ids(users) = {N[u].id : u \in R}
    BY <1>10 DEF Ids
  <2>2. {N[u].id : u \in R} = {table[u.id].uid : u \in R}
    BY <1>61
  <2> QED BY <1>9, <2>1, <2>2
<1>14. {u.username : u \in ToSet(users)} = {table[id].username : id \in DOMAIN table}
  <2>1. {u.username : u \in ToSet(users)} = {N[u].username : u \in R}
    BY <1>10
  <2>2. {N[u].username : u \in R} = {table[u.id].username : u \in R}
    BY <1>61
  <2> QED BY <1>9, <2>1, <2>2
<1>15. \A u \in ToSet(users) : ~ u.avatar /\ ~ u.email /\ u.names \subseteq Pseudonymes(Len(users))
  <2> SUFFICES ASSUME NEW u \in R PROVE ~ N[u].avatar /\ ~ N[u].email /\ N[u].names \subseteq Pseudonymes(Len(old))
    BY <1>10
  <2>1. N[u].avatar = FALSE /\ N[u].email = FALSE /\ N[u].names = {table[u.id].pseudonyme}
    BY <1>61
  <2>2. PICK i \in 1..Len(old) : table[u.id] = Identity(i)
    BY <1>4, <1>7
  <2> QED BY <2>1, <2>2 DEF Pseudonymes
<1> QED BY <1>10, <1>11, <1>12, <1>13, <1>14, <1>15 DEF users, old, table

\* Of posts: each one its image, in the same order.
LEMMA NewPostsAre ==
  ASSUME NEW b, NEW posts, ArePosts(posts), PostsWell(posts)
  PROVE  LET new == NewPosts(b, posts) IN
         /\ ArePosts(new) /\ Distinct(new) /\ InOrder(new)
         /\ ToSet(new) = {AnonPost(b, Res(b), Noms(b), p) : p \in ToSet(posts)}
<1> DEFINE R == ToSet(posts)
           N == [p \in R |-> AnonPost(b, Res(b), Noms(b), p)]
           new == NewPosts(b, posts)
<1>1. posts \in Seq(R)
  BY DEF ArePosts, AreRows
<1>2. \A p \in R : IsPost(p)
  BY DEF ArePosts
<1>3. ASSUME NEW p \in R PROVE N[p].id = p.id /\ N[p].at = p.at /\ IsPost(N[p])
  <2> DEFINE user == Substitute(b, p.user)
             reactors == NewReactors(b, p)
             text == NewText(b, p)
             props == NewProps(b, p)
  <2>1. N[p] = [id |-> p.id, at |-> p.at, user |-> user, reactors |-> reactors,
                files |-> p.files, sys |-> p.sys, text |-> text, props |-> props]
    BY <1>2, AnonPostIs
  <2> HIDE DEF user, reactors, text, props, N
  <2> QED BY <2>1 DEF IsPost
<1>4. new = Mapped(posts, N)
  <2>1. \A i \in DOMAIN posts : posts[i] \in R
    BY DEF ToSet
  <2> HIDE DEF R
  <2>2. \A i \in DOMAIN posts : N[posts[i]] = AnonPost(b, Res(b), Noms(b), posts[i])
    BY <2>1
  <2> HIDE DEF N
  <2> QED BY <2>2 DEF Mapped, NewPosts
<1>5. {N[p] : p \in R} = {AnonPost(b, Res(b), Noms(b), p) : p \in R}
  OBVIOUS
<1>6. Distinct(posts) /\ InOrder(posts)
  BY DEF PostsWell
<1> HIDE DEF N, R, new
<1>7. /\ Mapped(posts, N) \in Seq({N[p] : p \in R}) /\ ToSet(Mapped(posts, N)) = {N[p] : p \in R}
  <2> DEFINE S == {N[p] : p \in R}
  <2>1. \A p \in R : N[p] \in S
    OBVIOUS
  <2> HIDE DEF S
  <2>2. Mapped(posts, N) \in Seq(S) /\ ToSet(Mapped(posts, N)) = {N[p] : p \in ToSet(posts)}
    BY <1>1, <2>1, MappedIsSeq
  <2> QED BY <2>2 DEF S, R
<1>8. ArePosts(new)
  BY <1>3, <1>4, <1>7, SequencesAreRows DEF ArePosts
<1>9. Distinct(new)
  <2>1. \A x, y \in ToSet(posts) : N[x].id = N[y].id => x.id = y.id
    BY <1>3 DEF R
  <2> QED BY <1>1, <1>4, <1>6, <2>1, DistinctMapped
<1>10. InOrder(new)
  <2>1. \A x \in ToSet(posts) : N[x].at = x.at
    BY <1>3 DEF R
  <2> QED BY <1>1, <1>4, <1>6, <2>1, InOrderMapped
<1> QED BY <1>4, <1>5, <1>7, <1>8, <1>9, <1>10 DEF new, R

\* Of attachments: each one described still, by its place, without name or binary.
LEMMA NewFilesAre ==
  ASSUME NEW b, AreFiles(b.src.files), Distinct(b.src.files)
  PROVE  LET new == NewFiles(b) IN
         /\ AreFiles(new) /\ Distinct(new) /\ Ids(new) = Ids(b.src.files)
         /\ \A g \in ToSet(new) :
              /\ g.path = FALSE
              /\ \E i \in DOMAIN b.src.files : g.name = Label(i, b.src.files[i].ext)
              /\ \E x : g.user = Substitute(b, x)
<1> DEFINE files == b.src.files
           n == Len(files)
           new == NewFiles(b)
<1>1. n \in Nat /\ DOMAIN files = 1..n
  BY LenProperties DEF AreFiles, AreRows
<1>2. DOMAIN new = DOMAIN files /\ \A i \in DOMAIN files : new[i] = AnonFile(b, files[i], i)
  BY DEF NewFiles
<1>3. ASSUME NEW i \in DOMAIN files
      PROVE  /\ new[i].id = files[i].id /\ new[i].path = FALSE
             /\ new[i].name = Label(i, files[i].ext)
             /\ new[i].user = Substitute(b, files[i].user) /\ IsFile(new[i])
  <2> DEFINE f == files[i]
             g == new[i]
             user == Substitute(b, f.user)
             name == Label(i, f.ext)
  <2>1. f = [id |-> f.id, user |-> f.user, path |-> f.path, name |-> f.name, ext |-> f.ext]
    BY DEF AreFiles, IsFile, ToSet
  <2>2. g = [f EXCEPT !.user = user, !.path = FALSE, !.name = name]
    BY <1>2 DEF AnonFile
  <2> HIDE DEF user, name, f, g
  <2>3. g = [id |-> f.id, user |-> user, path |-> FALSE, name |-> name, ext |-> f.ext]
    BY <2>1, <2>2
  <2>4. g.id = f.id /\ g.path = FALSE /\ g.name = name /\ g.user = user /\ IsFile(g)
    BY <2>3 DEF IsFile
  <2> QED BY <2>4 DEF user, name, f, g
<1>4. new = [i \in 1..n |-> new[i]]
  BY <1>1 DEF NewFiles
<1> HIDE DEF new, files, n
<1>5. DOMAIN new = 1..n /\ ToSet(new) = {new[i] : i \in 1..n}
  BY <1>1, <1>2 DEF ToSet
<1>6. new \in Seq(ToSet(new))
  BY <1>1, <1>4, <1>5, IsASeq
<1>7. AreFiles(new)
  BY <1>1, <1>3, <1>5, <1>6 DEF AreFiles, AreRows
<1>8. Distinct(new)
  BY <1>1, <1>3, <1>5 DEF Distinct, files
<1>9. Ids(new) = Ids(files)
  <2>1. Ids(new) = {new[i].id : i \in 1..n}
    BY <1>5 DEF Ids
  <2>2. Ids(files) = {files[i].id : i \in 1..n}
    BY <1>1 DEF Ids, ToSet
  <2>3. \A i \in 1..n : new[i].id = files[i].id
    BY <1>1, <1>3
  <2> QED BY <2>1, <2>2, <2>3
<1>10. ASSUME NEW g \in ToSet(new)
       PROVE  /\ g.path = FALSE
              /\ \E i \in DOMAIN files : g.name = Label(i, files[i].ext)
              /\ \E x : g.user = Substitute(b, x)
  <2>1. PICK i \in 1..n : g = new[i]
    BY <1>5
  <2> QED BY <1>1, <1>3, <2>1
<1> QED BY <1>7, <1>8, <1>9, <1>10 DEF new, files

LEMMA NewEmojisAre ==
  ASSUME NEW b, AreRows(b.src.emojis), \A e \in ToSet(b.src.emojis) : IsEmoji(e)
  PROVE  /\ Len(NewEmojis(b)) = Len(b.src.emojis)
         /\ \A e \in ToSet(NewEmojis(b)) : \E x : e.user = Substitute(b, x)
<1> DEFINE emojis == b.src.emojis
           R == ToSet(emojis)
           N == [e \in R |-> AnonEmoji(b, e)]
<1>1. emojis \in Seq(R)
  BY DEF AreRows
<1>2. ASSUME NEW e \in R PROVE N[e].user = Substitute(b, e.user)
  <2> DEFINE user == Substitute(b, e.user)
  <2>1. e = [id |-> e.id, user |-> e.user] /\ N[e] = [e EXCEPT !.user = user]
    BY DEF IsEmoji, AnonEmoji
  <2> HIDE DEF user, N
  <2>2. N[e].user = user
    BY <2>1
  <2> QED BY <2>2 DEF user
<1>3. NewEmojis(b) = Mapped(emojis, N)
  <2>1. \A i \in DOMAIN emojis : emojis[i] \in R
    BY DEF ToSet
  <2>2. NewEmojis(b) = [i \in DOMAIN emojis |-> AnonEmoji(b, emojis[i])]
    BY DEF NewEmojis
  <2> HIDE DEF R, emojis
  <2>3. \A i \in DOMAIN emojis : N[emojis[i]] = AnonEmoji(b, emojis[i])
    BY <2>1
  <2> HIDE DEF N
  <2> QED BY <2>2, <2>3 DEF Mapped
<1> HIDE DEF N, emojis
<1>4. Len(Mapped(emojis, N)) = Len(emojis) /\ ToSet(Mapped(emojis, N)) = {N[e] : e \in ToSet(emojis)}
  <2> DEFINE S == {N[e] : e \in R}
  <2>1. \A e \in R : N[e] \in S
    OBVIOUS
  <2> HIDE DEF S, R
  <2>2. Mapped(emojis, N) \in Seq(S) /\ Len(Mapped(emojis, N)) = Len(emojis)
        /\ ToSet(Mapped(emojis, N)) = {N[e] : e \in ToSet(emojis)}
    BY <1>1, <2>1, MappedIsSeq
  <2> QED BY <2>2
<1> QED BY <1>2, <1>3, <1>4 DEF emojis

\* The parts of what an anonymization starts from.
LEMMA BasisParts ==
  ASSUME NEW b, GoodBasis(b)
  PROVE  LET s == b.src IN
         /\ IsArchive(s) /\ RestWell(s.channels, s.emojis, s.manifest, DOMAIN s.posts)
         /\ \A c \in DOMAIN s.posts : ArePosts(s.posts[c]) /\ PostsWell(s.posts[c])
         /\ AreUsers(s.users) /\ Distinct(s.users) /\ AreFiles(s.files) /\ Distinct(s.files)
  BY PartsOfArchive DEF GoodBasis, WellFormed, UsersWell

\* What replaces a reference is nothing, or an account of the output.
LEMMA ReplacedByRow ==
  ASSUME NEW b, GoodBasis(b), \A n \in Nat : IdentitiesDiffer(n), NEW x
  PROVE  Substitute(b, x) = "" \/ Substitute(b, x) \in Ids(NewUsers(b))
<1>1. Ids(NewUsers(b)) = {b.table[id].uid : id \in DOMAIN b.table}
  BY NewUsersAre
<1> QED BY <1>1 DEF Substitute

\* The files of the output.
LEMMA ProducedParts ==
  ASSUME NEW b, GoodBasis(b)
  PROVE  LET o == Produced(b) IN
         /\ o.users = NewUsers(b) /\ o.files = NewFiles(b) /\ o.emojis = NewEmojis(b)
         /\ o.channels = b.src.channels
         /\ DOMAIN o.posts = DOMAIN b.src.posts
         /\ \A c \in DOMAIN o.posts : o.posts[c] = NewPosts(b, b.src.posts[c])
<1> DEFINE o == Produced(b)
<1>1. IsArchive(b.src) /\ IsManifest(b.src.manifest)
  BY BasisParts DEF RestWell
<1>2. o = [posts |-> AllNewPosts(b), users |-> NewUsers(b), files |-> NewFiles(b),
           emojis |-> NewEmojis(b), channels |-> b.src.channels, blobs |-> {}, avatars |-> {},
           stray |-> b.src.stray, manifest |-> o.manifest]
  BY <1>1, ProducedIs
<1> HIDE DEF o
<1>3. o.users = NewUsers(b) /\ o.files = NewFiles(b) /\ o.emojis = NewEmojis(b)
      /\ o.channels = b.src.channels /\ o.posts = AllNewPosts(b)
  BY <1>2
<1> QED BY <1>3 DEF AllNewPosts, o

LEMMA ProducedPosts ==
  ASSUME NEW b, GoodBasis(b), NEW g \in PostsOf(Produced(b))
  PROVE  \E p \in PostsOf(b.src) : /\ IsPost(p) /\ PostIsFilled(p)
           /\ g = [id |-> p.id, at |-> p.at, user |-> Substitute(b, p.user),
                   reactors |-> NewReactors(b, p), files |-> p.files, sys |-> p.sys,
                   text |-> NewText(b, p), props |-> NewProps(b, p)]
<1> DEFINE o == Produced(b)
           s == b.src
<1>1. PICK c \in DOMAIN o.posts : g \in ToSet(o.posts[c])
  BY DEF PostsOf
<1>2. c \in DOMAIN s.posts /\ g \in ToSet(NewPosts(b, s.posts[c]))
  BY <1>1, ProducedParts
<1>3. ArePosts(s.posts[c]) /\ PostsWell(s.posts[c])
  BY <1>2, BasisParts
<1>4. PICK p \in ToSet(s.posts[c]) : g = AnonPost(b, Res(b), Noms(b), p)
  <2> DEFINE posts == s.posts[c]
  <2> HIDE DEF posts
  <2>1. ToSet(NewPosts(b, posts)) = {AnonPost(b, Res(b), Noms(b), p) : p \in ToSet(posts)}
    BY <1>3, NewPostsAre DEF posts
  <2> QED BY <1>2, <2>1 DEF posts
<1>5. p \in PostsOf(s) /\ IsPost(p) /\ PostIsFilled(p)
  BY <1>2, <1>3 DEF PostsOf, ArePosts, PostsWell
<1> HIDE DEF o, s
<1> QED BY <1>4, <1>5, AnonPostIs DEF s

\* References are to rows of the output.
LEMMA ProducedReferences ==
  ASSUME NEW b, GoodBasis(b), \A n \in Nat : IdentitiesDiffer(n), NEW g \in PostsOf(Produced(b))
  PROVE  /\ g.user = "" \/ g.user \in Ids(NewUsers(b))
         /\ g.reactors \subseteq Ids(NewUsers(b))
<1>1. PICK p \in PostsOf(b.src) :
         g = [id |-> p.id, at |-> p.at, user |-> Substitute(b, p.user),
              reactors |-> NewReactors(b, p), files |-> p.files, sys |-> p.sys,
              text |-> NewText(b, p), props |-> NewProps(b, p)]
  BY ProducedPosts
<1>2. g.user = Substitute(b, p.user) /\ g.reactors = NewReactors(b, p)
  BY <1>1
<1>3. Ids(NewUsers(b)) = {b.table[id].uid : id \in DOMAIN b.table}
  BY NewUsersAre
<1> QED BY <1>2, <1>3, ReplacedByRow DEF NewReactors

\* No row of the output names a binary.
LEMMA NoBinaries ==
  ASSUME NEW b, GoodBasis(b)
  PROVE  ToSet(WithBlob(Produced(b))) = {} /\ Len(WithBlob(Produced(b))) = 0
<1> DEFINE o == Produced(b)
           rows == WithBlob(o)
           K == {f \in ToSet(o.files) : f.path}
<1>1. AreFiles(o.files) /\ \A f \in ToSet(o.files) : f.path = FALSE
  BY ProducedParts, BasisParts, NewFilesAre
<1> HIDE DEF o
<1>2. ToSet(rows) = {}
  BY <1>1, WithBlobRows
<1>3. rows \in Seq(ToSet(o.files))
  <2>1. o.files \in Seq(ToSet(o.files)) /\ K \subseteq ToSet(o.files)
    BY <1>1 DEF AreFiles, AreRows
  <2>2. rows = Those(o.files, K)
    BY DEF WithBlob
  <2> HIDE DEF rows, K
  <2> QED BY <2>1, <2>2, ThoseAreRows
<1> HIDE DEF rows
<1>4. Len(rows) \in Nat /\ DOMAIN rows = 1..Len(rows)
  BY <1>3, LenProperties
<1>5. Len(rows) = 0
  <2> SUFFICES ASSUME Len(rows) # 0 PROVE FALSE
    OBVIOUS
  <2>1. 1 \in DOMAIN rows
    BY <1>4
  <2> QED BY <1>2, <2>1 DEF ToSet
<1> QED BY <1>2, <1>5 DEF rows, o

\* What the manifest of the output says is what is counted in its files.
LEMMA ProducedManifest ==
  ASSUME NEW b, GoodBasis(b), \A n \in Nat : IdentitiesDiffer(n)
  PROVE  LET o == Produced(b) IN
         /\ o.manifest.readable = b.src.manifest.readable
         /\ ManifestErrors(o) = {}
         /\ o.manifest.operator = AnonOperator(b, b.src.manifest.operator) /\ o.manifest.url = ""
<1> DEFINE o == Produced(b)
           m == b.src.manifest
           n == o.manifest
           range == IF PostRange(o) = <<>> THEN m.range ELSE PostRange(o)
           counts == [channels |-> Len(o.channels), posts |-> PostLines(o), users |-> Len(o.users),
                      emojis |-> Len(o.emojis), attachments |-> 0]
           operator == AnonOperator(b, m.operator)
<1>1. IsArchive(b.src) /\ RestWell(b.src.channels, b.src.emojis, m, DOMAIN b.src.posts)
  BY BasisParts
<1>2. n = [readable |-> m.readable, counts |-> counts, range |-> range, joined |-> m.joined,
           joinedList |-> m.joinedList, operator |-> operator, url |-> ""]
  BY <1>1, ProducedIs DEF RestWell
<1>3. o.users = NewUsers(b) /\ o.emojis = NewEmojis(b) /\ o.channels = b.src.channels
  BY ProducedParts
<1>4. Cardinality(Ids(o.users)) = Len(o.users)
  <2>1. AreUsers(o.users) /\ Distinct(o.users)
    BY <1>3, NewUsersAre
  <2> QED BY <2>1, DistinctRows DEF AreUsers, Repeats
<1>5. Cardinality(Ids(o.channels)) = Len(o.channels)
  BY <1>1, <1>3 DEF RestWell, Repeats
<1>6. Len(WithBlob(o)) = 0
  BY NoBinaries
<1>7. m.joined = Len(m.joinedList)
  BY <1>1 DEF RestWell
<1> HIDE DEF o, m, n, operator
<1>8. Counted(o) = counts
  BY <1>4, <1>5, <1>6 DEF Counted
<1> HIDE DEF counts, range
<1>9. n.counts = Counted(o) /\ n.range = range /\ n.joined = Len(n.joinedList)
      /\ n.readable = m.readable /\ n.operator = operator /\ n.url = ""
  BY <1>2, <1>7, <1>8
<1>10. PostRange(o) # <<>> => n.range = PostRange(o)
  BY <1>9 DEF range
<1>11. ManifestErrors(o) = {}
  BY <1>9, <1>10 DEF ManifestErrors, n
<1> QED BY <1>9, <1>11 DEF n, m, operator, o

\* verify accepts the output, whatever it would say of the source, but for the
\* attachments that the source does not describe.
LEMMA ProducedVerifies ==
  ASSUME NEW b, GoodBasis(b), \A n \in Nat : IdentitiesDiffer(n), b.src.manifest.readable
  PROVE  Verify(Produced(b)) \subseteq Verify(b.src) \cap {"toute piece jointe est decrite"}
<1> DEFINE o == Produced(b)
           s == b.src
<1>0. /\ o.users = NewUsers(b) /\ o.files = NewFiles(b) /\ o.channels = s.channels
      /\ DOMAIN o.posts = DOMAIN s.posts
      /\ \A c \in DOMAIN o.posts : o.posts[c] = NewPosts(b, s.posts[c])
  BY ProducedParts
<1>1. /\ RestWell(s.channels, s.emojis, s.manifest, DOMAIN s.posts)
      /\ \A c \in DOMAIN s.posts : ArePosts(s.posts[c]) /\ PostsWell(s.posts[c])
      /\ AreUsers(s.users) /\ Distinct(s.users) /\ AreFiles(s.files) /\ Distinct(s.files)
  BY BasisParts
<1>2. ManifestErrors(o) = {} /\ o.manifest.readable = s.manifest.readable
  BY ProducedManifest
<1>3. ~ Repeats(o.users) /\ ~ Repeats(o.files) /\ Ids(o.files) = Ids(s.files)
  <2>1. AreUsers(o.users) /\ Distinct(o.users)
    BY <1>0, NewUsersAre
  <2>2. AreFiles(o.files) /\ Distinct(o.files) /\ Ids(o.files) = Ids(s.files)
    BY <1>0, <1>1, NewFilesAre
  <2> QED BY <2>1, <2>2, DistinctRows DEF AreUsers, AreFiles
<1>4. BlobErrors(o) = {}
  BY NoBinaries DEF BlobErrors
<1>5. \A p \in PostsOf(o) : p.user = "" \/ p.user \in Ids(o.users)
  BY <1>0, ProducedReferences
<1>6. ASSUME NEW c \in DOMAIN o.posts PROVE InOrder(o.posts[c]) /\ ~ Repeats(o.posts[c])
  <2> DEFINE posts == s.posts[c]
  <2>1. ArePosts(posts) /\ PostsWell(posts) /\ o.posts[c] = NewPosts(b, posts)
    BY <1>0, <1>1
  <2> HIDE DEF posts
  <2>2. ArePosts(NewPosts(b, posts)) /\ Distinct(NewPosts(b, posts)) /\ InOrder(NewPosts(b, posts))
    BY <2>1, NewPostsAre
  <2> QED BY <2>1, <2>2, DistinctRows DEF ArePosts
<1>7. \A g \in PostsOf(o) : \E p \in PostsOf(s) : g.files = p.files
  BY ProducedPosts
<1> HIDE DEF o, s
<1>8. ChannelErrors(o) = {} /\ DOMAIN o.posts \subseteq Ids(o.channels)
  BY <1>0, <1>1 DEF RestWell, ChannelErrors
<1>9. PostErrors(o) \subseteq {"toute piece jointe est decrite"}
  BY <1>5, <1>6, <1>8, PostErrorsAre
<1>10. "toute piece jointe est decrite" \in PostErrors(o)
          => "toute piece jointe est decrite" \in PostErrors(s)
  BY <1>3, <1>7, PostErrorsAre
<1>11. Verify(o) = PostErrors(o)
  BY <1>2, <1>3, <1>4, <1>8 DEF Verify, RowErrors, s
<1>12. PostErrors(s) \subseteq Verify(s)
  BY DEF Verify, s
<1> QED BY <1>9, <1>10, <1>11, <1>12 DEF o, s

(*------------------------ what the control looks for ---------------------*)
LEMMA MaxOfSome ==
  ASSUME NEW n \in Nat, NEW S, S \subseteq 1..n, S # {}
  PROVE  Max(S) \in S /\ \A y \in S : y <= Max(S)
<1> DEFINE B == {m \in Nat : \A x \in S : x <= m}
<1>1. n \in B
  OBVIOUS
<1>2. PICK m \in B : \A k \in B : m <= k
  <2>1. B \subseteq Nat /\ B # {}
    BY <1>1
  <2> HIDE DEF B
  <2> QED BY <2>1, LeastNatural
<1>3. m \in S
  <2> SUFFICES ASSUME m \notin S PROVE FALSE
    OBVIOUS
  <2>1. PICK x \in S : x <= m
    BY <1>2
  <2>2. m - 1 \in Nat /\ \A y \in S : y <= m - 1
    BY <1>2, <2>1
  <2>3. m - 1 \in B
    BY <2>2
  <2> QED BY <1>2, <2>3
<1>4. \E x \in S : \A y \in S : x >= y
  BY <1>2, <1>3
<1>5. Max(S) \in S /\ \A y \in S : Max(S) >= y
  BY <1>4 DEF Max
<1> QED BY <1>5

\* An account is found by its identifier, and by its name.
LEMMA ResolverIs ==
  ASSUME NEW b, GoodBasis(b)
  PROVE  /\ Res(b).ids = b.table
         /\ DOMAIN Res(b).names = Known(b.src)
         /\ \A n \in Known(b.src) : \E id \in DOMAIN b.table : Res(b).names[n] = b.table[id]
         /\ Res(b).emis = {b.table[id].username : id \in DOMAIN b.table}
<1> DEFINE users == b.src.users
           table == b.table
           Rows(n) == {i \in DOMAIN users : users[i].username = n}
           known == {u.username : u \in ToSet(users)} \ {""}
           names == [n \in known |-> table[users[Max(Rows(n))].id]]
           emis == {table[id].username : id \in DOMAIN table}
<1>1. Res(b) = [ids |-> table, names |-> names, emis |-> emis]
  BY DEF Res, Resolver
<1>2. AreUsers(users) /\ DOMAIN table = Ids(users)
  BY BasisParts, TableIs
<1>3. Len(users) \in Nat /\ DOMAIN users = 1..Len(users)
  BY <1>2, LenProperties DEF AreUsers, AreRows
<1>4. ASSUME NEW n \in known PROVE \E id \in DOMAIN table : names[n] = table[id]
  <2>1. \E i \in DOMAIN users : users[i].username = n
    BY <1>4 DEF ToSet
  <2>2. Rows(n) \subseteq 1..Len(users) /\ Rows(n) # {}
    BY <1>3, <2>1
  <2>3. Max(Rows(n)) \in DOMAIN users
    <3> DEFINE S == Rows(n)
    <3>1. \A x \in S : x \in DOMAIN users
      OBVIOUS
    <3> HIDE DEF S
    <3>2. Max(S) \in S
      BY <1>3, <2>2, MaxOfSome DEF S
    <3> QED BY <3>1, <3>2 DEF S
  <2> DEFINE i == Max(Rows(n))
  <2>4. names[n] = table[users[i].id]
    OBVIOUS
  <2> HIDE DEF names, i, table, users
  <2>5. users[i].id \in DOMAIN table
    BY <1>2, <2>3 DEF Ids, ToSet, i
  <2> QED BY <2>4, <2>5
<1>5. known = Known(b.src)
  BY DEF Known
<1> HIDE DEF known, emis, table
<1>6. DOMAIN names = known
  OBVIOUS
<1> HIDE DEF names
<1>7. Res(b).ids = table /\ Res(b).names = names /\ Res(b).emis = emis
  BY <1>1
<1> QED BY <1>4, <1>5, <1>6, <1>7 DEF table, emis

\* No account, in the archive or renamed since, has a substitute for name.
LEMMA SubstitutesAreNew ==
  ASSUME NEW b, GoodBasis(b), NEW n, NewSubstitutes(n)
  PROVE  (Ids(b.src.users) \cup OldNames(b.src)) \cap Substitutes(n) = {}
<1> DEFINE s == b.src
           new == Substitutes(n)
<1>1. PICK a \in Sources : \A u \in ToSet(s.users) : u \in ToSet(a.users) \/ Renamed(u)
  BY DEF GoodBasis
<1>2. (Ids(a.users) \cup OldNames(a)) \cap new = {} /\ \A q \in Requests : Pseudonym(q.user) \notin new
  BY DEF NewSubstitutes
<1> HIDE DEF s, new
<1>3. ASSUME NEW u \in ToSet(s.users)
      PROVE  /\ u.id \notin new /\ (u.username # "" => u.username \notin new)
             /\ \A f \in u.names : f \notin new
  <2>1. CASE u \in ToSet(a.users)
    <3>1. u.id \in Ids(a.users)
      BY <2>1 DEF Ids
    <3>2. u.username # "" => u.username \in OldNames(a)
      BY <2>1 DEF OldNames, Known
    <3>3. u.names \subseteq OldNames(a)
      BY <2>1 DEF OldNames
    <3> QED BY <1>2, <3>1, <3>2, <3>3
  <2>2. CASE Renamed(u)
    BY <1>2, <2>2 DEF Renamed
  <2> QED BY <1>1, <2>1, <2>2
<1>4. \A x \in Ids(s.users) : x \notin new
  BY <1>3 DEF Ids
<1>5. \A x \in OldNames(s) : x \notin new
  BY <1>3 DEF OldNames, Known
<1> QED BY <1>4, <1>5 DEF s, new

\* The operator becomes nobody, or an account of the output.
LEMMA OperatorIsNew ==
  ASSUME NEW b, GoodBasis(b), \A n \in Nat : IdentitiesDiffer(n), NEW who
  PROVE  LET o == AnonOperator(b, who) IN
         /\ o.id = "" \/ o.id \in Ids(NewUsers(b))
         /\ o.name = "" \/ o.name \in {u.username : u \in ToSet(NewUsers(b))}
<1> DEFINE o == AnonOperator(b, who)
           uids == Ids(NewUsers(b))
           names == {u.username : u \in ToSet(NewUsers(b))}
<1>1. /\ uids = {b.table[id].uid : id \in DOMAIN b.table}
      /\ names = {b.table[id].username : id \in DOMAIN b.table}
  BY NewUsersAre
<1>2. \A m \in DOMAIN Res(b).names : \E id \in DOMAIN b.table : Res(b).names[m] = b.table[id]
  BY ResolverIs
<1>3. \/ o = [id |-> "", name |-> ""]
      \/ \E id \in DOMAIN b.table : o = Signature(b.table[id])
  BY <1>2 DEF AnonOperator
<1> HIDE DEF o, uids, names
<1>4. CASE o = [id |-> "", name |-> ""]
  <2>1. \A e : [id |-> e, name |-> e].id = e /\ [id |-> e, name |-> e].name = e
    OBVIOUS
  <2> QED BY <1>4, <2>1, Zenon DEF o, uids, names
<1>5. ASSUME NEW id \in DOMAIN b.table, o = Signature(b.table[id])
      PROVE  o.id \in uids /\ o.name \in names
  BY <1>1, <1>5 DEF Signature
<1> QED BY <1>3, <1>4, <1>5 DEF o, uids, names

\* What a prop becomes refers to an account of the output.
LEMMA ReducedPropsAre ==
  ASSUME NEW b, GoodBasis(b), \A n \in Nat : IdentitiesDiffer(n), NEW p
  PROVE  LET props == NewProps(b, p)
             uids == Ids(NewUsers(b))
             names == {u.username : u \in ToSet(NewUsers(b))} IN
         \A k \in DOMAIN props :
           /\ k \in IdKeys => props[k] \in uids
           /\ k \in NameKeys => props[k] \in names
           /\ k \in ListKeys => props[k] \subseteq uids
           /\ k \in PolymorphicKeys => props[k] \in uids \cup names
<1> DEFINE r == Res(b)
           props == NewProps(b, p)
           uids == Ids(NewUsers(b))
           names == {u.username : u \in ToSet(NewUsers(b))}
           Value(k) == Resolved(k, p.props[k], r)
<1>1. /\ r.ids = b.table
      /\ \A n \in DOMAIN r.names : \E id \in DOMAIN b.table : r.names[n] = b.table[id]
  BY ResolverIs
<1>2. /\ uids = {b.table[id].uid : id \in DOMAIN b.table}
      /\ names = {b.table[id].username : id \in DOMAIN b.table}
  BY NewUsersAre
<1>3. DOMAIN props = KeptKeys(p.props, r)
  BY DEF NewProps, ReducedProps
<1>4. \A k \in DOMAIN props : k \in ListKeys =>
         props[k] = {r.ids[id].uid : id \in p.props[k] \cap DOMAIN r.ids}
  BY DEF NewProps, ReducedProps, ListKeys, FlagKeys
<1>5. \A k \in DOMAIN props : k \in IdKeys \cup NameKeys \cup PolymorphicKeys =>
         props[k] = Value(k)
  BY DEF NewProps, ReducedProps, ListKeys, FlagKeys, IdKeys, NameKeys, PolymorphicKeys
<1>6. \A k \in DOMAIN props : k \in IdKeys \cup NameKeys \cup PolymorphicKeys => Value(k) # ""
  BY <1>3 DEF KeptKeys, IdKeys, NameKeys, PolymorphicKeys, ListKeys, FlagKeys
<1>7. \A k, v : LET x == Resolved(k, v, r) IN
         /\ x = "" \/ x \in uids \/ x \in names
         /\ k \in IdKeys /\ x # "" => x \in uids
         /\ k \in NameKeys /\ x # "" => x \in names
  <2> HIDE DEF r, uids, names
  <2> QED BY <1>1, <1>2 DEF Resolved
<1> HIDE DEF r, props, uids, names
<1>8. ASSUME NEW k \in DOMAIN props, k \in ListKeys PROVE props[k] \subseteq uids
  BY <1>1, <1>2, <1>4, <1>8
<1>9. ASSUME NEW k \in DOMAIN props
      PROVE  /\ k \in IdKeys => props[k] \in uids
             /\ k \in NameKeys => props[k] \in names
             /\ k \in PolymorphicKeys => props[k] \in uids \cup names
  BY <1>5, <1>6, <1>7
<1> QED BY <1>8, <1>9 DEF props, uids, names

\* The keys that are kept are in the post, and known.
LEMMA KeptAreKnown ==
  ASSUME NEW props, NEW r
  PROVE  KeptKeys(props, r) \subseteq DOMAIN props \cap DOMAIN KeyForms
<1>1. DOMAIN KeyForms = {"from_webhook", "from_bot", "from_plugin", "disable_group_highlight",
        "remove_link_preview", "userId", "addedUserId", "removedUserId", "created_by", "username",
        "addedUsername", "removedUsername", "participants", "ended_by", "attachments"}
  BY DEF KeyForms
<1>2. FlagKeys \cup IdKeys \cup NameKeys \cup ListKeys \cup PolymorphicKeys \cup {"attachments"}
        \subseteq DOMAIN KeyForms
  BY <1>1 DEF FlagKeys, IdKeys, NameKeys, ListKeys, PolymorphicKeys
<1> QED BY <1>2 DEF KeptKeys

\* The control finds nothing in what a pass writes, unless it is one of the
\* words that the command itself writes.
LEMMA OwnWordsFound ==
  ASSUME NEW b, GoodBasis(b), \A n \in Nat : IdentitiesDiffer(n), ~ OwnWordsClash(b.src)
  PROVE  Findings(Produced(b), b.src) = {}
<1> DEFINE o == Produced(b)
           s == b.src
           uids == NewUids(o)
           B1 == \E u \in ToSet(o.users) : u.avatar \/ u.email
                    \/ ~ (u.names \subseteq Pseudonymes(Len(o.users)))
           B2 == \E e \in ToSet(o.emojis) : BadReference(e.user, uids)
           B3 == \E f \in ToSet(o.files) : BadReference(f.user, uids) \/ Survives(f.name, s)
           B4 == \E p \in PostsOf(o) : BadReference(p.user, uids)
           B5 == \E p \in PostsOf(o) : \E u \in p.reactors : BadReference(u, uids)
           B6 == \E p \in PostsOf(o) : PropsFindings(p, o, s) # {}
           B7 == ManifestFindings(o)
<1>1. /\ o.users = NewUsers(b) /\ o.files = NewFiles(b) /\ o.emojis = NewEmojis(b)
      /\ uids = Ids(NewUsers(b)) /\ NewNames(o) = {u.username : u \in ToSet(NewUsers(b))}
  BY ProducedParts DEF NewUids, NewNames
<1>2. \A x : ~ BadReference(Substitute(b, x), uids)
  BY <1>1, ReplacedByRow DEF BadReference
<1>3. ~ B1
  BY <1>1, NewUsersAre
<1>4. ~ B2
  <2>1. AreRows(s.emojis) /\ \A e \in ToSet(s.emojis) : IsEmoji(e)
    BY BasisParts DEF RestWell
  <2>2. \A e \in ToSet(o.emojis) : \E x : e.user = Substitute(b, x)
    BY <1>1, <2>1, NewEmojisAre
  <2> QED BY <1>2, <2>2
<1>5. ~ B3
  <2>1. \A f \in ToSet(o.files) :
          /\ \E i \in DOMAIN s.files : f.name = Label(i, s.files[i].ext)
          /\ \E x : f.user = Substitute(b, x)
    BY <1>1, BasisParts, NewFilesAre
  <2>2. \A i \in DOMAIN s.files : ~ Survives(Label(i, s.files[i].ext), s)
    BY DEF OwnWordsClash
  <2> QED BY <1>2, <2>1, <2>2
<1>6. ~ B4 /\ ~ B5
  BY <1>1, ProducedReferences DEF BadReference
<1>7. ~ B6
  <2> SUFFICES ASSUME NEW g \in PostsOf(o) PROVE PropsFindings(g, o, s) = {}
    OBVIOUS
  <2>1. PICK p \in PostsOf(b.src) :
          g = [id |-> p.id, at |-> p.at, user |-> Substitute(b, p.user),
               reactors |-> NewReactors(b, p), files |-> p.files, sys |-> p.sys,
               text |-> NewText(b, p), props |-> NewProps(b, p)]
    BY ProducedPosts
  <2>2. g.props = NewProps(b, p)
    BY <2>1
  <2> DEFINE props == g.props
             names == NewNames(o)
  <2>3. \A k \in DOMAIN props :
           /\ k \in IdKeys => props[k] \in uids
           /\ k \in NameKeys => props[k] \in names
           /\ k \in ListKeys => props[k] \subseteq uids
           /\ k \in PolymorphicKeys => props[k] \in uids \cup names
    BY <1>1, <2>2, ReducedPropsAre
  <2>4. DOMAIN props \subseteq DOMAIN p.props \cap DOMAIN KeyForms
    BY <2>2, KeptAreKnown DEF NewProps, ReducedProps
  <2>5. \A k \in DOMAIN props : ~ Survives(KeyForms[k], s)
    BY <2>4 DEF OwnWordsClash
  <2> HIDE DEF uids, names, o, s
  <2> QED BY <2>3, <2>5 DEF PropsFindings, BadReference, uids, names
<1>8. ~ B7
  <2>1. o.manifest.operator = AnonOperator(b, s.manifest.operator) /\ o.manifest.url = ""
    BY ProducedManifest
  <2> QED BY <1>1, <2>1, OperatorIsNew DEF ManifestFindings, BadReference
<1>9. Findings(o, s) = {e.at : e \in {e \in {
        [at |-> "users", bad |-> B1], [at |-> "emojis", bad |-> B2], [at |-> "files", bad |-> B3],
        [at |-> "authors", bad |-> B4], [at |-> "reactions", bad |-> B5],
        [at |-> "props", bad |-> B6], [at |-> "manifest", bad |-> B7]} : e.bad}}
  BY DEF Findings
<1>10. B1 = FALSE /\ B2 = FALSE /\ B3 = FALSE /\ B4 = FALSE /\ B5 = FALSE /\ B6 = FALSE /\ B7 = FALSE
  <2>1. B7 \in BOOLEAN
    BY DEF ManifestFindings, BadReference
  <2> HIDE DEF o, s, uids, B7
  <2> QED BY <1>3, <1>4, <1>5, <1>6, <1>7, <1>8, <2>1
<1> HIDE DEF o, s, uids, B1, B2, B3, B4, B5, B6, B7
<1>11. Findings(o, s) = {e.at : e \in {e \in {
        [at |-> "users", bad |-> FALSE], [at |-> "emojis", bad |-> FALSE],
        [at |-> "files", bad |-> FALSE], [at |-> "authors", bad |-> FALSE],
        [at |-> "reactions", bad |-> FALSE], [at |-> "props", bad |-> FALSE],
        [at |-> "manifest", bad |-> FALSE]} : e.bad}}
  BY <1>9, <1>10
<1>12. \A x, e : e = [at |-> x, bad |-> FALSE] => ~ e.bad
  <2> TAKE x, e
  <2> HAVE e = [at |-> x, bad |-> FALSE]
  <2>1. e.bad = FALSE
    OBVIOUS
  <2> QED BY <2>1, Zenon
<1> QED BY <1>11, <1>12 DEF o, s

(*----------------------- the passes, cut or complete ---------------------*)
\* A removal that has something left to remove was begun; a pass that writes has
\* an archive to write from and has laid down no mark; and a mark that no removal
\* threatens is that of a whole output.
AnonInv ==
  /\ an = [pc |-> an.pc, exit |-> an.exit, niveau |-> an.niveau]
  /\ out = [foreign |-> out.foreign, files |-> out.files, whole |-> out.whole, cut |-> out.cut]
  /\ out.whole \subseteq out.files
  /\ an.exit = "condemned" => OwnWordsClash(basis.src)
  /\ an.pc = "removing" => /\ an.niveau \in Levels /\ an.exit # "condemned"
                           /\ Occupied => out.cut
  /\ an.pc = "writing" => /\ GoodBasis(basis) /\ ~ out.cut /\ ~ Marked
                          /\ out.whole \subseteq Expected(basis.src)
  /\ an.pc = "control" => Complete
  /\ Complete => /\ out.whole = Expected(basis.src)
                 /\ GoodBasis(basis) /\ basis.src.manifest.readable

\* The mark is expected, after everything else.
LEMMA MarkIsLast ==
  ASSUME NEW s
  PROVE  /\ Mark \in Expected(s)
         /\ \A g \in Expected(s) : g # Mark => Stage(g) < Stage(Mark)
<1>1. Mark \in Expected(s)
  BY DEF Mark, Expected
<1>2. /\ RootStage["users"] = 1 /\ RootStage["emojis"] = 2 /\ RootStage["files"] = 3
      /\ RootStage["channels"] = 4 /\ RootStage["teams"] = 5 /\ RootStage["manifest"] = 7
  BY DEF RootStage
<1>3. \A n : InRoot(n).dir = "" /\ InRoot(n).name = n
  BY DEF InRoot
<1>4. \A c : PostsFile(c).dir = "posts"
  BY DEF PostsFile
<1>5. \A n : Stage(InRoot(n)) = RootStage[n]
  BY <1>3 DEF Stage
<1>6. \A c : Stage(PostsFile(c)) = 6
  BY <1>4 DEF Stage
<1>7. Stage(Mark) = 7
  BY <1>2, <1>5 DEF Mark
<1>8. ASSUME NEW g \in Expected(s), g # Mark PROVE Stage(g) < Stage(Mark)
  <2>1. CASE \E c : g = PostsFile(c)
    BY <1>6, <1>7, <2>1
  <2>2. CASE \E n \in {"users", "emojis", "files", "channels", "teams"} : g = InRoot(n)
    BY <1>2, <1>5, <1>7, <2>2
  <2> QED BY <1>8, <2>1, <2>2 DEF Expected, Mark
<1> QED BY <1>1, <1>8

LEMMA AnonStays ==
  ASSUME AnonInv, UNCHANGED anonVars PROVE AnonInv'
  BY DEF AnonInv, anonVars, Complete, Marked, Occupied

\* A command that ends leaves nothing to show of its directory but what held.
LEMMA EndsWell ==
  ASSUME AnonInv, NEW exit, exit # "condemned", an' = Ended(exit),
         out' = out \/ \E f : out' = [out EXCEPT !.files = @ \cup {f}],
         basis' = basis \/ ~ Complete
  PROVE  AnonInv'
<1>1. /\ an'.pc = "ended" /\ an'.exit = exit
      /\ an' = [pc |-> an'.pc, exit |-> an'.exit, niveau |-> an'.niveau]
  BY DEF Ended
<1>2. /\ out' = [foreign |-> out'.foreign, files |-> out'.files, whole |-> out'.whole,
                 cut |-> out'.cut]
      /\ out'.whole = out.whole /\ out'.cut = out.cut /\ out.files \subseteq out'.files
  <2>1. CASE out' = out
    BY <2>1 DEF AnonInv
  <2>2. ASSUME NEW f, out' = [out EXCEPT !.files = @ \cup {f}]
        PROVE  <1>2
    <3> DEFINE files == out.files \cup {f}
    <3>1. out' = [out EXCEPT !.files = files]
      BY <2>2
    <3>2. out.files \subseteq files
      OBVIOUS
    <3> HIDE DEF files
    <3>3. out' = [foreign |-> out.foreign, files |-> files, whole |-> out.whole, cut |-> out.cut]
      BY <3>1 DEF AnonInv
    <3> QED BY <3>2, <3>3
  <2> QED BY <2>1, <2>2
<1>3. Complete' = Complete
  BY <1>2 DEF Complete, Marked
<1> QED BY <1>1, <1>2, <1>3 DEF AnonInv

LEMMA StartStepAnon ==
  ASSUME AnonInv, NEW niveau \in Levels, NEW force \in BOOLEAN, NEW call \in Calls,
         StartAnonymize(niveau, force, call)
  PROVE  AnonInv'
<1>1. CASE Refused(force, call) \/ call = "replay"
  <2> DEFINE exit == IF Refused(force, call) THEN "refused" ELSE "failed"
  <2>1. an' = Ended(exit) /\ out' = out /\ basis' = basis
    BY <1>1 DEF StartAnonymize
  <2>2. exit # "condemned"
    OBVIOUS
  <2> HIDE DEF exit
  <2> QED BY <2>1, <2>2, EndsWell
<1>2. CASE ~ (Refused(force, call) \/ call = "replay")
  <2> DEFINE cut == Occupied
  <2>1. /\ an' = [pc |-> "removing", exit |-> "", niveau |-> niveau]
        /\ out' = [out EXCEPT !.cut = cut]
    BY <1>2 DEF StartAnonymize
  <2>2. /\ an'.pc = "removing" /\ an'.exit = "" /\ an'.niveau = niveau
        /\ an' = [pc |-> an'.pc, exit |-> an'.exit, niveau |-> an'.niveau]
    BY <2>1
  <2>3. Marked => cut
    BY DEF AnonInv, Marked, Occupied
  <2>4. /\ out' = [foreign |-> out'.foreign, files |-> out'.files, whole |-> out'.whole,
                   cut |-> out'.cut]
        /\ out'.foreign = out.foreign /\ out'.files = out.files /\ out'.whole = out.whole
        /\ out'.cut = cut
    <3> HIDE DEF cut
    <3> QED BY <2>1 DEF AnonInv
  <2>5. Occupied' = Occupied /\ Marked' = Marked
    BY <2>4 DEF Occupied, Marked
  <2>6. ~ (Complete')
    BY <2>3, <2>4, <2>5 DEF Complete
  <2> QED BY <2>2, <2>4, <2>5, <2>6 DEF AnonInv
<1> QED BY <1>1, <1>2

\* What is left of an output that is being removed has no claim to be whole.
LEMMA RemoveStepAnon ==
  ASSUME AnonInv, RemoveMark \/ RemoveOthers PROVE AnonInv'
<1>1. an.pc = "removing" /\ an' = an /\ basis' = basis
  BY DEF RemoveMark, RemoveOthers
<1>2. Occupied
  BY DEF RemoveMark, RemoveOthers, Occupied
<1>3. \E foreign, files, whole :
        /\ out' = [out EXCEPT !.foreign = foreign, !.files = files, !.whole = whole]
        /\ whole \subseteq files
  <2>1. CASE RemoveMark
    <3>1. out' = [out EXCEPT !.files = @ \ {Mark}, !.whole = @ \ {Mark}]
      BY <2>1 DEF RemoveMark
    <3> DEFINE files == out.files \ {Mark}
               whole == out.whole \ {Mark}
    <3>2. whole \subseteq files
      BY DEF AnonInv
    <3>3. out' = [out EXCEPT !.foreign = out.foreign, !.files = files, !.whole = whole]
      BY <3>1 DEF AnonInv
    <3> QED BY <3>2, <3>3
  <2>2. CASE RemoveOthers
    <3> DEFINE files == out.files \cap {Mark}
               whole == out.whole \cap {Mark}
    <3>1. out' = [out EXCEPT !.foreign = FALSE, !.files = files, !.whole = whole]
      BY <2>2 DEF RemoveOthers
    <3>2. whole \subseteq files
      BY DEF AnonInv
    <3> HIDE DEF files, whole
    <3> QED BY <3>1, <3>2
  <2> QED BY <2>1, <2>2
<1>4. /\ out' = [foreign |-> out'.foreign, files |-> out'.files, whole |-> out'.whole,
                 cut |-> out'.cut]
      /\ out'.whole \subseteq out'.files /\ out'.cut = out.cut
  BY <1>3 DEF AnonInv
<1>5. out'.cut
  BY <1>1, <1>2, <1>4 DEF AnonInv
<1>6. ~ (Complete')
  BY <1>5 DEF Complete
<1> QED BY <1>1, <1>4, <1>5, <1>6 DEF AnonInv

LEMMA BeginStepAnon ==
  ASSUME RedactInv, WellFormedInv, AnonInv, NEW order \in Orders(Ids(src.users)), BeginPass(order)
  PROVE  AnonInv'
<1> DEFINE table == IdentityTable(order)
           files == {PostsDir}
<1>1. /\ an.pc = "removing" /\ an' = [an EXCEPT !.pc = "writing"]
      /\ out' = [EmptyOut EXCEPT !.files = files]
      /\ basis' = [src |-> src, niveau |-> an.niveau, table |-> table]
  BY DEF BeginPass
<1>2. an.niveau \in Levels /\ an.exit # "condemned"
  BY <1>1 DEF AnonInv
<1>3. table = IdentityTable(order)
  OBVIOUS
<1> HIDE DEF table, files
<1>4. /\ an'.pc = "writing" /\ an'.exit = an.exit
      /\ an' = [pc |-> an'.pc, exit |-> an'.exit, niveau |-> an'.niveau]
  BY <1>1 DEF AnonInv
<1>5. /\ out'.whole = {} /\ out'.cut = FALSE
      /\ out' = [foreign |-> out'.foreign, files |-> out'.files, whole |-> out'.whole,
                 cut |-> out'.cut]
  BY <1>1 DEF EmptyOut
<1>6. GoodBasis(basis')
  <2>1. IsArchive(src)
    BY DEF RedactInv, Shape
  <2>2. basis'.src = src /\ basis'.niveau = an.niveau /\ basis'.table = table
    BY <1>1
  <2> QED BY <1>2, <1>3, <2>1, <2>2 DEF GoodBasis, WellFormedInv
<1>7. ~ (Marked') /\ ~ (Complete')
  BY <1>5 DEF Marked, Complete
<1> QED BY <1>2, <1>4, <1>5, <1>6, <1>7 DEF AnonInv

LEMMA WriteStepAnon ==
  ASSUME AnonInv, NEW f \in NextOut, WriteOut(f) PROVE AnonInv'
<1> DEFINE expected == Expected(basis.src)
<1>1. /\ an.pc = "writing" /\ f \in expected \ out.whole
      /\ \A g \in expected : Stage(g) < Stage(f) => g \in out.whole
  BY DEF NextOut
<1>2. GoodBasis(basis) /\ ~ out.cut /\ ~ Marked /\ out.whole \subseteq expected
  BY <1>1 DEF AnonInv
<1>3. CASE f = Mark /\ ~ basis.src.manifest.readable
  <2>1. an' = Ended("failed") /\ out' = out
    BY <1>3 DEF WriteOut
  <2>2. ~ Complete
    BY <1>2 DEF Complete
  <2> QED BY <2>1, <2>2, EndsWell
<1>4. CASE ~ (f = Mark /\ ~ basis.src.manifest.readable)
  <2> DEFINE files == out.files \cup {f}
             whole == out.whole \cup {f}
             last == expected \subseteq whole
  <2>1. /\ out' = [out EXCEPT !.files = files, !.whole = whole] /\ basis' = basis
        /\ an' = IF last THEN [an EXCEPT !.pc = "control"] ELSE an
    BY <1>4 DEF WriteOut
  <2>2. whole \subseteq files
    BY DEF AnonInv
  <2>3. whole \subseteq expected
    BY <1>1, <1>2
  <2>4. /\ Mark \in expected /\ \A g \in expected : g # Mark => Stage(g) < Stage(Mark)
    BY MarkIsLast
  <2>5. last <=> f = Mark
    <3>1. Mark \notin out.whole
      BY <1>2 DEF Marked
    <3>2. ASSUME f = Mark PROVE last
      BY <1>1, <2>4, <3>2
    <3>3. ASSUME last PROVE f = Mark
      BY <2>4, <3>1, <3>3
    <3> QED BY <3>2, <3>3
  <2> HIDE DEF files, whole
  <2>6. /\ out' = [foreign |-> out'.foreign, files |-> out'.files, whole |-> out'.whole,
                   cut |-> out'.cut]
        /\ out'.files = files /\ out'.whole = whole /\ out'.cut = out.cut
    BY <2>1 DEF AnonInv
  <2>7. CASE last
    <3>1. an' = [an EXCEPT !.pc = "control"]
      BY <2>1, <2>7
    <3>2. /\ an'.pc = "control" /\ an'.exit = an.exit
          /\ an' = [pc |-> an'.pc, exit |-> an'.exit, niveau |-> an'.niveau]
      BY <3>1 DEF AnonInv
    <3>3. out'.whole = expected /\ Mark \in out'.whole
      BY <2>3, <2>4, <2>6, <2>7
    <3>4. Complete'
      BY <1>2, <2>6, <3>3 DEF Complete, Marked
    <3>5. basis.src.manifest.readable
      BY <1>4, <2>5, <2>7
    <3> QED BY <1>2, <2>1, <2>2, <2>6, <3>2, <3>3, <3>4, <3>5 DEF AnonInv
  <2>8. CASE ~ last
    <3>1. an' = an
      BY <2>1, <2>8
    <3>2. Mark \notin out'.whole
      BY <1>2, <2>5, <2>6, <2>8 DEF whole, Marked
    <3>3. ~ (Marked') /\ ~ (Complete')
      BY <3>2 DEF Marked, Complete
    <3> QED BY <1>1, <1>2, <2>1, <2>2, <2>3, <2>6, <3>1, <3>3 DEF AnonInv
  <2> QED BY <2>7, <2>8
<1> QED BY <1>3, <1>4

LEMMA StopStepAnon ==
  ASSUME AnonInv, StopAnonymize PROVE AnonInv'
<1>1. an' = Ended("failed") /\ (out' = out \/ \E f : out' = [out EXCEPT !.files = @ \cup {f}])
  BY DEF StopAnonymize
<1>2. CASE an.pc = "control"
  <2>1. basis' = basis
    BY <1>2 DEF StopAnonymize
  <2> QED BY <1>1, <2>1, EndsWell
<1>3. CASE an.pc # "control"
  <2>1. ~ Complete
    <3>1. CASE an.pc = "removing"
      BY <3>1 DEF AnonInv, Complete, Marked, Occupied
    <3>2. CASE an.pc = "writing"
      BY <3>2 DEF AnonInv, Complete
    <3> QED BY <1>3, <3>1, <3>2 DEF StopAnonymize
  <2> QED BY <1>1, <2>1, EndsWell
<1> QED BY <1>2, <1>3

LEMMA ControlStepAnon ==
  ASSUME \A n \in Nat : IdentitiesDiffer(n), AnonInv, Control PROVE AnonInv'
<1>1. GoodBasis(basis) /\ out' = out /\ basis' = basis
  BY DEF Control, AnonInv
<1>2. CASE Findings(Produced(basis), basis.src) = {}
  <2>1. an' = Ended("0")
    BY <1>2 DEF Control
  <2> QED BY <1>1, <2>1, EndsWell
<1>3. CASE Findings(Produced(basis), basis.src) # {}
  <2>1. OwnWordsClash(basis.src)
    BY <1>1, <1>3, OwnWordsFound
  <2>2. an' = Ended("condemned")
    BY <1>3 DEF Control
  <2>3. /\ an'.pc = "ended" /\ an' = [pc |-> an'.pc, exit |-> an'.exit, niveau |-> an'.niveau]
    BY <2>2 DEF Ended
  <2> QED BY <1>1, <2>1, <2>3 DEF AnonInv, Complete, Marked
<1> QED BY <1>2, <1>3

LEMMA AnonStep ==
  ASSUME \A n \in Nat : IdentitiesDiffer(n), RedactInv, WellFormedInv, AnonInv, [Next]_vars
  PROVE  AnonInv'
<1>1. CASE an.pc = "idle" /\ RedactNext /\ UNCHANGED anonVars
  BY <1>1, AnonStays
<1>2. ASSUME NEW niveau \in Levels, NEW force \in BOOLEAN, NEW call \in Calls,
             StartAnonymize(niveau, force, call)
      PROVE  AnonInv'
  BY <1>2, StartStepAnon
<1>3. CASE RemoveMark \/ RemoveOthers
  BY <1>3, RemoveStepAnon
<1>4. ASSUME NEW order \in Orders(Ids(src.users)), BeginPass(order) PROVE AnonInv'
  BY <1>4, BeginStepAnon
<1>5. ASSUME NEW f \in NextOut, WriteOut(f) PROVE AnonInv'
  BY <1>5, WriteStepAnon
<1>6. CASE StopAnonymize
  BY <1>6, StopStepAnon
<1>7. CASE Control
  BY <1>7, ControlStepAnon
<1>8. CASE EndAnonymize
  <2>1. an' = NoPass /\ out' = out /\ basis' = basis
    BY <1>8 DEF EndAnonymize
  <2>2. /\ an'.pc = "idle" /\ an'.exit = ""
        /\ an' = [pc |-> an'.pc, exit |-> an'.exit, niveau |-> an'.niveau]
    BY <2>1 DEF NoPass
  <2> QED BY <2>1, <2>2 DEF AnonInv, Complete, Marked
<1>9. CASE UNCHANGED vars
  BY <1>9, AnonStays DEF vars, anonVars
<1> QED BY <1>1, <1>2, <1>3, <1>4, <1>5, <1>6, <1>7, <1>8, <1>9 DEF Next, AnonNext

LEMMA AnonInitHolds == Init => AnonInv
<1> SUFFICES ASSUME Init PROVE AnonInv
  OBVIOUS
<1>1. out \in {EmptyOut, [EmptyOut EXCEPT !.foreign = TRUE]} /\ an = NoPass
  BY DEF Init, AnonInit
<1>2. /\ out.whole = {} /\ out = [foreign |-> out.foreign, files |-> out.files,
                                 whole |-> out.whole, cut |-> out.cut]
  BY <1>1 DEF EmptyOut
<1>3. /\ an.pc = "idle" /\ an.exit = ""
      /\ an = [pc |-> an.pc, exit |-> an.exit, niveau |-> an.niveau]
  BY <1>1 DEF NoPass
<1> QED BY <1>2, <1>3 DEF AnonInv, Complete, Marked

LEMMA AnonInvariant ==
  ASSUME Verified, PseudonymsAreNew, OwnFiles, \A n \in Nat : IdentitiesDiffer(n)
  PROVE  Spec => [](VerifiedInv /\ AnonInv)
<1>1. VerifiedInv /\ AnonInv /\ [Next]_vars => AnonInv'
  BY AnonStep DEF VerifiedInv
<1> QED BY <1>1, AnonInitHolds, VerifiedInvariant, PTL DEF Spec

\* Whatever was cut in the archive, in earlier passes or in the removal of their
\* output, a directory that has the mark and in which no removal began has every
\* file, verify accepts it but for attachments the source itself does not
\* describe, and its posts refer to its own rows only: the mark is written last,
\* by the pass that wrote the other files, from one archive.
THEOREM MarkedArePublishable ==
  ASSUME Verified, PseudonymsAreNew, OwnFiles, \A n \in Nat : IdentitiesDiffer(n)
  PROVE  Spec => []MarkedIsPublishable
<1>1. AnonInv => MarkedIsPublishable
  <2> SUFFICES ASSUME AnonInv, Complete PROVE MarkedIsPublishable
    BY DEF MarkedIsPublishable
  <2>1. out.whole = Expected(basis.src) /\ GoodBasis(basis) /\ basis.src.manifest.readable
    BY DEF AnonInv
  <2>2. Verify(Produced(basis)) \subseteq Verify(basis.src) \cap {"toute piece jointe est decrite"}
    BY <2>1, ProducedVerifies
  <2>3. ASSUME NEW p \in PostsOf(Produced(basis))
        PROVE  ({p.user} \cup p.reactors) \ {""} \subseteq NewUids(Produced(basis))
    <3>1. (p.user = "" \/ p.user \in Ids(NewUsers(basis))) /\ p.reactors \subseteq Ids(NewUsers(basis))
      BY <2>1, ProducedReferences
    <3>2. NewUids(Produced(basis)) = Ids(NewUsers(basis))
      BY <2>1, ProducedParts DEF NewUids
    <3> QED BY <3>1, <3>2
  <2> QED BY <2>1, <2>2, <2>3 DEF MarkedIsPublishable
<1> QED BY <1>1, AnonInvariant, PTL

\* A pass that reaches the control is accepted, orphan references included, unless
\* an account bears a word of a key that was kept or of an attachment's label:
\* every reference it writes is to a row it writes, or nothing.
THEOREM ControlNeverCondemns ==
  ASSUME Verified, PseudonymsAreNew, OwnFiles, \A n \in Nat : IdentitiesDiffer(n)
  PROVE  Spec => []ControlAccepts
<1>1. AnonInv => ControlAccepts
  BY DEF AnonInv, ControlAccepts
<1> QED BY <1>1, AnonInvariant, PTL

(*------------------------------ the texts --------------------------------*)
\* The substitutes an anonymization may write.
Substituted(b) == Substitutes(Len(b.src.users))

LEMMA SubstitutedAre ==
  ASSUME NEW b, GoodBasis(b), \A n \in Nat : NewSubstitutes(n)
  PROVE  LET V == Substituted(b) IN
         /\ \A id \in DOMAIN b.table : {b.table[id].uid, b.table[id].username, b.table[id].pseudonyme} \subseteq V
         /\ {"mention-retiree", "adresse-retiree", "numero-retire", NomRetire} \subseteq V
         /\ Collective \subseteq V
         /\ \A x \in V : x \notin Known(b.src) /\ x \notin DOMAIN b.table /\ x \notin DOMAIN Noms(b)
<1> DEFINE n == Len(b.src.users)
           V == Substituted(b)
<1>1. n \in Nat /\ \A id \in DOMAIN b.table : \E i \in 1..n : b.table[id] = Identity(i)
  BY TableIs
<1>2. V = Substitutes(n)
  BY DEF Substituted
<1>3. DOMAIN b.table = Ids(b.src.users)
  BY TableIs
<1>4. (Ids(b.src.users) \cup OldNames(b.src)) \cap V = {}
  BY <1>1, <1>2, SubstitutesAreNew
<1> HIDE DEF n, V
<1>5. ASSUME NEW id \in DOMAIN b.table
      PROVE  {b.table[id].uid, b.table[id].username, b.table[id].pseudonyme} \subseteq V
  <2>1. PICK i \in 1..n : b.table[id] = Identity(i)
    BY <1>1
  <2>2. {Identity(i).uid, Identity(i).username, Identity(i).pseudonyme} \subseteq Substitutes(n)
    BY DEF Substitutes
  <2> QED BY <1>2, <2>1, <2>2
<1>6. {"mention-retiree", "adresse-retiree", "numero-retire", NomRetire} \subseteq V /\ Collective \subseteq V
  BY <1>2 DEF Substitutes
<1>7. DOMAIN Noms(b) \subseteq OldNames(b.src)
  <2>1. CASE RewritesNames(b.niveau)
    <3>1. DOMAIN Noms(b) = Retained(b.src.users, PostsOf(b.src), Threshold)
      BY <2>1 DEF Noms, Vocabulary
    <3>2. Retained(b.src.users, PostsOf(b.src), Threshold)
            \subseteq UNION {u.names : u \in ToSet(b.src.users)}
      BY DEF Retained
    <3> QED BY <3>1, <3>2 DEF OldNames
  <2>2. CASE ~ RewritesNames(b.niveau)
    BY <2>2 DEF Noms, NoNames
  <2> QED BY <2>1, <2>2
<1>8. \A x \in V : x \notin Known(b.src) /\ x \notin DOMAIN b.table /\ x \notin DOMAIN Noms(b)
  BY <1>3, <1>4, <1>7 DEF OldNames
<1> QED BY <1>5, <1>6, <1>8 DEF V

\* A retained name is replaced by the pseudonym of one who has it.
LEMMA NomsAre ==
  ASSUME NEW b, GoodBasis(b), \A n \in Nat : NewSubstitutes(n), NEW f \in DOMAIN Noms(b)
  PROVE  Noms(b)[f] \in Substituted(b)
<1> DEFINE users == b.src.users
           kept == Retained(users, PostsOf(b.src), Threshold)
           Someone == CHOOSE u \in Bearers(users, f) : TRUE
<1>1. RewritesNames(b.niveau)
  BY DEF Noms, NoNames
<1>2. Noms(b) = Vocabulary(users, PostsOf(b.src), b.table, Threshold)
  BY <1>1 DEF Noms
<1>3. /\ f \in kept
      /\ Noms(b)[f] = IF Cardinality(Bearers(users, f)) > 1 THEN NomRetire
                      ELSE b.table[Someone.id].pseudonyme
  BY <1>2 DEF Vocabulary
<1>4. f \in UNION {u.names : u \in ToSet(users)}
  BY <1>3 DEF Retained
<1>5. \E u : u \in Bearers(users, f)
  BY <1>4 DEF Bearers
<1>6. Someone \in ToSet(users)
  <2>1. Someone \in Bearers(users, f)
    BY <1>5
  <2> HIDE DEF Someone
  <2> QED BY <2>1 DEF Bearers
<1> HIDE DEF Someone, kept
<1>7. Someone.id \in DOMAIN b.table
  BY <1>6, TableIs DEF Ids
<1> QED BY <1>3, <1>7, SubstitutedAre

IsToken(t) == /\ t = [kind |-> t.kind, v |-> t.v, lead |-> t.lead, trail |-> t.trail]
              /\ t.kind \in Kinds

\* What one pass leaves of a match: nothing to rewrite, and nobody's name.
Settled(b, u) ==
  /\ IsToken(u)
  /\ u.kind \notin {"adresse", "adresseMention", "telephone"}
  /\ u.kind = "mention" => u.v \in Collective \/ (u.v \in Res(b).emis /\ u.v \notin Known(b.src))
  /\ u.kind = "identifiant" => u.v \notin DOMAIN b.table
  /\ u.v \in DOMAIN Noms(b) => u.kind \in {"compose", "identifiant"}

LEMMA TokenSettles ==
  ASSUME NEW b, GoodBasis(b), \A n \in Nat : NewSubstitutes(n), NEW t, IsToken(t)
  PROVE  LET u == RewrittenToken(t, Res(b), Noms(b)) IN
         Settled(b, u) /\ (u.v = t.v \/ u.v \in Substituted(b))
<1> DEFINE r == Res(b)
           noms == Noms(b)
           V == Substituted(b)
           known == Known(b.src)
           u == RewrittenToken(t, r, noms)
           Good == Settled(b, u) /\ (u.v = t.v \/ u.v \in V)
           Put(k, v) == [kind |-> k, v |-> v, lead |-> t.lead, trail |-> t.trail]
<1> SUFFICES Good
  OBVIOUS
<1>1. /\ r.ids = b.table /\ DOMAIN r.names = known
      /\ \A n \in known : \E id \in DOMAIN b.table : r.names[n] = b.table[id]
      /\ r.emis = {b.table[id].username : id \in DOMAIN b.table}
  BY ResolverIs
<1>2. /\ \A id \in DOMAIN b.table : b.table[id].uid \in V /\ b.table[id].username \in V
      /\ {"mention-retiree", "adresse-retiree", "numero-retire", NomRetire} \subseteq V
      /\ Collective \subseteq V
      /\ \A x \in V : x \notin known /\ x \notin DOMAIN b.table /\ x \notin DOMAIN noms
  BY SubstitutedAre
<1>3. \A n \in known : r.names[n].username \in V /\ r.names[n].username \in r.emis
  BY <1>1, <1>2
<1>4. \A f \in DOMAIN noms : noms[f] \in V
  BY NomsAre
<1>5. t = Put(t.kind, t.v) /\ t.kind \in Kinds
  BY DEF IsToken
<1> HIDE DEF r, noms, V, known, u
\* A match that is replaced by a substitute of a kind.
<1>6. ASSUME NEW k \in {"mention", "identifiant", "compose"}, NEW v \in V,
             u = Put(k, v), k = "mention" => v \in r.emis
      PROVE  Good
  <2>1. u = [kind |-> k, v |-> v, lead |-> t.lead, trail |-> t.trail]
    BY <1>6
  <2>2. u.kind = k /\ u.v = v /\ IsToken(u)
    BY <2>1 DEF IsToken, Kinds
  <2>3. v \notin known /\ v \notin DOMAIN b.table /\ v \notin DOMAIN noms
    BY <1>2
  <2> QED BY <1>6, <2>2, <2>3 DEF Settled, r, known, noms
<1> HIDE DEF Good
<1>7. CASE t.kind = "adresseMention"
  <2>1. u = AddressMention(t, r)
    BY <1>7 DEF RewrittenToken, u
  <2>2. CASE t.v \in DOMAIN r.names
    <3>1. u = [t EXCEPT !.kind = "mention", !.v = r.names[t.v].username]
      BY <2>1, <2>2 DEF AddressMention
    <3>2. u = Put("mention", r.names[t.v].username)
      BY <1>5, <3>1
    <3> QED BY <1>1, <1>3, <1>6, <2>2, <3>2
  <2>3. CASE t.v \notin DOMAIN r.names
    <3>1. u = [t EXCEPT !.kind = "compose", !.v = "adresse-retiree"]
      BY <2>1, <2>3 DEF AddressMention
    <3>2. u = Put("compose", "adresse-retiree")
      BY <1>5, <3>1
    <3> QED BY <1>2, <1>6, <3>2
  <2> QED BY <2>2, <2>3
<1>8. CASE t.kind = "adresse"
  <2>1. u = [t EXCEPT !.kind = "compose", !.v = "adresse-retiree"]
    BY <1>8 DEF RewrittenToken, u
  <2>2. u = Put("compose", "adresse-retiree")
    BY <1>5, <2>1
  <2> QED BY <1>2, <1>6, <2>2
<1>9. CASE t.kind = "identifiant" /\ t.v \in DOMAIN r.ids
  <2> DEFINE v == r.ids[t.v].uid
  <2>1. u = [t EXCEPT !.v = v]
    BY <1>9 DEF RewrittenToken, u
  <2>2. v \in V
    BY <1>1, <1>2, <1>9
  <2> HIDE DEF v
  <2>3. u = Put("identifiant", v)
    BY <1>5, <1>9, <2>1
  <2> QED BY <1>6, <2>2, <2>3
<1>10. CASE t.kind = "telephone"
  <2>1. u = [t EXCEPT !.kind = "compose", !.v = "numero-retire"]
    BY <1>10 DEF RewrittenToken, u
  <2>2. u = Put("compose", "numero-retire")
    BY <1>5, <2>1
  <2> QED BY <1>2, <1>6, <2>2
<1>11. CASE t.kind = "mot" /\ t.v \in DOMAIN noms
  <2>1. u = [t EXCEPT !.kind = "compose", !.v = noms[t.v]]
    BY <1>11 DEF RewrittenToken, u
  <2>2. u = Put("compose", noms[t.v])
    BY <1>5, <2>1
  <2> QED BY <1>4, <1>6, <1>11, <2>2
\* A match that stays as it is.
<1>12. ASSUME u = t, t.kind \notin {"adresse", "adresseMention", "telephone"},
              t.kind = "mention" => t.v \in Collective \/ (t.v \in r.emis /\ t.v \notin known),
              t.kind = "identifiant" => t.v \notin DOMAIN r.ids, t.kind = "mot" => t.v \notin DOMAIN noms
       PROVE  Good
  <2>1. IsToken(u) /\ u.v = t.v
    BY <1>5, <1>12 DEF IsToken
  <2>2. \A n \in r.emis : n \in V
    BY <1>1, <1>2
  <2>3. t.v \in DOMAIN noms => t.kind \in {"compose", "identifiant"}
    <3>1. t.kind = "mention" => t.v \in V
      BY <1>2, <1>12, <2>2
    <3>2. t.v \in DOMAIN noms => t.kind # "mention"
      BY <1>2, <3>1
    <3> QED BY <1>5, <1>12, <3>2 DEF Kinds
  <2> QED BY <1>1, <1>12, <2>1, <2>3 DEF Settled, r, known, noms, Good
<1>13. CASE t.kind = "mention"
  <2>1. u = Mention(t, r)
    BY <1>13 DEF RewrittenToken, u
  <2>2. CASE t.v \in Collective
    BY <1>12, <1>13, <2>1, <2>2 DEF Mention
  <2>3. CASE t.v \notin Collective /\ t.v \in DOMAIN r.names
    <3> DEFINE v == r.names[t.v].username
    <3>1. u = [t EXCEPT !.v = v]
      BY <2>1, <2>3 DEF Mention
    <3>2. v \in V /\ v \in r.emis
      BY <1>1, <1>3, <2>3
    <3> HIDE DEF v
    <3>3. u = Put("mention", v)
      BY <1>5, <1>13, <3>1
    <3> QED BY <1>6, <3>2, <3>3
  <2>4. CASE t.v \notin Collective /\ t.v \notin DOMAIN r.names /\ t.v \in r.emis
    BY <1>1, <1>12, <1>13, <2>1, <2>4 DEF Mention
  <2>5. CASE t.v \notin Collective /\ t.v \notin DOMAIN r.names /\ t.v \notin r.emis
    <3>1. u = [t EXCEPT !.kind = "compose", !.v = "mention-retiree"]
      BY <2>1, <2>5 DEF Mention
    <3>2. u = Put("compose", "mention-retiree")
      BY <1>5, <3>1
    <3> QED BY <1>2, <1>6, <3>2
  <2> QED BY <2>2, <2>3, <2>4, <2>5
<1>14. CASE /\ t.kind \notin {"adresse", "adresseMention", "telephone", "mention"}
            /\ ~ (t.kind = "identifiant" /\ t.v \in DOMAIN r.ids)
            /\ ~ (t.kind = "mot" /\ t.v \in DOMAIN noms)
  <2>1. u = t
    BY <1>14 DEF RewrittenToken, u
  <2> QED BY <1>12, <1>14, <2>1
<1>15. Good
  BY <1>7, <1>8, <1>9, <1>10, <1>11, <1>13, <1>14
<1> QED BY <1>15

\* A second pass leaves such a match as it is.
LEMMA SettledStays ==
  ASSUME NEW b, GoodBasis(b), NEW u, Settled(b, u)
  PROVE  RewrittenToken(u, Res(b), Noms(b)) = u
<1>1. Res(b).ids = b.table /\ DOMAIN Res(b).names = Known(b.src)
  BY ResolverIs
<1>2. CASE u.kind = "mention"
  <2>1. RewrittenToken(u, Res(b), Noms(b)) = Mention(u, Res(b))
    BY <1>2 DEF RewrittenToken
  <2> QED BY <1>1, <1>2, <2>1 DEF Mention, Settled
<1>3. CASE u.kind # "mention"
  BY <1>1, <1>3 DEF RewrittenToken, Settled
<1> QED BY <1>2, <1>3

\* In a system message, an account of at least four letters is designated.
LEMMA SystemTokenIs ==
  ASSUME NEW b, GoodBasis(b), \A n \in Nat : NewSubstitutes(n),
         NEW p, NEW t, IsToken(t), Len(t.v) \in Nat
  PROVE  LET u == SystemToken(t, p, Res(b)) IN
         /\ IsToken(u)
         /\ p.sys /\ u.v \in Known(b.src) => Len(u.v) < MinLength
<1> DEFINE r == Res(b)
           V == Substituted(b)
           known == Known(b.src)
           u == SystemToken(t, p, r)
           kind == IF t.kind \in {"mention", "adresse", "adresseMention"} THEN t.kind ELSE "compose"
           v == r.names[t.v].username
           Says == p.sys /\ Len(t.v) >= MinLength
           Hit == (t.v \in Designated(p) \/ Says) /\ t.v \in known
<1>1. /\ DOMAIN r.names = known
      /\ \A n \in known : \E id \in DOMAIN b.table : r.names[n] = b.table[id]
  BY ResolverIs
<1>2. /\ \A id \in DOMAIN b.table : b.table[id].username \in V
      /\ \A x \in V : x \notin known
  BY SubstitutedAre
<1>3. t = [kind |-> t.kind, v |-> t.v, lead |-> t.lead, trail |-> t.trail] /\ t.kind \in Kinds
  BY DEF IsToken
<1>4. u = IF Hit THEN [t EXCEPT !.kind = kind, !.v = v] ELSE t
  BY <1>1 DEF SystemToken
<1> HIDE DEF r, V, known, u, kind
<1>5. CASE Hit
  <2>1. v \in V
    BY <1>1, <1>2, <1>5
  <2>2. u = [t EXCEPT !.kind = kind, !.v = v]
    BY <1>4, <1>5
  <2> HIDE DEF v
  <2>3. u = [kind |-> kind, v |-> v, lead |-> t.lead, trail |-> t.trail]
    BY <1>3, <2>2
  <2>4. u.v = v /\ IsToken(u)
    BY <1>3, <2>3 DEF IsToken, Kinds, kind
  <2> QED BY <1>2, <2>1, <2>4 DEF u, r, known
<1>6. CASE ~ Hit
  <2>1. u = t
    BY <1>4, <1>6
  <2>2. p.sys /\ t.v \in known => ~ (Len(t.v) >= MinLength)
    BY <1>6
  <2>3. p.sys /\ t.v \in known => Len(t.v) < MinLength
    BY <2>2 DEF MinLength
  <2> QED BY <2>1, <2>3 DEF u, r, known
<1> QED BY <1>5, <1>6

\* The texts a level that rewrites forms leaves are settled, match by match.
LEMMA TextsSettle ==
  ASSUME NEW b, GoodBasis(b), \A n \in Nat : NewSubstitutes(n), RewritesForms(b.niveau),
         NEW t \in Texts(Produced(b))
  PROVE  t = [i \in DOMAIN t |-> t[i]] /\ \A i \in DOMAIN t : Settled(b, t[i])
<1> DEFINE o == Produced(b)
           r == Res(b)
           noms == Noms(b)
<1>1. ASSUME NEW x, \A i \in DOMAIN x : IsToken(x[i]), t = Rewritten(x, r, noms)
      PROVE  t = [i \in DOMAIN t |-> t[i]] /\ \A i \in DOMAIN t : Settled(b, t[i])
  <2>1. DOMAIN t = DOMAIN x /\ t = [i \in DOMAIN t |-> t[i]]
    BY <1>1 DEF Rewritten
  <2>2. \A i \in DOMAIN x : t[i] = RewrittenToken(x[i], r, noms)
    BY <1>1 DEF Rewritten
  <2> QED BY <1>1, <2>1, <2>2, TokenSettles
<1>2. ASSUME NEW g \in PostsOf(o), t = g.text
      PROVE  \E x : (\A i \in DOMAIN x : IsToken(x[i])) /\ t = Rewritten(x, r, noms)
  <2>1. PICK p \in PostsOf(b.src) : PostIsFilled(p) /\
          g = [id |-> p.id, at |-> p.at, user |-> Substitute(b, p.user),
               reactors |-> NewReactors(b, p), files |-> p.files, sys |-> p.sys,
               text |-> NewText(b, p), props |-> NewProps(b, p)]
    BY ProducedPosts
  <2>2. g.text = NewText(b, p)
    BY <2>1
  <2> DEFINE x == DesignatedRewritten(p, r)
  <2>3. t = Rewritten(x, r, noms)
    BY <1>2, <2>2 DEF NewText
  <2>4. \A i \in DOMAIN p.text : IsToken(p.text[i]) /\ Len(p.text[i].v) \in Nat
    BY <2>1 DEF PostIsFilled, IsText, IsToken
  <2>5. DOMAIN x = DOMAIN p.text /\ \A i \in DOMAIN x : x[i] = SystemToken(p.text[i], p, r)
    BY DEF DesignatedRewritten
  <2>6. \A i \in DOMAIN x : IsToken(x[i])
    <3> HIDE DEF x
    <3> QED BY <2>4, <2>5, SystemTokenIs
  <2> QED BY <2>3, <2>6
<1>3. ASSUME NEW g \in PostsOf(o), "attachments" \in DOMAIN g.props, t = g.props["attachments"]
      PROVE  \E x : (\A i \in DOMAIN x : IsToken(x[i])) /\ t = Rewritten(x, r, noms)
  <2>1. PICK p \in PostsOf(b.src) : PostIsFilled(p) /\
          g = [id |-> p.id, at |-> p.at, user |-> Substitute(b, p.user),
               reactors |-> NewReactors(b, p), files |-> p.files, sys |-> p.sys,
               text |-> NewText(b, p), props |-> NewProps(b, p)]
    BY ProducedPosts
  <2>2. g.props = NewProps(b, p)
    BY <2>1
  <2> DEFINE x == p.props["attachments"]
  <2>3. "attachments" \in DOMAIN p.props
    BY <1>3, <2>2 DEF NewProps, ReducedProps, KeptKeys
  <2>4. t = Rewritten(x, r, noms)
    BY <1>3, <2>2 DEF NewProps, ReducedProps, FlagKeys
  <2>5. \A i \in DOMAIN x : IsToken(x[i])
    BY <2>1, <2>3 DEF PostIsFilled, IsText, IsToken
  <2> QED BY <2>4, <2>5
<1>4. \/ \E g \in PostsOf(o) : t = g.text
      \/ \E g \in PostsOf(o) : "attachments" \in DOMAIN g.props /\ t = g.props["attachments"]
  BY DEF Texts
<1> HIDE DEF o, r, noms
<1> QED BY <1>1, <1>2, <1>3, <1>4

\* A system message names no account of at least four letters, at any level.
LEMMA SystemTexts ==
  ASSUME NEW b, GoodBasis(b), \A n \in Nat : NewSubstitutes(n), NEW g \in PostsOf(Produced(b)), g.sys,
         NEW i \in DOMAIN g.text, g.text[i].v \in Known(b.src)
  PROVE  Len(g.text[i].v) < MinLength
<1> DEFINE r == Res(b)
           noms == Noms(b)
<1>1. PICK p \in PostsOf(b.src) : PostIsFilled(p) /\
        g = [id |-> p.id, at |-> p.at, user |-> Substitute(b, p.user),
             reactors |-> NewReactors(b, p), files |-> p.files, sys |-> p.sys,
             text |-> NewText(b, p), props |-> NewProps(b, p)]
  BY ProducedPosts
<1> DEFINE x == DesignatedRewritten(p, r)
           t == g.text
<1>2. t = NewText(b, p) /\ g.sys = p.sys
  BY <1>1
<1>20. p.sys
  BY <1>2
<1>3. DOMAIN x = DOMAIN p.text /\ \A j \in DOMAIN x : x[j] = SystemToken(p.text[j], p, r)
  BY DEF DesignatedRewritten
<1>4. t = x \/ t = Rewritten(x, r, noms)
  BY <1>2 DEF NewText
<1> HIDE DEF x, t
<1>5. i \in DOMAIN x /\ (t[i] = x[i] \/ t[i] = RewrittenToken(x[i], r, noms))
  BY <1>4 DEF Rewritten, t
<1>6. IsToken(p.text[i]) /\ Len(p.text[i].v) \in Nat
  BY <1>1, <1>3, <1>5 DEF PostIsFilled, IsText, IsToken
<1>7. IsToken(x[i]) /\ (x[i].v \in Known(b.src) => Len(x[i].v) < MinLength)
  BY <1>3, <1>5, <1>6, <1>20, SystemTokenIs
<1>8. t[i].v = x[i].v \/ t[i].v \in Substituted(b)
  BY <1>5, <1>7, TokenSettles
<1>9. t[i].v = x[i].v
  BY <1>8, SubstitutedAre DEF t
<1> QED BY <1>7, <1>9 DEF t

\* What each level promises of the texts, it keeps, for any texts: a system
\* message names no account of four letters; from `formes` on a mention is of a
\* new account, an identifier is nobody's, no address and no number is left; at
\* `noms` a retained name is only left inside a word with a hyphen (where
\* the rewriting never looks) or as an identifier.
THEOREM LevelPromisesAreKept ==
  ASSUME Verified, PseudonymsAreNew, OwnFiles,
         \A n \in Nat : IdentitiesDiffer(n), \A n \in Nat : NewSubstitutes(n)
  PROVE  Spec => []LevelPromiseKept
<1>1. AnonInv => LevelPromiseKept
  <2> SUFFICES ASSUME AnonInv, Complete PROVE LevelPromiseKept
    BY DEF LevelPromiseKept
  <2> DEFINE b == basis
             o == Produced(b)
             s == b.src
             noms == Noms(b)
             Found(kinds, values) == \E t \in Texts(o) : \E i \in DOMAIN t :
                                       t[i].kind \in kinds /\ t[i].v \in values
  <2>1. GoodBasis(b)
    BY DEF AnonInv, Complete
  <2>2. ASSUME NEW p \in PostsOf(o), p.sys, NEW i \in DOMAIN p.text, p.text[i].v \in Known(s)
        PROVE  Len(p.text[i].v) < MinLength
    BY <2>1, <2>2, SystemTexts
  <2>3. RewritesForms(b.niveau) => \A t \in Texts(o) : \A i \in DOMAIN t : Settled(b, t[i])
    BY <2>1, TextsSettle
  <2>4. Collective \cap Known(s) = {}
    BY <2>1, SubstitutedAre
  <2>5. DOMAIN b.table = Ids(s.users)
    BY <2>1, TableIs
  <2>6. RewritesForms(b.niveau) \/ DOMAIN noms = {}
    BY DEF RewritesForms, Noms, RewritesNames, NoNames
  <2> HIDE DEF b, o, s, noms
  <2>7. ASSUME RewritesForms(b.niveau)
        PROVE  /\ ~ Found({"mention"}, Known(s)) /\ ~ Found({"identifiant"}, Ids(s.users))
               /\ \A t \in Texts(o) : \A i \in DOMAIN t :
                    t[i].kind \notin {"adresse", "adresseMention", "telephone"}
               /\ \A t \in Texts(o) : \A i \in DOMAIN t :
                    t[i].v \in DOMAIN noms => t[i].kind \in {"compose", "identifiant"}
    BY <2>3, <2>4, <2>5, <2>7 DEF Settled, s, noms
  <2>8. \A t \in Texts(o) : \A i \in DOMAIN t :
          t[i].v \in DOMAIN noms => t[i].kind \in {"compose", "identifiant"}
    BY <2>6, <2>7
  <2> QED BY <2>2, <2>7, <2>8 DEF LevelPromiseKept, b, o, s, noms
<1> QED BY <1>1, AnonInvariant, PTL

\* A second pass changes nothing in a text where nothing touches a match, neither
\* an arobase before nor a domain, a hyphen or an underscore after: what the
\* first one wrote is nobody's name, and a mention it wrote is known as its own.
THEOREM RewritingSettlesAlways ==
  ASSUME Verified, PseudonymsAreNew, OwnFiles,
         \A n \in Nat : IdentitiesDiffer(n), \A n \in Nat : NewSubstitutes(n)
  PROVE  Spec => []RewritingSettles
<1>1. AnonInv => RewritingSettles
  <2> DEFINE b == basis
  <2> SUFFICES ASSUME AnonInv, Complete, RewritesForms(b.niveau), NEW t \in Texts(Produced(b)),
                      Apart(t)
               PROVE  Rewritten(Reread(t), Res(b), Noms(b)) = t
    BY DEF RewritingSettles, SecondPassIsStill
  <2>1. GoodBasis(b)
    BY DEF AnonInv, Complete
  <2>2. t = [i \in DOMAIN t |-> t[i]] /\ \A i \in DOMAIN t : Settled(b, t[i])
    BY <2>1, TextsSettle
  <2> HIDE DEF b
  <2>3. Reread(t) = t
    <3>1. \A i \in DOMAIN t : RereadToken(t[i]) = t[i]
      BY DEF RereadToken, Apart
    <3>2. Reread(t) = [i \in DOMAIN t |-> t[i]]
      BY <3>1 DEF Reread
    <3> QED BY <2>2, <3>2
  <2>4. \A i \in DOMAIN t : RewrittenToken(t[i], Res(b), Noms(b)) = t[i]
    BY <2>1, <2>2, SettledStays
  <2>5. Rewritten(t, Res(b), Noms(b)) = [i \in DOMAIN t |-> t[i]]
    BY <2>4 DEF Rewritten
  <2> QED BY <2>2, <2>3, <2>5
<1> QED BY <1>1, AnonInvariant, PTL
=============================================================================
