----------------------------- MODULE HubProofs -----------------------------
(***************************************************************************)
(* Proofs about Hub, for any number of connections, users and rooms and any *)
(* channel capacity: its types, the agreement of its maps, and that it      *)
(* implements RoomSubscriptions.                                            *)
(*                                                                         *)
(* The argument goes from one slice to one room's map to rooms: removing a  *)
(* connection from a slice without duplicates removes it altogether         *)
(* (CutRange); a room's map then loses that connection and no other         *)
(* (StripUserMembers); so StripRooms and AddConn change Recipients of the   *)
(* rooms they name by one connection (StripRecipients, StoreRecipients),    *)
(* which is what they do to connRooms.                                      *)
(***************************************************************************)
EXTENDS Hub, SequenceTheorems, FiniteSetTheorems, TLAPS

-----------------------------------------------------------------------------
(* One slice *)

LEMMA RemoveAbsent ==
  ASSUME NEW C, NEW s \in Seq(C), NEW c, c \notin Range(s)
  PROVE  RemoveFirst(s, c) = s
<1>1. ~ \E i \in 1..Len(s) : s[i] = c
  BY DEF Range
<1> QED BY <1>1, Zenon DEF RemoveFirst

LEMMA RemovePresent ==
  ASSUME NEW C, NEW s \in Seq(C), NEW i \in 1..Len(s), IsInjective(s)
  PROVE  RemoveFirst(s, s[i]) = SubSeq(s, 1, i-1) \o SubSeq(s, i+1, Len(s))
<1> DEFINE c == s[i]
           I == {j \in 1..Len(s) : s[j] = c}
<1>1. I = {i} BY DEF IsInjective
<1>2. Min(I) = i BY <1>1 DEF Min
<1>3. RemoveFirst(s, c) = RemoveAt(s, IF I # {} THEN Min(I) ELSE 0)
  BY Zenon DEF RemoveFirst, SelectInSeq
<1>4. RemoveFirst(s, c) = RemoveAt(s, i)
  BY <1>1, <1>2, <1>3
<1> QED BY <1>4 DEF RemoveAt

(* In a slice without duplicates the loop that cuts out the first           *)
(* occurrence cuts out the only one.                                        *)
LEMMA CutRange ==
  ASSUME NEW C, NEW s \in Seq(C), NEW c, IsInjective(s)
  PROVE  /\ RemoveFirst(s, c) \in Seq(C)
         /\ IsInjective(RemoveFirst(s, c))
         /\ Range(RemoveFirst(s, c)) = Range(s) \ {c}
<1>1. CASE c \notin Range(s)
  <2>1. RemoveFirst(s, c) = s
    BY <1>1, RemoveAbsent
  <2> QED BY <1>1, <2>1
<1>2. CASE c \in Range(s)
  <2>1. PICK i \in 1..Len(s) : s[i] = c
    BY <1>2 DEF Range
  <2> DEFINE t == RemoveFirst(s, c)
  <2>2. t = SubSeq(s, 1, i-1) \o SubSeq(s, i+1, Len(s))
    BY <2>1, RemovePresent
  <2> DEFINE a == SubSeq(s, 1, i-1)
             b == SubSeq(s, i+1, Len(s))
  <2>3. /\ a \in Seq(C) /\ Len(a) = i-1 /\ \A j \in 1..i-1 : a[j] = s[j]
        /\ b \in Seq(C) /\ Len(b) = Len(s)-i /\ \A j \in 1..Len(s)-i : b[j] = s[j+i]
    OBVIOUS
  <2> HIDE DEF a, b
  <2>4. /\ t \in Seq(C)
        /\ Len(t) = Len(s) - 1
        /\ \A j \in 1..Len(t) : t[j] = IF j < i THEN s[j] ELSE s[j+1]
    <3>1. t = a \o b
      BY <2>2 DEF a, b
    <3> HIDE DEF t
    <3>2. /\ t \in Seq(C)
          /\ Len(t) = Len(a) + Len(b)
          /\ \A j \in 1..Len(a) + Len(b) : t[j] = IF j <= Len(a) THEN a[j] ELSE b[j - Len(a)]
      BY <3>1, <2>3, ConcatProperties
    <3>3. Len(t) = Len(s) - 1
      BY <3>2, <2>3
    <3>4. ASSUME NEW j \in 1..Len(t), j < i PROVE t[j] = s[j]
      <4>1. j \in 1..Len(a) + Len(b) /\ j <= Len(a) /\ j \in 1..i-1
        BY <3>2, <3>4, <2>3
      <4>2. t[j] = a[j] /\ a[j] = s[j]
        BY <3>2, <2>3, <4>1
      <4> QED BY <4>2
    <3>5. ASSUME NEW j \in 1..Len(t), ~(j < i) PROVE t[j] = s[j+1]
      <4>1. t[j] = b[j - (i-1)] /\ j - (i-1) \in 1..Len(s)-i
        BY <3>2, <3>3, <3>5, <2>3
      <4>2. b[j - (i-1)] = s[(j - (i-1)) + i]
        BY <4>1, <2>3
      <4>3. (j - (i-1)) + i = j + 1
        OBVIOUS
      <4> QED BY <4>1, <4>2, <4>3
    <3> QED BY <3>2, <3>3, <3>4, <3>5
  <2> HIDE DEF t
  <2>5. IsInjective(t)
    <3> SUFFICES ASSUME NEW j \in 1..Len(t), NEW k \in 1..Len(t), t[j] = t[k] PROVE j = k
      BY <2>4 DEF IsInjective
    <3> DEFINE at(m) == IF m < i THEN m ELSE m+1
    <3>1. ASSUME NEW m \in 1..Len(t) PROVE at(m) \in 1..Len(s) /\ t[m] = s[at(m)]
      <4>1. /\ m \in Nat /\ m >= 1 /\ m + 1 \in 1..Len(s) /\ m \in 1..Len(s)
            /\ t[m] = IF m < i THEN s[m] ELSE s[m+1]
        BY <2>4
      <4> QED BY <4>1
    <3>2. at(j) = at(k)
      <4> HIDE DEF at
      <4> QED BY <3>1 DEF IsInjective
    <3> QED BY <3>2
  <2>6. Range(t) \subseteq Range(s) \ {c}
    BY <2>1, <2>4 DEF Range, IsInjective
  <2>7. ASSUME NEW x \in Range(s) \ {c} PROVE x \in Range(t)
    <3>1. PICK j \in 1..Len(s) : s[j] = x /\ j # i
      BY <2>1 DEF Range
    <3>2. x = t[IF j < i THEN j ELSE j-1]
      BY <3>1, <2>4
    <3> QED BY <3>1, <3>2, <2>4 DEF Range
  <2> QED BY <2>4, <2>5, <2>6, <2>7 DEF t
<1> QED BY <1>1, <1>2

LEMMA EmptyRange ==
  ASSUME NEW C, NEW s \in Seq(C)
  PROVE  s = <<>> <=> Range(s) = {}
BY DEF Range

LEMMA AppendRange ==
  ASSUME NEW C, NEW s \in Seq(C), NEW c \in C, IsInjective(s), c \notin Range(s)
  PROVE  /\ Append(s, c) \in Seq(C)
         /\ Append(s, c) # <<>>
         /\ IsInjective(Append(s, c))
         /\ Range(Append(s, c)) = Range(s) \cup {c}
<1> DEFINE t == Append(s, c)
<1>1. /\ t \in Seq(C)
      /\ Len(t) = Len(s) + 1
      /\ \A j \in 1..Len(t) : t[j] = IF j <= Len(s) THEN s[j] ELSE c
  OBVIOUS
<1> HIDE DEF t
<1>2. t # <<>>
  BY <1>1
<1>3. IsInjective(t)
  BY <1>1 DEF IsInjective, Range
<1>4. Range(t) = Range(s) \cup {c}
  <2>1. Range(t) \subseteq Range(s) \cup {c}
    BY <1>1 DEF Range
  <2>2. Range(s) \subseteq Range(t)
    BY <1>1 DEF Range
  <2>3. c \in Range(t)
    <3>1. t[Len(s) + 1] = c /\ Len(s) + 1 \in 1..Len(t)
      BY <1>1
    <3> QED BY <3>1, <1>1 DEF Range
  <2> QED BY <2>1, <2>2, <2>3
<1> QED BY <1>1, <1>2, <1>3, <1>4 DEF t

-----------------------------------------------------------------------------
(* One room's map *)

(* The map of a room: users with a non-empty slice of their own             *)
(* connections, none twice.                                                 *)
UserMap(m) ==
  /\ IsMap(m, Users)
  /\ \A u \in DOMAIN m :
       /\ m[u] \in Seq(Conns)
       /\ m[u] # <<>>
       /\ IsInjective(m[u])
       /\ \A x \in Range(m[u]) : UserOf[x] = u

Members(m) == UNION {Range(m[u]) : u \in DOMAIN m}

LEMMA EmptyUserMap ==
  /\ UserMap(<<>>)
  /\ Members(<<>>) = {}
  /\ DOMAIN <<>> = {}
BY DEF UserMap, IsMap, Members

LEMMA UsersAreMembersUsers ==
  ASSUME NEW m, UserMap(m)
  PROVE  DOMAIN m = {UserOf[c] : c \in Members(m)}
<1>1. ASSUME NEW u \in DOMAIN m PROVE u \in {UserOf[c] : c \in Members(m)}
  <2>1. m[u] \in Seq(Conns) /\ m[u] # <<>>
    BY DEF UserMap
  <2>2. Range(m[u]) # {}
    BY <2>1, EmptyRange
  <2> QED BY <2>2 DEF UserMap, Members
<1>2. ASSUME NEW c \in Members(m) PROVE UserOf[c] \in DOMAIN m
  BY DEF UserMap, Members
<1> QED BY <1>1, <1>2

LEMMA MembersByUser ==
  ASSUME NEW m, UserMap(m), NEW c \in Conns
  PROVE  /\ c \in Members(m) <=> c \in Range(Lookup(m, UserOf[c], <<>>))
         /\ Lookup(m, UserOf[c], <<>>) \in Seq(Conns)
         /\ IsInjective(Lookup(m, UserOf[c], <<>>))
         /\ Members(m) \subseteq Conns
<1>1. Members(m) \subseteq Conns
  <2>1. ASSUME NEW u \in DOMAIN m PROVE Range(m[u]) \subseteq Conns
    <3>1. m[u] \in Seq(Conns)
      BY DEF UserMap
    <3> QED BY <3>1 DEF Range
  <2> QED BY <2>1 DEF Members
<1>2. CASE UserOf[c] \in DOMAIN m
  BY <1>1, <1>2 DEF UserMap, Members, Lookup
<1>3. CASE UserOf[c] \notin DOMAIN m
  <2>1. Lookup(m, UserOf[c], <<>>) = <<>>
    BY <1>3 DEF Lookup
  <2>2. c \notin Members(m)
    BY <1>3 DEF UserMap, Members
  <2>3. Range(<<>>) = {} /\ IsInjective(<<>>) /\ <<>> \in Seq(Conns)
    BY DEF Range, IsInjective
  <2> QED BY <1>1, <2>1, <2>2, <2>3
<1> QED BY <1>2, <1>3

(* Cutting a connection out of its user's slice takes that connection, and  *)
(* no other, out of the room.                                               *)
LEMMA StripUserMembers ==
  ASSUME NEW m, UserMap(m), NEW c \in Conns
  PROVE  /\ UserMap(StripUser(m, UserOf[c], c))
         /\ Members(StripUser(m, UserOf[c], c)) = Members(m) \ {c}
<1> DEFINE u == UserOf[c]
           old == Lookup(m, u, <<>>)
           new == RemoveFirst(old, c)
           n == StripUser(m, u, c)
<1>1. /\ new \in Seq(Conns)
      /\ IsInjective(new)
      /\ Range(new) = Range(old) \ {c}
  BY MembersByUser, CutRange
<1>2. \A x \in Range(old) : UserOf[x] = u
  BY DEF UserMap, Lookup, Range
<1>3. u \in Users
  BY DEF Users
<1>4. \A v \in DOMAIN m : v # u => c \notin Range(m[v])
  BY DEF UserMap
<1>5. CASE new = <<>>
  <2>1. n = Restrict(m, DOMAIN m \ {u})
    BY <1>5 DEF StripUser, Delete
  <2>2. DOMAIN n = DOMAIN m \ {u} /\ \A v \in DOMAIN n : n[v] = m[v]
    BY <2>1 DEF Restrict
  <2>3. UserMap(n)
    BY <2>1, <2>2 DEF UserMap, IsMap, Restrict
  <2>4. Range(old) \subseteq {c}
    BY <1>1, <1>5, EmptyRange
  <2>5. Members(n) = Members(m) \ {c}
    BY <2>2, <2>4, <1>4 DEF Members, Lookup
  <2> QED BY <2>3, <2>5
<1>6. CASE new # <<>>
  <2>1. n = Store(m, u, new)
    BY <1>6 DEF StripUser
  <2>2. /\ DOMAIN n = DOMAIN m \cup {u}
        /\ n[u] = new
        /\ \A v \in DOMAIN m : v # u => n[v] = m[v]
    BY <2>1 DEF Store
  <2>3. IsMap(n, Users)
    BY <2>1, <2>2, <1>3 DEF IsMap, Store, UserMap
  <2>4. UserMap(n)
    BY <2>2, <2>3, <1>1, <1>2, <1>6 DEF UserMap
  <2>5. u \in DOMAIN m
    <3>1. Range(new) # {}
      BY <1>1, <1>6, EmptyRange
    <3>2. CASE u \notin DOMAIN m
      <4>1. old = <<>>
        BY <3>2 DEF Lookup
      <4> QED BY <4>1, <3>1, <1>1 DEF Range
    <3> QED BY <3>2
  <2>6. old = m[u] /\ DOMAIN n = DOMAIN m
    BY <2>5, <2>2 DEF Lookup
  <2>7. Members(n) = Members(m) \ {c}
    BY <2>2, <2>6, <1>1, <1>4 DEF Members
  <2> QED BY <2>4, <2>7
<1> QED BY <1>5, <1>6

LEMMA StoreUserMembers ==
  ASSUME NEW m, UserMap(m), NEW c \in Conns,
         c \notin Range(Lookup(m, UserOf[c], <<>>))
  PROVE  LET n == Store(m, UserOf[c], Append(Lookup(m, UserOf[c], <<>>), c))
         IN /\ UserMap(n)
            /\ Members(n) = Members(m) \cup {c}
            /\ DOMAIN n # {}
<1> DEFINE u == UserOf[c]
           old == Lookup(m, u, <<>>)
           new == Append(old, c)
           n == Store(m, u, new)
<1>1. /\ new \in Seq(Conns)
      /\ new # <<>>
      /\ IsInjective(new)
      /\ Range(new) = Range(old) \cup {c}
  BY MembersByUser, AppendRange
<1>2. \A x \in Range(old) : UserOf[x] = u
  BY DEF UserMap, Lookup, Range
<1>3. u \in Users
  BY DEF Users
<1> HIDE DEF new
<1>5. /\ DOMAIN n = DOMAIN m \cup {u}
      /\ n[u] = new
      /\ \A v \in DOMAIN m : v # u => n[v] = m[v]
  BY DEF Store
<1>6. IsMap(n, Users)
  BY <1>3 DEF IsMap, Store, UserMap
<1>7. UserMap(n)
  BY <1>1, <1>2, <1>5, <1>6 DEF UserMap
<1>8. u \notin DOMAIN m => Range(old) = {}
  BY DEF Lookup, Range
<1>9. u \in DOMAIN m => old = m[u]
  BY DEF Lookup
<1>10. Members(n) = Members(m) \cup {c}
  BY <1>1, <1>5, <1>8, <1>9 DEF Members
<1> QED BY <1>5, <1>7, <1>10 DEF new

-----------------------------------------------------------------------------
(* All rooms *)

RoomMaps ==
  /\ IsMap(rooms, RoomIDs)
  /\ \A r \in DOMAIN rooms : UserMap(rooms[r]) /\ DOMAIN rooms[r] # {}

LEMMA RecipientsAreMembers ==
  ASSUME RoomMaps, NEW r \in RoomIDs
  PROVE  /\ UserMap(Room(r))
         /\ Recipients(r) = Members(Room(r))
         /\ Recipients(r) \subseteq Conns
         /\ DOMAIN Room(r) = {UserOf[c] : c \in Recipients(r)}
         /\ r \in DOMAIN rooms <=> Recipients(r) # {}
<1>1. UserMap(Room(r))
  BY EmptyUserMap DEF RoomMaps, Room, Lookup
<1>2. Recipients(r) = Members(Room(r))
  BY DEF Recipients, Members
<1>3. Recipients(r) \subseteq Conns
  <2>1. ASSUME NEW u \in DOMAIN Room(r) PROVE Range(Room(r)[u]) \subseteq Conns
    <3>1. Room(r)[u] \in Seq(Conns)
      BY <1>1 DEF UserMap
    <3> QED BY <3>1 DEF Range
  <2> QED BY <2>1 DEF Recipients
<1>4. DOMAIN Room(r) = {UserOf[c] : c \in Recipients(r)}
  BY <1>1, <1>2, UsersAreMembersUsers
<1>5. r \in DOMAIN rooms <=> DOMAIN Room(r) # {}
  BY EmptyUserMap DEF RoomMaps, Room, Lookup
<1>6. DOMAIN Room(r) # {} <=> Recipients(r) # {}
  BY <1>4
<1> QED BY <1>1, <1>2, <1>3, <1>4, <1>5, <1>6

(* So a broadcast calls a connection's Send once, or not at all.            *)
LEMMA EntriesOfOne ==
  ASSUME RoomMaps, NEW r \in RoomIDs, NEW c
  PROVE  Entries(r, c) = IF c \in Recipients(r) THEN 1 ELSE 0
<1> DEFINE m == Room(r)
           places == UNION {{u} \X DOMAIN m[u] : u \in DOMAIN m}
           P == {p \in places : m[p[1]][p[2]] = c}
<1>1. Entries(r, c) = Cardinality(P)
  BY DEF Entries
<1>2. /\ UserMap(m) /\ Recipients(r) = Members(m)
  BY RecipientsAreMembers
<1> HIDE DEF m
<1>3. \A p \in P : /\ p = <<p[1], p[2]>> /\ p[1] \in DOMAIN m /\ p[2] \in DOMAIN m[p[1]]
                   /\ m[p[1]][p[2]] = c /\ c \in Members(m)
  BY DEF Members, Range
<1>4. CASE c \notin Members(m)
  <2>1. P = {}
    BY <1>3, <1>4
  <2> HIDE DEF P
  <2> QED BY <1>1, <1>2, <1>4, <2>1, FS_EmptySet
<1>5. CASE c \in Members(m)
  <2>1. PICK u \in DOMAIN m : c \in Range(m[u])
    BY <1>5 DEF Members
  <2>2. PICK i \in DOMAIN m[u] : m[u][i] = c
    BY <2>1 DEF Range
  <2>3. <<u, i>> \in P
    <3>1. <<u, i>> \in {u} \X DOMAIN m[u]
      BY <2>2
    <3> QED BY <2>1, <2>2, <3>1
  <2>4. ASSUME NEW p \in P PROVE p = <<u, i>>
    <3>1. p[1] = u
      <4>1. p[1] \in DOMAIN m /\ c \in Range(m[p[1]])
        BY <1>3 DEF Range
      <4>2. \A v \in DOMAIN m : c \in Range(m[v]) => UserOf[c] = v
        BY <1>2 DEF UserMap
      <4> QED BY <2>1, <4>1, <4>2
    <3>2. p[2] \in DOMAIN m[u] /\ m[u][p[2]] = m[u][i] /\ IsInjective(m[u])
      BY <1>2, <1>3, <2>1, <2>2, <3>1 DEF UserMap
    <3>3. p[2] = i
      BY <2>2, <3>2 DEF IsInjective
    <3> QED BY <1>3, <3>1, <3>3
  <2>5. P = {<<u, i>>}
    BY <2>3, <2>4
  <2> HIDE DEF P
  <2> QED BY <1>1, <1>2, <1>5, <2>5, FS_Singleton
<1> QED BY <1>4, <1>5

(* removeConn and disconnectAll take the connection out of the rooms they   *)
(* name and leave every other subscription alone.                           *)
LEMMA StripRecipients ==
  ASSUME RoomMaps, NEW c \in Conns, NEW R \in SUBSET RoomIDs,
         rooms' = StripRooms(R, UserOf[c], c)
  PROVE  /\ RoomMaps'
         /\ \A r \in RoomIDs :
              Recipients(r)' = IF r \in R THEN Recipients(r) \ {c} ELSE Recipients(r)
<1> DEFINE st == [r \in DOMAIN rooms |->
                    IF r \in R THEN StripUser(rooms[r], UserOf[c], c) ELSE rooms[r]]
           D == {r \in DOMAIN rooms : r \in R => DOMAIN st[r] # {}}
<1>1. rooms' = Restrict(st, D)
  BY DEF StripRooms
<1>2. /\ DOMAIN rooms' = D
      /\ \A r \in D : rooms'[r] = IF r \in R THEN StripUser(rooms[r], UserOf[c], c) ELSE rooms[r]
  BY <1>1 DEF Restrict
<1>3. IsMap(rooms, RoomIDs)'
  BY <1>1, <1>2 DEF IsMap, Restrict, RoomMaps
<1>4. ASSUME NEW r \in DOMAIN rooms'
      PROVE  UserMap(rooms[r])' /\ DOMAIN rooms'[r] # {}
  <2>1. CASE r \in R
    BY <1>2, <2>1, StripUserMembers DEF RoomMaps
  <2>2. CASE r \notin R
    BY <1>2, <2>2 DEF RoomMaps
  <2> QED BY <2>1, <2>2
<1>5. RoomMaps'
  BY <1>3, <1>4 DEF RoomMaps
<1>6. ASSUME NEW r \in RoomIDs
      PROVE  Recipients(r)' = IF r \in R THEN Recipients(r) \ {c} ELSE Recipients(r)
  <2>1. Recipients(r) = Members(Room(r)) /\ Recipients(r)' = Members(Room(r))'
    BY DEF Recipients, Members
  <2>2. CASE r \notin DOMAIN rooms
    <3>1. Room(r) = <<>> /\ Room(r)' = <<>>
      BY <1>2, <2>2 DEF Room, Lookup
    <3> QED BY <2>1, <3>1, EmptyUserMap
  <2>3. CASE r \in DOMAIN rooms /\ r \notin R
    <3>1. Room(r)' = Room(r)
      BY <1>2, <2>3 DEF Room, Lookup
    <3> QED BY <2>1, <2>3, <3>1
  <2>4. CASE r \in DOMAIN rooms /\ r \in R
    <3> DEFINE n == StripUser(rooms[r], UserOf[c], c)
    <3>1. UserMap(n) /\ Members(n) = Recipients(r) \ {c}
      BY <2>1, <2>4, StripUserMembers DEF RoomMaps, Room, Lookup
    <3>2. CASE DOMAIN n = {}
      <4>1. Room(r)' = <<>>
        BY <1>2, <2>4, <3>2 DEF Room, Lookup
      <4>2. Members(n) = {}
        BY <3>2 DEF Members
      <4> QED BY <2>1, <2>4, <3>1, <4>1, <4>2, EmptyUserMap
    <3>3. CASE DOMAIN n # {}
      <4>1. Room(r)' = n
        BY <1>2, <2>4, <3>3 DEF Room, Lookup
      <4>2. Members(Room(r))' = Members(n)
        BY <4>1 DEF Members
      <4> QED BY <2>1, <2>4, <3>1, <4>2
    <3> QED BY <3>2, <3>3
  <2> QED BY <2>2, <2>3, <2>4
<1> QED BY <1>5, <1>6

(* addConn brings a connection that was not in the room into it.            *)
LEMMA StoreRecipients ==
  ASSUME RoomMaps, NEW c \in Conns, NEW r \in RoomIDs,
         c \notin Range(UserConns(r, UserOf[c])),
         rooms' = Store(rooms, r, Store(Room(r), UserOf[c], Append(UserConns(r, UserOf[c]), c)))
  PROVE  /\ RoomMaps'
         /\ \A q \in RoomIDs :
              Recipients(q)' = IF q = r THEN Recipients(q) \cup {c} ELSE Recipients(q)
<1> DEFINE n == Store(Room(r), UserOf[c], Append(UserConns(r, UserOf[c]), c))
<1>1. UserMap(n) /\ Members(n) = Members(Room(r)) \cup {c} /\ DOMAIN n # {}
  BY RecipientsAreMembers, StoreUserMembers DEF UserConns
<1> HIDE DEF n
<1>2. rooms' = Store(rooms, r, n)
  BY DEF n
<1>3. /\ DOMAIN rooms' = DOMAIN rooms \cup {r}
      /\ rooms'[r] = n
      /\ \A q \in DOMAIN rooms : q # r => rooms'[q] = rooms[q]
  BY <1>2 DEF Store
<1>4. IsMap(rooms, RoomIDs)'
  BY <1>2, <1>3 DEF IsMap, Store, RoomMaps
<1>5. RoomMaps'
  BY <1>1, <1>3, <1>4 DEF RoomMaps
<1>6. ASSUME NEW q \in RoomIDs
      PROVE  Recipients(q)' = IF q = r THEN Recipients(q) \cup {c} ELSE Recipients(q)
  <2>1. Recipients(q) = Members(Room(q)) /\ Recipients(q)' = Members(Room(q))'
    BY DEF Recipients, Members
  <2>2. CASE q = r
    <3>1. Room(q)' = n
      BY <1>3, <2>2 DEF Room, Lookup
    <3>2. Members(Room(q))' = Members(n)
      BY <3>1 DEF Members
    <3> QED BY <1>1, <2>1, <2>2, <3>2
  <2>3. CASE q # r
    <3>1. Room(q)' = Room(q)
      BY <1>3, <2>3 DEF Room, Lookup
    <3> QED BY <2>1, <2>3, <3>1
  <2> QED BY <2>2, <2>3
<1> QED BY <1>5, <1>6

-----------------------------------------------------------------------------
(* The three maps under one request *)

ReverseMaps ==
  /\ IsMap(userIDs, Conns)
  /\ IsMap(connRooms, Conns)
  /\ DOMAIN userIDs = DOMAIN connRooms
  /\ \A c \in DOMAIN connRooms :
       connRooms[c] # {} /\ connRooms[c] \subseteq RoomIDs /\ userIDs[c] = UserOf[c]

IndexInv == RoomMaps /\ ReverseMaps /\ ReverseIndexAgrees

LEMMA AddConnIndex ==
  ASSUME IndexInv, NEW c \in Conns, NEW r \in RoomIDs, AddConn(c, UserOf[c], r)
  PROVE  IndexInv' /\ Subs' = Subs \cup {<<c, r>>}
<1>1. /\ c \in Recipients(r) <=> c \in Range(UserConns(r, UserOf[c]))
      /\ UserConns(r, UserOf[c]) \in Seq(Conns)
  BY RecipientsAreMembers, MembersByUser DEF IndexInv, UserConns
<1>2. Contains(UserConns(r, UserOf[c]), c) <=> c \in Recipients(r)
  BY <1>1 DEF Contains, Range
<1>3. IsMap(userIDs, Conns)'
  BY DEF AddConn, Store, IsMap, IndexInv, ReverseMaps
<1>4. CASE c \in Recipients(r)
  <2>1. rooms' = rooms /\ connRooms' = connRooms
    BY <1>2, <1>4 DEF AddConn
  <2>2. c \in DOMAIN connRooms
    BY <1>4 DEF IndexInv, ReverseIndexAgrees, ConnRooms, Lookup
  <2>3. userIDs' = userIDs
    BY <2>2 DEF AddConn, Store, IndexInv, ReverseMaps, IsMap
  <2>4. IndexInv'
    BY <2>1, <2>3 DEF IndexInv, RoomMaps, ReverseMaps, ReverseIndexAgrees, Recipients, Room, ConnRooms
  <2>5. Subs' = Subs
    BY <2>1 DEF Subs, Recipients, Room
  <2> QED BY <1>4, <2>4, <2>5 DEF Subs
<1>5. CASE c \notin Recipients(r)
  <2>1. /\ rooms' = Store(rooms, r, Store(Room(r), UserOf[c], Append(UserConns(r, UserOf[c]), c)))
        /\ connRooms' = Store(connRooms, c, ConnRooms(c) \cup {r})
        /\ userIDs' = Store(userIDs, c, UserOf[c])
    BY <1>2, <1>5 DEF AddConn
  <2>2. /\ RoomMaps'
        /\ \A q \in RoomIDs :
             Recipients(q)' = IF q = r THEN Recipients(q) \cup {c} ELSE Recipients(q)
    BY <1>1, <1>5, <2>1, StoreRecipients DEF IndexInv
  <2>3. /\ DOMAIN connRooms' = DOMAIN connRooms \cup {c}
        /\ connRooms'[c] = ConnRooms(c) \cup {r}
        /\ \A d \in DOMAIN connRooms : d # c => connRooms'[d] = connRooms[d]
        /\ DOMAIN userIDs' = DOMAIN userIDs \cup {c}
        /\ userIDs'[c] = UserOf[c]
        /\ \A d \in DOMAIN userIDs : d # c => userIDs'[d] = userIDs[d]
    BY <2>1 DEF Store
  <2>4. ConnRooms(c) \subseteq RoomIDs
    BY DEF ConnRooms, Lookup, IndexInv, ReverseMaps
  <2>5. IsMap(connRooms, Conns)'
    BY <2>1, <2>3 DEF IsMap, Store, IndexInv, ReverseMaps
  <2>6. ReverseMaps'
    BY <1>3, <2>3, <2>4, <2>5 DEF ReverseMaps, IndexInv
  <2>7. \A d \in Conns : ConnRooms(d)' = IF d = c THEN ConnRooms(d) \cup {r} ELSE ConnRooms(d)
    BY <2>3 DEF ConnRooms, Lookup
  <2>8. ReverseIndexAgrees'
    BY <2>2, <2>7 DEF IndexInv, ReverseIndexAgrees
  <2>9. Subs' = Subs \cup {<<c, r>>}
    BY <2>2 DEF Subs
  <2> QED BY <2>2, <2>6, <2>8, <2>9 DEF IndexInv
<1> QED BY <1>4, <1>5

LEMMA RemoveConnIndex ==
  ASSUME IndexInv, NEW c \in Conns, NEW r \in RoomIDs, RemoveConn(c, r)
  PROVE  IndexInv' /\ Subs' = Subs \ {<<c, r>>}
<1>1. CASE c \notin DOMAIN userIDs
  <2>1. UNCHANGED <<rooms, userIDs, connRooms>>
    BY <1>1 DEF RemoveConn, index
  <2>2. IndexInv'
    BY <2>1 DEF IndexInv, RoomMaps, ReverseMaps, ReverseIndexAgrees, Recipients, Room, ConnRooms
  <2>3. ConnRooms(c) = {}
    BY <1>1 DEF ConnRooms, Lookup, IndexInv, ReverseMaps
  <2>4. c \notin Recipients(r)
    BY <2>3 DEF IndexInv, ReverseIndexAgrees
  <2>5. Subs' = Subs
    BY <2>1 DEF Subs, Recipients, Room
  <2> QED BY <2>2, <2>4, <2>5 DEF Subs
<1>2. CASE c \in DOMAIN userIDs
  <2>1. c \in DOMAIN connRooms /\ userIDs[c] = UserOf[c] /\ ConnRooms(c) = connRooms[c]
    BY <1>2 DEF IndexInv, ReverseMaps, ConnRooms, Lookup
  <2>2. /\ RoomMaps'
        /\ \A q \in RoomIDs :
             Recipients(q)' = IF q \in {r} THEN Recipients(q) \ {c} ELSE Recipients(q)
    <3>1. rooms' = StripRooms({r}, UserOf[c], c)
      BY <1>2, <2>1 DEF RemoveConn
    <3> QED BY <3>1, StripRecipients DEF IndexInv
  <2>3. /\ ReverseMaps'
        /\ \A d \in Conns : ConnRooms(d)' = IF d = c THEN ConnRooms(d) \ {r} ELSE ConnRooms(d)
    <3>1. CASE ConnRooms(c) \subseteq {r}
      <4>1. connRooms' = Delete(connRooms, c) /\ userIDs' = Delete(userIDs, c)
        BY <1>2, <3>1 DEF RemoveConn
      <4>2. /\ DOMAIN connRooms' = DOMAIN connRooms \ {c}
            /\ DOMAIN userIDs' = DOMAIN userIDs \ {c}
            /\ \A d \in DOMAIN connRooms' : connRooms'[d] = connRooms[d]
            /\ \A d \in DOMAIN userIDs' : userIDs'[d] = userIDs[d]
        BY <4>1 DEF Delete, Restrict
      <4>3. IsMap(userIDs, Conns)' /\ IsMap(connRooms, Conns)'
        BY <4>1, <4>2 DEF IsMap, Delete, Restrict, IndexInv, ReverseMaps
      <4>4. ReverseMaps'
        BY <4>2, <4>3 DEF ReverseMaps, IndexInv
      <4> QED BY <2>1, <3>1, <4>2, <4>4 DEF ConnRooms, Lookup
    <3>2. CASE ~(ConnRooms(c) \subseteq {r})
      <4>1. connRooms' = Store(connRooms, c, ConnRooms(c) \ {r}) /\ userIDs' = userIDs
        BY <1>2, <3>2 DEF RemoveConn
      <4>2. /\ DOMAIN connRooms' = DOMAIN connRooms
            /\ connRooms'[c] = ConnRooms(c) \ {r}
            /\ \A d \in DOMAIN connRooms : d # c => connRooms'[d] = connRooms[d]
        BY <2>1, <4>1 DEF Store
      <4>3. IsMap(userIDs, Conns)' /\ IsMap(connRooms, Conns)'
        BY <4>1, <4>2 DEF IsMap, Store, IndexInv, ReverseMaps
      <4>4. ReverseMaps'
        BY <2>1, <3>2, <4>1, <4>2, <4>3 DEF ReverseMaps, IndexInv
      <4> QED BY <2>1, <4>2, <4>4 DEF ConnRooms, Lookup
    <3> QED BY <3>1, <3>2
  <2>4. ReverseIndexAgrees'
    BY <2>2, <2>3 DEF IndexInv, ReverseIndexAgrees
  <2>5. Subs' = Subs \ {<<c, r>>}
    BY <2>2 DEF Subs
  <2> QED BY <2>2, <2>3, <2>4, <2>5 DEF IndexInv
<1> QED BY <1>1, <1>2

(* disconnectAll walks the reverse index only; that rooms agrees with it is *)
(* what makes it remove every subscription of the connection.               *)
LEMMA DisconnectAllIndex ==
  ASSUME IndexInv, NEW c \in Conns, DisconnectAll(c)
  PROVE  IndexInv' /\ Subs' = {s \in Subs : s[1] # c}
<1>1. CASE c \notin DOMAIN userIDs
  <2>1. UNCHANGED <<rooms, userIDs, connRooms>>
    BY <1>1 DEF DisconnectAll, index
  <2>2. IndexInv'
    BY <2>1 DEF IndexInv, RoomMaps, ReverseMaps, ReverseIndexAgrees, Recipients, Room, ConnRooms
  <2>3. ConnRooms(c) = {}
    BY <1>1 DEF ConnRooms, Lookup, IndexInv, ReverseMaps
  <2>4. \A r \in RoomIDs : c \notin Recipients(r)
    BY <2>3 DEF IndexInv, ReverseIndexAgrees
  <2>5. Subs' = Subs
    BY <2>1 DEF Subs, Recipients, Room
  <2> QED BY <2>2, <2>4, <2>5 DEF Subs
<1>2. CASE c \in DOMAIN userIDs
  <2>1. c \in DOMAIN connRooms /\ userIDs[c] = UserOf[c] /\ ConnRooms(c) \subseteq RoomIDs
    BY <1>2 DEF IndexInv, ReverseMaps, ConnRooms, Lookup
  <2>2. /\ RoomMaps'
        /\ \A q \in RoomIDs :
             Recipients(q)' = IF q \in ConnRooms(c) THEN Recipients(q) \ {c} ELSE Recipients(q)
    <3>1. rooms' = StripRooms(ConnRooms(c), UserOf[c], c)
      BY <1>2, <2>1 DEF DisconnectAll
    <3> QED BY <2>1, <3>1, StripRecipients DEF IndexInv
  <2>3. \A q \in RoomIDs : Recipients(q)' = Recipients(q) \ {c}
    BY <2>2 DEF IndexInv, ReverseIndexAgrees
  <2>4. connRooms' = Delete(connRooms, c) /\ userIDs' = Delete(userIDs, c)
    BY <1>2 DEF DisconnectAll
  <2>5. /\ DOMAIN connRooms' = DOMAIN connRooms \ {c}
        /\ DOMAIN userIDs' = DOMAIN userIDs \ {c}
        /\ \A d \in DOMAIN connRooms' : connRooms'[d] = connRooms[d]
        /\ \A d \in DOMAIN userIDs' : userIDs'[d] = userIDs[d]
    BY <2>4 DEF Delete, Restrict
  <2>6. IsMap(userIDs, Conns)' /\ IsMap(connRooms, Conns)'
    BY <2>4, <2>5 DEF IsMap, Delete, Restrict, IndexInv, ReverseMaps
  <2>7. ReverseMaps'
    BY <2>5, <2>6 DEF ReverseMaps, IndexInv
  <2>8. \A d \in Conns : ConnRooms(d)' = IF d = c THEN {} ELSE ConnRooms(d)
    BY <2>5 DEF ConnRooms, Lookup
  <2>9. ReverseIndexAgrees'
    BY <2>3, <2>8 DEF IndexInv, ReverseIndexAgrees
  <2>10. Subs' = {s \in Subs : s[1] # c}
    BY <2>3 DEF Subs
  <2> QED BY <2>2, <2>7, <2>9, <2>10 DEF IndexInv
<1> QED BY <1>1, <1>2

-----------------------------------------------------------------------------
(* The inductive invariant *)

(* Register sends the connection's own user along. *)
TrueRegistration == {m \in ConnRegistration : m.userID = UserOf[m.conn]}

ChannelsOK ==
  /\ register \in Seq(TrueRegistration)
  /\ unregister \in Seq(ConnUnregistration)
  /\ disconnect \in Seq(Conns)
  /\ broadcast \in Seq(BroadcastMessage)
  /\ roomCount \in Seq(RoomCountRequest)

CallersOK ==
  /\ slow \subseteq Conns
  /\ countCh \in [Callers -> Seq(Nat)]
  /\ waiting \subseteq Callers
  /\ running \in BOOLEAN

IInv == IndexInv /\ ChannelsOK /\ CallersOK

LEMMA InitInv == Init => IInv
<1> SUFFICES ASSUME Init PROVE IInv
  OBVIOUS
<1>1. RoomMaps
  BY DEF Init, RoomMaps, IsMap
<1>2. ReverseMaps
  BY DEF Init, ReverseMaps, IsMap
<1>3. ReverseIndexAgrees
  BY DEF Init, ReverseIndexAgrees, Recipients, Room, ConnRooms, Lookup
<1>4. ChannelsOK /\ CallersOK
  BY DEF Init, ChannelsOK, CallersOK
<1> QED BY <1>1, <1>2, <1>3, <1>4 DEF IInv, IndexInv

(* A step that leaves the three maps alone. *)
LEMMA SameIndex ==
  ASSUME IndexInv, UNCHANGED index
  PROVE  IndexInv' /\ Subs' = Subs
BY DEF IndexInv, index, RoomMaps, ReverseMaps, ReverseIndexAgrees, Recipients, Room,
       ConnRooms, Subs

(* A count is the number of users that a subscription of the room has. *)
LEMMA CountOfRoom ==
  ASSUME IndexInv, NEW r \in RoomIDs
  PROVE  /\ RoomUserCount(r) = S!Cardinality(S!UsersIn(r))
         /\ RoomUserCount(r) \in Nat
         /\ S!Subscribers(r) = Recipients(r)
<1>1. Recipients(r) \subseteq Conns /\ DOMAIN Room(r) = {UserOf[c] : c \in Recipients(r)}
  BY RecipientsAreMembers DEF IndexInv
<1>2. S!Subscribers(r) = Recipients(r)
  BY <1>1 DEF S!Subscribers, Subs
<1>3. S!UsersIn(r) = DOMAIN Room(r)
  BY <1>1, <1>2 DEF S!UsersIn
<1>4. IsFiniteSet(Recipients(r))
  BY <1>1, HubAssumption, FS_Subset
<1>5. IsFiniteSet(DOMAIN Room(r))
  <2> DEFINE f == [c \in Recipients(r) |-> UserOf[c]]
  <2>1. f \in Surjection(Recipients(r), DOMAIN Room(r))
    BY <1>1 DEF Surjection
  <2> HIDE DEF f
  <2> QED BY <2>1, <1>4, FS_Surjection
<1>6. RoomUserCount(r) = S!Cardinality(S!UsersIn(r))
  BY <1>3, Zenon DEF RoomUserCount, S!Cardinality, Cardinality
<1> QED BY <1>2, <1>5, <1>6, FS_CardinalityType DEF RoomUserCount

(* Every step preserves the invariant and is a step of RoomSubscriptions,   *)
(* or changes nothing there.                                                *)
LEMMA StepInv ==
  ASSUME IInv, [Next]_vars
  PROVE  IInv' /\ [S!Next]_(S!vars)
<1> USE DEF IInv
<1>1. ASSUME NEW c \in Conns, NEW r \in RoomIDs, Register(c, r)
      PROVE  IInv' /\ [S!Next]_(S!vars)
  <2>1. [conn |-> c, userID |-> UserOf[c], roomID |-> r] \in TrueRegistration
    BY DEF TrueRegistration, ConnRegistration, Users
  <2>2. ChannelsOK' /\ CallersOK'
    BY <1>1, <2>1 DEF Register, ChannelsOK, CallersOK
  <2>3. IndexInv' /\ Subs' = Subs
    BY <1>1, SameIndex DEF Register
  <2> QED BY <1>1, <2>2, <2>3 DEF Register, S!vars
<1>2. ASSUME NEW c \in Conns, NEW r \in RoomIDs, Unregister(c, r)
      PROVE  IInv' /\ [S!Next]_(S!vars)
  <2>1. ChannelsOK' /\ CallersOK'
    BY <1>2 DEF Unregister, ChannelsOK, CallersOK, ConnUnregistration
  <2>2. IndexInv' /\ Subs' = Subs
    BY <1>2, SameIndex DEF Unregister
  <2> QED BY <1>2, <2>1, <2>2 DEF Unregister, S!vars
<1>3. ASSUME NEW c \in Conns, Disconnect(c)
      PROVE  IInv' /\ [S!Next]_(S!vars)
  <2>1. ChannelsOK' /\ CallersOK'
    BY <1>3 DEF Disconnect, ChannelsOK, CallersOK
  <2>2. IndexInv' /\ Subs' = Subs
    BY <1>3, SameIndex DEF Disconnect
  <2> QED BY <1>3, <2>1, <2>2 DEF Disconnect, S!vars
<1>4. ASSUME NEW r \in RoomIDs, NEW e \in Events, BroadcastToRoom(r, e)
      PROVE  IInv' /\ [S!Next]_(S!vars)
  <2>1. ChannelsOK' /\ CallersOK'
    BY <1>4 DEF BroadcastToRoom, ChannelsOK, CallersOK, BroadcastMessage
  <2>2. IndexInv' /\ Subs' = Subs
    BY <1>4, SameIndex DEF BroadcastToRoom
  <2> QED BY <1>4, <2>1, <2>2 DEF BroadcastToRoom, S!vars
<1>5. ASSUME NEW k \in Callers, NEW r \in RoomIDs, AskRoomUserCount(k, r)
      PROVE  IInv' /\ [S!Next]_(S!vars)
  <2>1. ChannelsOK' /\ CallersOK'
    BY <1>5 DEF AskRoomUserCount, ChannelsOK, CallersOK, RoomCountRequest
  <2>2. IndexInv' /\ Subs' = Subs
    BY <1>5, SameIndex DEF AskRoomUserCount
  <2> QED BY <1>5, <2>1, <2>2 DEF AskRoomUserCount, S!vars
<1>6. ASSUME RunRegister
      PROVE  IInv' /\ [S!Next]_(S!vars)
  <2> DEFINE m == Head(register)
  <2>1. m \in TrueRegistration /\ Tail(register) \in Seq(TrueRegistration)
    BY <1>6 DEF RunRegister, ChannelsOK
  <2>2. m.conn \in Conns /\ m.roomID \in RoomIDs /\ m.userID = UserOf[m.conn]
    BY <2>1 DEF TrueRegistration, ConnRegistration
  <2>3. IndexInv' /\ Subs' = Subs \cup {<<m.conn, m.roomID>>}
    BY <1>6, <2>2, AddConnIndex DEF RunRegister
  <2>4. ChannelsOK' /\ CallersOK'
    BY <1>6, <2>1 DEF RunRegister, ChannelsOK, CallersOK
  <2>5. S!Subscribe(m.conn, m.roomID)
    BY <1>6, <2>3 DEF RunRegister, S!Subscribe
  <2> QED BY <2>2, <2>3, <2>4, <2>5 DEF S!Next
<1>7. ASSUME RunUnregister
      PROVE  IInv' /\ [S!Next]_(S!vars)
  <2> DEFINE m == Head(unregister)
  <2>1. m \in ConnUnregistration /\ Tail(unregister) \in Seq(ConnUnregistration)
    BY <1>7 DEF RunUnregister, ChannelsOK
  <2>2. m.conn \in Conns /\ m.roomID \in RoomIDs
    BY <2>1 DEF ConnUnregistration
  <2>3. IndexInv' /\ Subs' = Subs \ {<<m.conn, m.roomID>>}
    BY <1>7, <2>2, RemoveConnIndex DEF RunUnregister
  <2>4. ChannelsOK' /\ CallersOK'
    BY <1>7, <2>1 DEF RunUnregister, ChannelsOK, CallersOK
  <2>5. S!Unsubscribe(m.conn, m.roomID)
    BY <1>7, <2>3 DEF RunUnregister, S!Unsubscribe
  <2> QED BY <2>2, <2>3, <2>4, <2>5 DEF S!Next
<1>8. ASSUME RunDisconnect
      PROVE  IInv' /\ [S!Next]_(S!vars)
  <2> DEFINE c == Head(disconnect)
  <2>1. c \in Conns /\ Tail(disconnect) \in Seq(Conns)
    BY <1>8 DEF RunDisconnect, ChannelsOK
  <2>2. IndexInv' /\ Subs' = {s \in Subs : s[1] # c}
    BY <1>8, <2>1, DisconnectAllIndex DEF RunDisconnect
  <2>3. ChannelsOK' /\ CallersOK'
    BY <1>8, <2>1 DEF RunDisconnect, ChannelsOK, CallersOK
  <2>4. S!Drop(c)
    BY <1>8, <2>2 DEF RunDisconnect, S!Drop
  <2> QED BY <2>1, <2>2, <2>3, <2>4 DEF S!Next
<1>9. ASSUME NEW accepted \in SUBSET Conns, RunBroadcast(accepted)
      PROVE  IInv' /\ [S!Next]_(S!vars)
  <2> DEFINE r == Head(broadcast).roomID
  <2>1. r \in RoomIDs /\ Tail(broadcast) \in Seq(BroadcastMessage)
    <3>1. Head(broadcast) \in BroadcastMessage /\ Tail(broadcast) \in Seq(BroadcastMessage)
      BY <1>9 DEF RunBroadcast, ChannelsOK
    <3> QED BY <3>1 DEF BroadcastMessage
  <2>2. IndexInv' /\ Subs' = Subs
    BY <1>9, SameIndex DEF RunBroadcast
  <2>3. S!Subscribers(r) = Recipients(r) /\ Recipients(r) \subseteq Conns
    BY <2>1, CountOfRoom, RecipientsAreMembers DEF IndexInv
  <2>4. slow' = slow \cup (Recipients(r) \ accepted)
    BY <1>9 DEF RunBroadcast, SendToRoom
  <2>5. ChannelsOK' /\ CallersOK'
    BY <1>9, <2>1, <2>3, <2>4 DEF RunBroadcast, ChannelsOK, CallersOK
  <2>6. S!Broadcast(r)
    BY <1>9, <2>2, <2>3, <2>4 DEF RunBroadcast, S!Broadcast
  <2> QED BY <2>1, <2>2, <2>5, <2>6 DEF S!Next
<1>10. ASSUME RunRoomCount
      PROVE  IInv' /\ [S!Next]_(S!vars)
  <2> DEFINE m == Head(roomCount)
  <2>1. m \in RoomCountRequest /\ Tail(roomCount) \in Seq(RoomCountRequest)
    BY <1>10 DEF RunRoomCount, ChannelsOK
  <2>2. m.roomID \in RoomIDs /\ m.caller \in Callers
    BY <2>1 DEF RoomCountRequest
  <2>3. IndexInv' /\ Subs' = Subs
    BY <1>10, SameIndex DEF RunRoomCount
  <2>4. /\ RoomUserCount(m.roomID) = S!Cardinality(S!UsersIn(m.roomID))
        /\ RoomUserCount(m.roomID) \in Nat
    BY <2>2, CountOfRoom
  <2>5. ChannelsOK' /\ CallersOK'
    BY <1>10, <2>1, <2>2, <2>4 DEF RunRoomCount, ChannelsOK, CallersOK
  <2>6. S!Answer(m.caller, m.roomID)
    BY <1>10, <2>3, <2>4 DEF RunRoomCount, S!Answer
  <2> QED BY <2>2, <2>3, <2>5, <2>6 DEF S!Next
<1>11. ASSUME RunStop
      PROVE  IInv' /\ [S!Next]_(S!vars)
  <2>1. IndexInv' /\ Subs' = Subs
    BY <1>11, SameIndex DEF RunStop
  <2> QED BY <1>11, <2>1 DEF RunStop, ChannelsOK, CallersOK, S!vars
<1>12. ASSUME NEW k \in Callers, TakeRoomUserCount(k)
      PROVE  IInv' /\ [S!Next]_(S!vars)
  <2>1. IndexInv' /\ Subs' = Subs
    BY <1>12, SameIndex DEF TakeRoomUserCount
  <2>2. ChannelsOK' /\ CallersOK'
    BY <1>12 DEF TakeRoomUserCount, ChannelsOK, CallersOK
  <2>3. S!Take(k)
    BY <1>12, <2>1 DEF TakeRoomUserCount, S!Take
  <2> QED BY <2>1, <2>2, <2>3 DEF S!Next
<1>13. ASSUME NEW c \in Conns, CloseSlow(c)
      PROVE  IInv' /\ [S!Next]_(S!vars)
  <2>1. IndexInv' /\ Subs' = Subs
    BY <1>13, SameIndex DEF CloseSlow
  <2>2. ChannelsOK' /\ CallersOK'
    BY <1>13 DEF CloseSlow, ChannelsOK, CallersOK
  <2>3. S!Closed(c)
    BY <1>13, <2>1 DEF CloseSlow, S!Closed
  <2> QED BY <2>1, <2>2, <2>3 DEF S!Next
<1>14. CASE UNCHANGED vars
  <2>1. UNCHANGED index
    BY <1>14 DEF vars
  <2>2. IndexInv' /\ Subs' = Subs
    BY <2>1, SameIndex
  <2> QED BY <1>14, <2>2 DEF vars, ChannelsOK, CallersOK, S!vars
<1> QED
  BY <1>1, <1>2, <1>3, <1>4, <1>5, <1>6, <1>7, <1>8, <1>9, <1>10, <1>11, <1>12, <1>13, <1>14
     DEF Next, Call, Run

-----------------------------------------------------------------------------
(* The calls of GetRoomUserCount *)

(* Call k has a request on roomCount. *)
Queued(k) == \E i \in DOMAIN roomCount : roomCount[i].caller = k

(* OneAnswerPerCall, said of each request and each call. *)
AnswersOK ==
  /\ \A i, j \in DOMAIN roomCount : roomCount[i].caller = roomCount[j].caller => i = j
  /\ \A k \in Callers : Queued(k) => countCh[k] = <<>>
  /\ \A k \in Callers : k \in waiting <=> Queued(k) \/ countCh[k] # <<>>

LEMMA SameAnswers ==
  ASSUME AnswersOK, UNCHANGED <<roomCount, countCh, waiting>>
  PROVE  AnswersOK'
BY DEF AnswersOK, Queued

LEMMA AskAnswers ==
  ASSUME IInv, AnswersOK, NEW k \in Callers, NEW r \in RoomIDs, AskRoomUserCount(k, r)
  PROVE  AnswersOK'
<1> DEFINE n == Len(roomCount)
<1>1. roomCount \in Seq(RoomCountRequest) /\ n \in Nat /\ DOMAIN roomCount = 1 .. n
  BY DEF IInv, ChannelsOK
<1>2. [roomID |-> r, caller |-> k] \in RoomCountRequest
  BY DEF RoomCountRequest
<1>3. /\ DOMAIN roomCount' = 1 .. n + 1
      /\ \A i \in 1 .. n : roomCount'[i] = roomCount[i]
      /\ roomCount'[n + 1].caller = k
  BY <1>1, <1>2 DEF AskRoomUserCount
<1>4. countCh' = countCh /\ waiting' = waiting \cup {k} /\ k \notin waiting
  BY DEF AskRoomUserCount
<1>5. ~Queued(k) /\ countCh[k] = <<>>
  BY <1>4 DEF AnswersOK
<1> HIDE DEF n
<1>6. \A j \in Callers : Queued(j)' <=> Queued(j) \/ j = k
  <2> SUFFICES ASSUME NEW j \in Callers PROVE Queued(j)' <=> Queued(j) \/ j = k
    OBVIOUS
  <2>1. Queued(j)' <=> \E i \in 1 .. n + 1 : roomCount'[i].caller = j
    BY <1>3 DEF Queued
  <2>2. Queued(j) <=> \E i \in 1 .. n : roomCount[i].caller = j
    BY <1>1 DEF Queued
  <2>3. 1 .. n + 1 = (1 .. n) \cup {n + 1}
    BY <1>1
  <2> QED BY <1>3, <2>1, <2>2, <2>3
<1>7. ASSUME NEW i \in 1 .. n + 1, NEW j \in 1 .. n + 1,
             roomCount'[i].caller = roomCount'[j].caller
      PROVE  i = j
  <2>1. \A l \in 1 .. n : roomCount[l].caller # k
    BY <1>1, <1>5 DEF Queued
  <2>2. CASE i \in 1 .. n /\ j \in 1 .. n
    <3>1. roomCount[i].caller = roomCount[j].caller
      BY <1>3, <1>7, <2>2
    <3> QED BY <1>1, <2>2, <3>1 DEF AnswersOK
  <2>3. i \in 1 .. n \/ i = n + 1
    BY <1>1
  <2>4. j \in 1 .. n \/ j = n + 1
    BY <1>1
  <2> QED BY <1>3, <1>7, <2>1, <2>2, <2>3, <2>4
<1>8. \A i, j \in DOMAIN roomCount' : roomCount'[i].caller = roomCount'[j].caller => i = j
  BY <1>3, <1>7
<1>9. ASSUME NEW j \in Callers
      PROVE  /\ Queued(j)' => countCh'[j] = <<>>
             /\ j \in waiting' <=> Queued(j)' \/ countCh'[j] # <<>>
  BY <1>4, <1>5, <1>6 DEF AnswersOK
<1> QED BY <1>8, <1>9 DEF AnswersOK

(* Run takes the only request of its caller, whose channel is empty.        *)
LEMMA CountAnswers ==
  ASSUME IInv, AnswersOK, RunRoomCount
  PROVE  AnswersOK' /\ countCh[Head(roomCount).caller] = <<>>
<1> DEFINE n == Len(roomCount)
           k == Head(roomCount).caller
<1>1. /\ roomCount \in Seq(RoomCountRequest) /\ n \in Nat /\ n >= 1
      /\ DOMAIN roomCount = 1 .. n /\ 1 \in 1 .. n
  BY DEF IInv, ChannelsOK, RunRoomCount
<1>2. roomCount[1].caller = k /\ k \in Callers
  <2>1. Head(roomCount) = roomCount[1] /\ roomCount[1] \in RoomCountRequest
    BY <1>1
  <2> QED BY <2>1 DEF RoomCountRequest
<1>3. /\ DOMAIN roomCount' = 1 .. n - 1
      /\ \A i \in 1 .. n - 1 : roomCount'[i] = roomCount[i + 1] /\ i + 1 \in 1 .. n
  BY <1>1 DEF RunRoomCount
<1>4. /\ waiting' = waiting /\ countCh'[k] # <<>>
      /\ \A j \in Callers \ {k} : countCh'[j] = countCh[j]
  <2>1. waiting' = waiting
        /\ countCh' = [countCh EXCEPT ![k] = <<RoomUserCount(Head(roomCount).roomID)>>]
    BY DEF RunRoomCount
  <2>2. countCh \in [Callers -> Seq(Nat)]
    BY DEF IInv, CallersOK
  <2>3. \A x : <<x>> # <<>>
    OBVIOUS
  <2> HIDE DEF k
  <2> QED BY <1>2, <2>1, <2>2, <2>3
<1> HIDE DEF n, k
<1>5. Queued(k) /\ countCh[k] = <<>> /\ k \in waiting
  <2>1. Queued(k)
    BY <1>1, <1>2 DEF Queued
  <2> QED BY <1>2, <2>1 DEF AnswersOK
<1>6. \A j \in Callers : Queued(j)' <=> Queued(j) /\ j # k
  <2> SUFFICES ASSUME NEW j \in Callers PROVE Queued(j)' <=> Queued(j) /\ j # k
    OBVIOUS
  <2>1. ASSUME Queued(j)' PROVE Queued(j) /\ j # k
    <3>1. PICK i \in 1 .. n - 1 : roomCount[i + 1].caller = j /\ i + 1 \in 1 .. n
      BY <1>3, <2>1 DEF Queued
    <3>2. i + 1 # 1
      BY <1>1
    <3>3. j # k
      BY <1>1, <1>2, <3>1, <3>2 DEF AnswersOK
    <3> QED BY <1>1, <3>1, <3>3 DEF Queued
  <2>2. ASSUME Queued(j), j # k PROVE Queued(j)'
    <3>1. PICK i \in 1 .. n : roomCount[i].caller = j
      BY <1>1, <2>2 DEF Queued
    <3>2. i # 1
      BY <1>2, <2>2, <3>1
    <3>3. i - 1 \in 1 .. n - 1 /\ (i - 1) + 1 = i
      BY <1>1, <3>2
    <3>4. roomCount'[i - 1].caller = j
      BY <1>3, <3>1, <3>3
    <3> QED BY <1>3, <3>3, <3>4 DEF Queued
  <2> QED BY <2>1, <2>2
<1>7. ASSUME NEW i \in 1 .. n - 1, NEW j \in 1 .. n - 1,
             roomCount'[i].caller = roomCount'[j].caller
      PROVE  i = j
  <2>1. i + 1 \in 1 .. n /\ j + 1 \in 1 .. n /\ roomCount[i + 1].caller = roomCount[j + 1].caller
    BY <1>3, <1>7
  <2>2. i + 1 = j + 1
    BY <1>1, <2>1 DEF AnswersOK
  <2> QED BY <1>1, <2>2
<1>8. \A i, j \in DOMAIN roomCount' : roomCount'[i].caller = roomCount'[j].caller => i = j
  BY <1>3, <1>7
<1>9. ASSUME NEW j \in Callers
      PROVE  /\ Queued(j)' => countCh'[j] = <<>>
             /\ j \in waiting' <=> Queued(j)' \/ countCh'[j] # <<>>
  <2>1. CASE j = k
    BY <1>4, <1>5, <1>6, <2>1
  <2>2. CASE j # k
    BY <1>4, <1>6, <2>2 DEF AnswersOK
  <2> QED BY <2>1, <2>2
<1>10. AnswersOK'
  BY <1>8, <1>9 DEF AnswersOK
<1> QED BY <1>5, <1>10 DEF k

LEMMA TakeAnswers ==
  ASSUME IInv, AnswersOK, NEW k \in Callers, TakeRoomUserCount(k)
  PROVE  AnswersOK'
<1>1. /\ roomCount' = roomCount /\ waiting' = waiting \ {k} /\ countCh'[k] = <<>>
      /\ \A j \in Callers \ {k} : countCh'[j] = countCh[j]
  BY DEF TakeRoomUserCount, IInv, CallersOK
<1>2. ~Queued(k)
  BY DEF TakeRoomUserCount, AnswersOK
<1>3. \A j : Queued(j)' <=> Queued(j)
  BY <1>1 DEF Queued
<1>4. ASSUME NEW j \in Callers
      PROVE  /\ Queued(j)' => countCh'[j] = <<>>
             /\ j \in waiting' <=> Queued(j)' \/ countCh'[j] # <<>>
  <2>1. CASE j = k
    BY <1>1, <1>2, <1>3, <2>1
  <2>2. CASE j # k
    BY <1>1, <1>3, <2>2 DEF AnswersOK
  <2> QED BY <2>1, <2>2
<1> QED BY <1>1, <1>4 DEF AnswersOK

LEMMA StepAnswers ==
  ASSUME IInv, AnswersOK, [Next]_vars
  PROVE  AnswersOK'
<1>1. ASSUME NEW c \in Conns, NEW r \in RoomIDs, Register(c, r) \/ Unregister(c, r)
      PROVE  AnswersOK'
  BY <1>1, SameAnswers DEF Register, Unregister
<1>2. ASSUME NEW c \in Conns, Disconnect(c) \/ CloseSlow(c) PROVE AnswersOK'
  BY <1>2, SameAnswers DEF Disconnect, CloseSlow
<1>3. ASSUME NEW r \in RoomIDs, NEW e \in Events, BroadcastToRoom(r, e) PROVE AnswersOK'
  BY <1>3, SameAnswers DEF BroadcastToRoom
<1>4. CASE RunRegister \/ RunUnregister \/ RunDisconnect \/ RunStop
  BY <1>4, SameAnswers DEF RunRegister, RunUnregister, RunDisconnect, RunStop
<1>5. ASSUME NEW accepted \in SUBSET Conns, RunBroadcast(accepted) PROVE AnswersOK'
  BY <1>5, SameAnswers DEF RunBroadcast
<1>6. CASE UNCHANGED vars
  BY <1>6, SameAnswers DEF vars
<1> QED BY <1>1, <1>2, <1>3, <1>4, <1>5, <1>6, AskAnswers, CountAnswers, TakeAnswers
        DEF Next, Call, Run

-----------------------------------------------------------------------------
(* Theorems *)

(* The maps and the channels always hold values of their types: no handler  *)
(* of Run reads a user, a room or a connection that is not one.             *)
THEOREM HubTypes == Spec => []TypeOK
<1>1. IInv => TypeOK
  <2> SUFFICES ASSUME IInv PROVE TypeOK
    OBVIOUS
  <2>1. register \in Seq(ConnRegistration)
    BY SeqMonotonic DEF IInv, ChannelsOK, TrueRegistration
  <2>2. /\ IsMap(rooms, RoomIDs)
        /\ \A r \in DOMAIN rooms :
             /\ IsMap(rooms[r], Users)
             /\ \A u \in DOMAIN rooms[r] : rooms[r][u] \in Seq(Conns)
    BY DEF IInv, IndexInv, RoomMaps, UserMap
  <2>3. Range(userIDs) \subseteq Users /\ Range(connRooms) \subseteq SUBSET RoomIDs
    BY DEF IInv, IndexInv, ReverseMaps, Range, Users, IsMap
  <2> QED BY <2>1, <2>2, <2>3 DEF TypeOK, IInv, IndexInv, ReverseMaps, ChannelsOK, CallersOK
<1> QED BY <1>1, InitInv, StepInv, PTL DEF Spec

(* rooms and connRooms name the same subscriptions after every request.     *)
THEOREM HubReverseIndex == Spec => []ReverseIndexAgrees
<1>1. IInv => ReverseIndexAgrees
  BY DEF IInv, IndexInv
<1> QED BY <1>1, InitInv, StepInv, PTL DEF Spec

(* A connection has one entry per room, in its own user's slice.            *)
THEOREM HubOneEntry == Spec => []OneEntryPerConn
<1>1. IInv => OneEntryPerConn
  BY DEF IInv, IndexInv, RoomMaps, UserMap, OneEntryPerConn
<1> QED BY <1>1, InitInv, StepInv, PTL DEF Spec

(* The maps keep no empty room, user or connection.                         *)
THEOREM HubNoLeftovers == Spec => []NoLeftovers
<1>1. IInv => NoLeftovers
  BY DEF IInv, IndexInv, RoomMaps, UserMap, ReverseMaps, NoLeftovers
<1> QED BY <1>1, InitInv, StepInv, PTL DEF Spec

(* Hub implements RoomSubscriptions.                                        *)
THEOREM HubImplements == Spec => ImplementsSubscriptions
<1>1. Init => S!Init
  BY DEF Init, S!Init, Subs, Recipients, Room, Lookup
<1> QED BY <1>1, InitInv, StepInv, PTL DEF Spec, ImplementsSubscriptions, S!Spec

(* The reply channel is empty when Run sends on it, and each waiting caller *)
(* has its one request or its one answer: no caller can block the hub.      *)
THEOREM HubAnswers == Spec => []OneAnswerPerCall
<1>1. Init => AnswersOK
  BY DEF Init, AnswersOK, Queued
<1>2. IInv /\ AnswersOK => OneAnswerPerCall
  <2> SUFFICES ASSUME IInv, AnswersOK PROVE OneAnswerPerCall
    OBVIOUS
  <2> DEFINE asking == [i \in DOMAIN roomCount |-> roomCount[i].caller]
  <2>1. ASSUME NEW i \in DOMAIN roomCount PROVE asking[i] \in Callers /\ Queued(asking[i])
    <3>1. roomCount[i] \in RoomCountRequest
      BY DEF IInv, ChannelsOK
    <3> QED BY <3>1 DEF RoomCountRequest, Queued
  <2>2. IsInjective(asking)
    BY DEF AnswersOK, IsInjective
  <2>3. \A i \in DOMAIN asking : countCh[asking[i]] = <<>>
    BY <2>1 DEF AnswersOK
  <2>4. waiting \subseteq Callers
    BY DEF IInv, CallersOK
  <2>5. ASSUME NEW k \in Callers PROVE Queued(k) <=> k \in Range(asking)
    BY DEF Queued, Range
  <2>6. Range(asking) \subseteq Callers
    BY <2>1 DEF Range
  <2> HIDE DEF asking
  <2>7. waiting = Range(asking) \cup {k \in Callers : countCh[k] # <<>>}
    BY <2>4, <2>5, <2>6 DEF AnswersOK
  <2> QED BY <2>2, <2>3, <2>7 DEF OneAnswerPerCall, asking
<1> QED BY <1>1, <1>2, InitInv, StepInv, StepAnswers, PTL DEF Spec

=============================================================================
