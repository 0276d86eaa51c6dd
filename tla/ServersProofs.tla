--------------------------- MODULE ServersProofs ---------------------------
(***************************************************************************)
(* The servers that use threads and sockets, for any number of clients.    *)
(* First those with a thread for every connection: the calculator is right *)
(* for every width of int, the answers of the clients are never mixed up   *)
(* nor out of step, and none of the clients kills the server.  Then the    *)
(* udp chat server: what is broadcast reaches everybody it is owed to, and *)
(* the map of users is only torn because main has destroyed the mutex.     *)
(***************************************************************************)
EXTENDS ThreadServers, UdpChat, SequenceTheorems, TLAPS

-----------------------------------------------------------------------------
(* Numbers *)

\* The remainder and the quotient of a number by a positive one.
LEMMA Division ==
    ASSUME NEW n \in Int, NEW d \in Nat \ {0}
    PROVE  \E q \in Int, m \in 0 .. d - 1 : q = n \div d /\ m = n % d /\ n = d * q + m
<1>1. /\ n \div d \in Int /\ n % d \in 0 .. d - 1
      /\ n = d * (n \div d) + (n % d)
  OBVIOUS
<1> QED
  BY <1>1

\* A multiple leaves no remainder.
LEMMA Multiples ==
    ASSUME NEW k \in Int, NEW d \in Nat \ {0}
    PROVE  (d * k) % d = 0
<1>1. PICK n \in Int : n = d * k
  OBVIOUS
<1>2. PICK q \in Int, m \in 0 .. d - 1 : m = n % d /\ n = d * q + m
  BY Division, ZenonT(40)
<1>4. d * k = d * q + m
  BY <1>1, <1>2
<1>5. m = d * (k - q)
  BY <1>4
<1>6. k - q \in Int
  OBVIOUS
<1>7. CASE k - q >= 1
  BY <1>5, <1>7
<1>8. CASE k - q <= -1
  BY <1>5, <1>8
<1> QED
  BY <1>1, <1>2, <1>5, <1>6, <1>7, <1>8

LEMMA IntFacts ==
    /\ Modulus \in Nat \ {0} /\ Modulus = 2 * INT_MAX + 2 /\ INT_MAX \in Nat
    /\ Int32 \subseteq Int
    /\ \A n \in Int : n \in Int32 <=> -INT_MAX - 1 <= n /\ n <= INT_MAX
BY NetCalculatorAssumption DEF Modulus, Int32

\* What an int keeps of a number is an int, and differs by a multiple of the modulus.
LEMMA ToIntFits ==
    ASSUME NEW n \in Int
    PROVE  ToInt(n) \in Int32 /\ (ToInt(n) - n) % Modulus = 0
<1>0. PICK d \in Nat \ {0} : d = Modulus
  BY IntFacts
<1>1. PICK q \in Int, m \in 0 .. d - 1 : m = n % d /\ n = d * q + m
  <2>1. \E q \in Int, m \in 0 .. d - 1 : q = n \div d /\ m = n % d /\ n = d * q + m
    BY Division, Zenon
  <2> QED
    BY ONLY <2>1, Zenon
<1>2. CASE m \in Int32
  <2>1. ToInt(n) = m
    BY <1>0, <1>1, <1>2 DEF ToInt
  <2>2. m - n = d * (-q)
    BY <1>0, <1>1, IntFacts
  <2> QED
    BY <1>0, <1>2, <2>1, <2>2, Multiples
<1>3. CASE m \notin Int32
  <2>1. ToInt(n) = m - Modulus
    BY <1>0, <1>1, <1>3 DEF ToInt
  <2>2. m - Modulus \in Int32
    BY <1>0, <1>1, <1>3, IntFacts
  <2>3. (m - Modulus) - n = d * (-q - 1)
    BY <1>0, <1>1, IntFacts
  <2> QED
    BY <1>0, <2>1, <2>2, <2>3, Multiples
<1> QED
  BY <1>2, <1>3

\* An int keeps an int as it is.
LEMMA ToIntKeeps ==
    ASSUME NEW n \in Int32
    PROVE  ToInt(n) = n
<1>0. PICK d \in Nat \ {0} : d = Modulus
  BY IntFacts
<1>2. n \in Int /\ -INT_MAX - 1 <= n /\ n <= INT_MAX
  BY IntFacts
<1>1. PICK q \in Int, m \in 0 .. d - 1 : m = n % d /\ n = d * q + m
  BY <1>2, Division, ZenonT(40)
<1>3. q = 0 \/ q = -1
  <2>1. CASE q >= 1
    <3>1. d * q >= d
      BY <2>1, IntFacts
    <3> QED
      BY <1>0, <1>1, <1>2, <3>1, IntFacts
  <2>2. CASE q <= -2
    <3>1. d * q <= d * (-2)
      BY <2>2, IntFacts
    <3> QED
      BY <1>0, <1>1, <1>2, <3>1, IntFacts
  <2> QED
    BY <2>1, <2>2
<1>4. CASE q = 0
  <2>1. m = n
    BY <1>0, <1>1, <1>2, <1>4, IntFacts
  <2> QED
    BY <1>0, <1>1, <2>1 DEF ToInt
<1>5. CASE q = -1
  <2>1. m = n + Modulus
    BY <1>0, <1>1, <1>2, <1>5, IntFacts
  <2>2. m \notin Int32
    BY <1>2, <2>1, IntFacts
  <2>3. ToInt(n) = m - Modulus
    BY <1>0, <1>1, <2>2 DEF ToInt
  <2> QED
    BY <1>2, <2>1, <2>3, IntFacts
<1> QED
  BY <1>3, <1>4, <1>5

\* Division towards zero: the remainder has the sign of the dividend.
LEMMA Quotients ==
    ASSUME NEW x \in Int, NEW y \in Int, y # 0
    PROVE  /\ Quotient(x, y) \in Int /\ x - y * Quotient(x, y) \in Int
           /\ Abs(x - y * Quotient(x, y)) < Abs(y)
           /\ (x - y * Quotient(x, y)) * x >= 0
<1> DEFINE a == Abs(x)
           b == Abs(y)
<1>1. /\ a \in Nat /\ b \in Nat \ {0}
      /\ x = a \/ (x = -a /\ x < 0)
      /\ y = b \/ (y = -b /\ y < 0)
  BY DEF Abs, Sign
<1>2. PICK k \in Int, m \in 0 .. b - 1 : k = a \div b /\ a = b * k + m
  <2> HIDE DEF a, b
  <2> QED
    BY <1>1, Division
<1>3. Quotient(x, y) = Sign(x) * Sign(y) * k
  BY <1>2 DEF Quotient
<1> HIDE DEF a, b
<1>4. ASSUME NEW s \in {1, -1}, NEW t \in {1, -1}, x = s * a, y = t * b, Sign(x) = s, Sign(y) = t
      PROVE  Quotient(x, y) = s * t * k /\ x - y * Quotient(x, y) = s * m
  <2>1. Quotient(x, y) = s * t * k
    BY <1>3, <1>4
  <2>0. PICK p \in Int : p = b * k
    BY <1>1, <1>2
  <2>2. y * (s * t * k) = s * p
    <3>1. \A u, w \in {1, -1} : (w * b) * (u * w * k) = u * (b * k)
      BY <1>1, <1>2
    <3> QED
      BY <1>1, <1>2, <1>4, <2>0, <3>1
  <2>3. x - s * p = s * m
    BY <1>1, <1>2, <1>4, <2>0
  <2> QED
    BY <2>1, <2>2, <2>3
<1>5. PICK s \in {1, -1}, t \in {1, -1} : x = s * a /\ y = t * b /\ Sign(x) = s /\ Sign(y) = t
  BY <1>1 DEF Sign, a, b, Abs
<1>6. Quotient(x, y) = s * t * k /\ x - y * Quotient(x, y) = s * m
  BY <1>4, <1>5
<1>7. Abs(s * m) = m
  BY <1>2 DEF Abs, Sign
<1>8. (s * m) * x >= 0
  <2>1. m * a >= 0
    BY <1>1, <1>2
  <2>2. (s * m) * x = m * a
    BY <1>1, <1>2, <1>5
  <2> QED
    BY <2>1, <2>2
<1>9. Abs(y) = b
  BY DEF b
<1> QED
  BY <1>1, <1>2, <1>6, <1>7, <1>8, <1>9

\* Every answer of calculate is the right one, unless the division traps.
LEMMA CalculateRight ==
    ASSUME NEW r, r.x \in Int32, r.y \in Int32, ~ Traps(r)
    PROVE  Answers(r, calculate(r))
<1>0. r.x \in Int /\ r.y \in Int
  BY IntFacts
<1>1. CASE r.op \in {"+", "-", "*"}
  <2>1. ASSUME NEW exact \in Int, calculate(r) = Response(ToInt(exact), 0)
        PROVE  /\ calculate(r).code = 0 /\ calculate(r).result \in Int32
               /\ (calculate(r).result - exact) % Modulus = 0
    BY <2>1, ToIntFits DEF Response
  <2>2. CASE r.op = "+"
    BY <1>0, <2>1, <2>2 DEF calculate, Answers
  <2>3. CASE r.op = "-"
    BY <1>0, <2>1, <2>3 DEF calculate, Answers
  <2>4. CASE r.op = "*"
    <3>1. r.x * r.y \in Int
      BY <1>0
    <3> QED
      BY <2>1, <2>4, <3>1 DEF calculate, Answers
  <2> QED
    BY <1>1, <2>2, <2>3, <2>4
<1>2. CASE r.op \in {"/", "%"} /\ r.y # 0
  <2>1. PICK q \in Int, rem \in Int :
           /\ q = Quotient(r.x, r.y) /\ rem = r.x - r.y * q
           /\ Abs(rem) < Abs(r.y) /\ rem * r.x >= 0
    BY <1>0, <1>2, Quotients
  <2>2. q \in Int32 /\ ToInt(q) = q
    BY <1>2, <2>1, ToIntKeeps DEF Traps
  <2>3. rem \in Int32
    BY <1>0, <2>1, IntFacts DEF Abs, Sign
  <2>4. r.x = q * r.y + rem
    BY <1>0, <2>1
  <2>5. calculate(r).code = 0 /\ calculate(r).result = IF r.op = "/" THEN q ELSE rem
    BY <1>2, <2>1, <2>2 DEF calculate, Response
  <2> QED
    BY <1>2, <2>1, <2>2, <2>3, <2>4, <2>5 DEF Answers
<1>3. CASE r.op \notin {"+", "-", "*"} /\ ~ (r.op \in {"/", "%"} /\ r.y # 0)
  BY <1>3 DEF calculate, Answers, Response
<1> QED
  BY <1>1, <1>2, <1>3

\* The processor traps for one dividend and one divisor.
LEMMA TrapsOnce ==
    ASSUME NEW r, r.x \in Int32, r.y \in Int32, Traps(r)
    PROVE  Overflows(r)
<1> DEFINE a == Abs(r.x)
           b == Abs(r.y)
           k == a \div b
           low == -INT_MAX - 1
<1>0. /\ r.x \in Int /\ low <= r.x /\ r.x <= INT_MAX /\ INT_MAX \in Nat
      /\ r.y \in Int /\ r.y # 0 /\ r.op \in {"/", "%"}
  BY IntFacts DEF Traps
<1>1. /\ a \in Nat /\ b \in Nat \ {0} /\ a <= INT_MAX + 1
      /\ r.x = a \/ (r.x = -a /\ r.x < 0)
      /\ b = 1 => r.y = 1 \/ r.y = -1
  BY <1>0 DEF Abs, Sign
<1>2. Quotient(r.x, r.y) = Sign(r.x) * Sign(r.y) * k
  BY DEF Quotient
<1>3. PICK m \in 0 .. b - 1 : k \in Int /\ a = b * k + m
  <2> HIDE DEF a, b
  <2>1. PICK q \in Int, m \in 0 .. b - 1 : q = k /\ a = b * q + m
    BY <1>1, Division
  <2> QED
    BY <2>1
<1> HIDE DEF k, a, b
<1>4. k >= 0 /\ b * k <= a
  <2>1. CASE k <= -1
    <3>1. b * k <= -b
      BY <1>1, <1>3, <2>1
    <3> QED
      BY <1>1, <1>3, <3>1
  <2> QED
    BY <1>1, <1>3, <2>1
<1>5. k <= a
  <2>1. SUFFICES ASSUME k >= a + 1 PROVE FALSE
    BY <1>1, <1>3
  <2>2. b * k >= k
    BY <1>1, <1>3, <1>4
  <2> QED
    BY <1>1, <1>3, <2>1, <2>2
<1>6. Quotient(r.x, r.y) \in {k, -k} /\ (r.y = 1 => Quotient(r.x, r.y) = Sign(r.x) * k)
  BY <1>2, <1>3 DEF Sign
<1>7. ASSUME b >= 2 PROVE FALSE
  <2>0. PICK d \in Nat : b = 2 + d
    BY <1>1, <1>7
  <2>1. b * k >= 2 * k
    <3>1. d * k >= 0
      BY <1>3, <1>4
    <3>2. b * k = 2 * k + d * k
      BY <1>3, <2>0
    <3> QED
      BY <1>3, <3>1, <3>2
  <2>2. k <= INT_MAX
    BY <1>0, <1>1, <1>3, <1>4, <2>1
  <2> QED
    BY <1>0, <1>3, <1>4, <1>6, <2>2, IntFacts DEF Traps
<1>8. r.y = -1 \/ r.y = 1
  BY <1>1, <1>7
<1>9. ASSUME r.x # low \/ r.y = 1 PROVE Quotient(r.x, r.y) \in Int32
  <2>1. CASE r.x # low
    <3>1. a <= INT_MAX
      BY <1>0, <1>1, <2>1
    <3> QED
      BY <1>0, <1>3, <1>4, <1>5, <1>6, <3>1, IntFacts
  <2>2. CASE r.x = low /\ r.y = 1
    <3>1. Sign(r.x) = -1
      BY <1>0, <2>2 DEF Sign
    <3>2. Quotient(r.x, r.y) = -k
      BY <1>3, <1>6, <2>2, <3>1
    <3> QED
      BY <1>0, <1>1, <1>3, <1>4, <1>5, <3>2, IntFacts
  <2> QED
    BY <1>9, <2>1, <2>2
<1> QED
  BY <1>0, <1>8, <1>9 DEF Traps, Overflows

-----------------------------------------------------------------------------
(* Sequences *)

\* What one read takes of s, and what it leaves.
LEMMA Pieces ==
    ASSUME NEW S, NEW s \in Seq(S), NEW k \in 1 .. Len(s)
    PROVE  /\ SubSeq(s, 1, k) \in Seq(S) /\ Len(SubSeq(s, 1, k)) = k
           /\ \A i \in 1 .. k : SubSeq(s, 1, k)[i] = s[i]
           /\ SubSeq(s, k + 1, Len(s)) \in Seq(S) /\ Len(SubSeq(s, k + 1, Len(s))) = Len(s) - k
           /\ \A i \in 1 .. Len(s) - k : SubSeq(s, k + 1, Len(s))[i] = s[k + i]
<1>1. k + 1 \in 1 .. Len(s) + 1 /\ \A i \in k + 1 .. Len(s) : i \in 1 .. Len(s)
  OBVIOUS
<1>2. \A i \in 1 .. k : i \in 1 .. Len(s)
  OBVIOUS
<1> QED
  BY <1>1, <1>2, SubSeqProperties

\* What a buffer holds once t is read after s.
LEMMA Joined ==
    ASSUME NEW S, NEW s \in Seq(S), NEW t \in Seq(S)
    PROVE  /\ s \o t \in Seq(S) /\ Len(s \o t) = Len(s) + Len(t)
           /\ \A i \in 1 .. Len(s) : (s \o t)[i] = s[i]
           /\ \A i \in 1 .. Len(t) : (s \o t)[Len(s) + i] = t[i]
<1>1. s \o t \in Seq(S) /\ Len(s \o t) = Len(s) + Len(t)
  BY ConcatProperties
<1>2. \A i \in 1 .. Len(s) : (s \o t)[i] = s[i]
  OBVIOUS
<1>3. \A i \in 1 .. Len(t) : (s \o t)[Len(s) + i] = t[i]
  OBVIOUS
<1> QED
  BY <1>1, <1>2, <1>3

Cell(S) == [of : S, end : BOOLEAN]

\* The length of what is under way, and that it is of x.
Size(s) == Len(s)
About(s, x) == \A i \in 1 .. Len(s) : s[i].of = x

LEMMA NoCells == Size(<<>>) = 0 /\ \A x : About(<<>>, x)
BY DEF Size, About

LEMMA Sizes ==
    ASSUME NEW S, NEW s \in Seq(S)
    PROVE  Size(s) \in Nat /\ (Size(s) = 0 <=> s = <<>>)
BY EmptySeq DEF Size

LEMMA SomeCells ==
    ASSUME NEW S, NEW x \in S
    PROVE  Cells(x) \in Seq(Cell(S)) /\ Size(Cells(x)) = 2 /\ About(Cells(x), x)
BY DEF Cells, Cell, Size, About

\* A read takes some of the cells under way and leaves the others.
LEMMA Taken ==
    ASSUME NEW S, NEW s \in Seq(S), NEW k \in 1 .. Len(s)
    PROVE  /\ SubSeq(s, 1, k) \in Seq(S) /\ Size(SubSeq(s, 1, k)) = k
           /\ SubSeq(s, k + 1, Len(s)) \in Seq(S) /\ Size(s) = k + Size(SubSeq(s, k + 1, Len(s)))
           /\ \A x : About(s, x) => About(SubSeq(s, 1, k), x) /\ About(SubSeq(s, k + 1, Len(s)), x)
<1>1. \A i \in 1 .. k : i \in 1 .. Len(s)
  OBVIOUS
<1>2. \A i \in 1 .. Len(s) - k : k + i \in 1 .. Len(s)
  OBVIOUS
<1>3. Size(SubSeq(s, 1, k)) = k /\ Size(s) = k + Size(SubSeq(s, k + 1, Len(s)))
  BY Pieces DEF Size
<1>4. \A x : About(s, x) => About(SubSeq(s, 1, k), x) /\ About(SubSeq(s, k + 1, Len(s)), x)
  BY <1>1, <1>2, Pieces DEF About
<1> QED
  BY <1>3, <1>4, Pieces

\* They are put behind those the buffer holds.
LEMMA PutBehind ==
    ASSUME NEW S, NEW s \in Seq(S), NEW t \in Seq(S)
    PROVE  /\ s \o t \in Seq(S) /\ Size(s \o t) = Size(s) + Size(t)
           /\ \A x : About(s, x) /\ About(t, x) => About(s \o t, x)
<1>1. \A i \in 1 .. Len(s) + Len(t) : i \in 1 .. Len(s) \/ \E n \in 1 .. Len(t) : i = Len(s) + n
  <2>1. PICK p \in Nat, q \in Nat : p = Len(s) /\ q = Len(t)
    OBVIOUS
  <2>2. ASSUME NEW i \in 1 .. p + q PROVE i \in 1 .. p \/ \E n \in 1 .. q : i = p + n
    <3>1. i > p => i - p \in 1 .. q /\ i = p + (i - p)
      OBVIOUS
    <3> QED
      BY <3>1
  <2> QED
    BY <2>1, <2>2
<1>2. ASSUME NEW x, About(s, x), About(t, x) PROVE About(s \o t, x)
  BY <1>1, <1>2, Joined DEF About
<1> QED
  BY <1>2, Joined DEF Size

\* A complete package, and that nothing stays behind when it is taken off.
LEMMA Whole ==
    ASSUME NEW S, NEW s \in Seq(Cell(S))
    PROVE  /\ Complete(s) <=> Size(s) >= 2
           /\ Size(s) >= 2 => s[1].of \in S /\ \A x : About(s, x) => s[1].of = x
           /\ Size(s) = 2 => SubSeq(s, 3, Len(s)) = <<>>
<1>1. Complete(s) <=> Size(s) >= 2
  BY DEF Complete, Size
<1>2. ASSUME Size(s) >= 2 PROVE s[1].of \in S /\ \A x : About(s, x) => s[1].of = x
  <2>1. 1 \in 1 .. Len(s)
    BY <1>2 DEF Size
  <2>2. s[1] \in Cell(S)
    BY <2>1
  <2> QED
    BY <2>1, <2>2 DEF Cell, About
<1>3. ASSUME Size(s) = 2 PROVE SubSeq(s, 3, Len(s)) = <<>>
  <2>1. Len(s) = 2
    BY <1>3 DEF Size
  <2>2. SubSeq(s, 3, 2) \in Seq(Cell(S)) /\ Len(SubSeq(s, 3, 2)) = 0
    BY <2>1, SubSeqProperties
  <2> QED
    BY <2>1, <2>2, EmptySeq
<1> QED
  BY <1>1, <1>2, <1>3

-----------------------------------------------------------------------------
(* Connections.  Each client connects once, so that it is in the backlog    *)
(* once, and nobody serves it before it is accepted (Waiting).              *)

Places == {"none", "queued", "recv", "serve", "spin", "close", "ended"}

Waiting ==
    /\ backlog \in Seq(Clients) /\ thread \in [Clients -> Places]
    /\ link \in [Clients -> {"up", "fin", "reset", "rst"}]
    /\ cpc \in [Clients -> {"start", "type", "wait", "hung", "closed", "done"}]
    /\ \A i \in 1 .. Len(backlog) :
          /\ cpc[backlog[i]] # "start" /\ thread[backlog[i]] = "none" /\ link[backlog[i]] # "rst"
          /\ \A j \in 1 .. Len(backlog) : backlog[i] = backlog[j] => i = j
    /\ \A c \in Clients : cpc[c] = "start" => thread[c] = "none" /\ link[c] = "up"

\* What a thread and a client that has connected do.
LEMMA WaitingOn ==
    ASSUME Waiting, UNCHANGED backlog, thread' \in [Clients -> Places],
           link' \in [Clients -> {"up", "fin", "reset", "rst"}],
           cpc' \in [Clients -> {"start", "type", "wait", "hung", "closed", "done"}],
           \A c \in Clients : /\ thread[c] = "none" => thread'[c] = "none"
                              /\ thread[c] = "none" /\ link'[c] = "rst" => link[c] = "rst"
                              /\ cpc[c] # "start" => cpc'[c] # "start"
                              /\ cpc[c] = "start" => link'[c] = link[c]
    PROVE  Waiting'
BY DEF Waiting

LEMMA WaitingInit == ASSUME backlog = <<>>, thread = [c \in Clients |-> "none"],
                            link = [c \in Clients |-> "up"], cpc = [c \in Clients |-> "start"]
                     PROVE  Waiting
BY DEF Waiting, Places

\* A client connects.
LEMMA WaitingMore ==
    ASSUME Waiting, NEW c \in Clients, Connect(c)
    PROVE  Waiting'
<1>1. CASE backlog' = backlog
  BY <1>1 DEF Connect, Waiting, wires
<1>2. CASE backlog' = Append(backlog, c)
  <2>1. /\ backlog' \in Seq(Clients) /\ Len(backlog') = Len(backlog) + 1 /\ backlog'[Len(backlog) + 1] = c
        /\ \A i \in 1 .. Len(backlog) : backlog'[i] = backlog[i] /\ backlog[i] # c
    BY <1>2 DEF Waiting, Connect
  <2>2. cpc[c] = "start" /\ cpc' \in [Clients -> {"start", "type", "wait", "hung", "closed", "done"}]
        /\ cpc'[c] # "start" /\ (\A d \in Clients : d # c => cpc'[d] = cpc[d]) /\ UNCHANGED <<thread, link>>
    BY <1>2 DEF Connect, Waiting, wires
  <2>3. thread[c] = "none" /\ link[c] # "rst"
    BY <2>2 DEF Waiting
  <2>4. \A i \in 1 .. Len(backlog') :
           cpc'[backlog'[i]] # "start" /\ thread[backlog'[i]] = "none" /\ link[backlog'[i]] # "rst"
    <3>1. TAKE i \in 1 .. Len(backlog')
    <3>2. CASE i \in 1 .. Len(backlog)
      BY <2>1, <2>2, <3>2 DEF Waiting
    <3>3. CASE i = Len(backlog) + 1
      BY <2>1, <2>2, <2>3, <3>3
    <3> QED
      BY <2>1, <3>2, <3>3
  <2>5. \A i, j \in 1 .. Len(backlog') : backlog'[i] = backlog'[j] => i = j
    BY <2>1 DEF Waiting
  <2> QED
    BY <2>1, <2>2, <2>4, <2>5 DEF Waiting
<1> QED
  BY <1>1, <1>2 DEF Connect

\* The oldest connection leaves the backlog.
LEMMA WaitingLess ==
    ASSUME Waiting, backlog # <<>>, backlog' = Tail(backlog), UNCHANGED cpc,
           NEW p \in Places, NEW l \in {"up", "fin", "reset", "rst"},
           thread' = [thread EXCEPT ![Head(backlog)] = p], link' = [link EXCEPT ![Head(backlog)] = l]
    PROVE  /\ Waiting'
           /\ Head(backlog) \in Clients /\ cpc[Head(backlog)] # "start"
           /\ thread[Head(backlog)] = "none" /\ link[Head(backlog)] # "rst"
<1>1. /\ backlog' \in Seq(Clients) /\ Len(backlog') = Len(backlog) - 1 /\ Len(backlog) > 0
      /\ Head(backlog) = backlog[1] /\ \A i \in 1 .. Len(backlog') : backlog'[i] = backlog[i + 1]
  BY DEF Waiting
<1>2. \A i \in 1 .. Len(backlog') : i + 1 \in 1 .. Len(backlog) /\ backlog[i + 1] # backlog[1]
  BY <1>1 DEF Waiting
<1>3. /\ Head(backlog) \in Clients /\ cpc[Head(backlog)] # "start"
      /\ thread[Head(backlog)] = "none" /\ link[Head(backlog)] # "rst"
  BY <1>1 DEF Waiting
<1>4. Waiting'
  <2>1. PICK b \in Clients : b = Head(backlog)
    BY <1>3
  <2>2. /\ thread' \in [Clients -> Places] /\ link' \in [Clients -> {"up", "fin", "reset", "rst"}]
        /\ \A c \in Clients \ {b} : thread'[c] = thread[c] /\ link'[c] = link[c]
    BY <2>1 DEF Waiting
  <2>3. cpc[b] # "start"
    BY <1>3, <2>1
  <2>4. \A i \in 1 .. Len(backlog') :
           /\ cpc[backlog'[i]] # "start" /\ thread'[backlog'[i]] = "none" /\ link'[backlog'[i]] # "rst"
           /\ \A j \in 1 .. Len(backlog') : backlog'[i] = backlog'[j] => i = j
    BY <1>1, <1>2, <2>1, <2>2 DEF Waiting
  <2> QED
    BY <1>1, <2>1, <2>2, <2>3, <2>4 DEF Waiting
<1> QED
  BY <1>3, <1>4

\* Accept and AcceptError: the oldest connection leaves the backlog, and has a
\* thread afterwards or is gone.
LEMMA Accepting ==
    ASSUME Waiting, Accept \/ AcceptError
    PROVE  \E b \in Clients, p \in {"none", "recv"}, l \in {"up", "fin", "reset", "rst"} :
              /\ thread' = [thread EXCEPT ![b] = p] /\ link' = [link EXCEPT ![b] = l]
              /\ thread[b] = "none" /\ link[b] # "rst" /\ (l = link[b] \/ (l = "rst" /\ p = "none"))
              /\ thread'[b] = p /\ link'[b] = l
              /\ \A d \in Clients \ {b} : thread'[d] = thread[d] /\ link'[d] = link[d]
              /\ UNCHANGED <<alive, inbuffer, package, cpc, buffer, req, shown, asked, toServer, toClient>>
              /\ Waiting'
<1>w. thread \in [Clients -> Places] /\ link \in [Clients -> {"up", "fin", "reset", "rst"}]
  BY DEF Waiting
<1>1. PICK b : b = Head(backlog)
  OBVIOUS
<1>2. /\ backlog # <<>> /\ backlog' = Tail(backlog)
      /\ UNCHANGED <<alive, inbuffer, package, cpc, buffer, req, shown, asked, toServer, toClient>>
  BY DEF Accept, AcceptError, client, wires
<1>3. b \in Clients /\ thread[b] = "none" /\ link[b] # "rst"
  <2>1. Len(backlog) > 0 /\ b = backlog[1]
    BY <1>1, <1>2 DEF Waiting
  <2> QED
    BY <2>1 DEF Waiting
<1>4. PICK p \in {"none", "recv"}, l \in {"up", "fin", "reset", "rst"} :
         /\ thread' = [thread EXCEPT ![b] = p] /\ link' = [link EXCEPT ![b] = l]
         /\ l = link[b] \/ (l = "rst" /\ p = "none")
  <2>1. CASE Accept
    <3>1. link' = [link EXCEPT ![b] = link[b]] /\ link[b] \in {"up", "fin", "reset", "rst"}
      BY <1>w, <1>3, <2>1 DEF Accept, wires
    <3> QED
      BY <1>1, <1>3, <2>1, <3>1 DEF Accept
  <2>2. CASE AcceptError
    <3>1. thread' = [thread EXCEPT ![b] = "none"]
      BY <1>w, <1>3, <2>2 DEF AcceptError
    <3> QED
      BY <1>1, <2>2, <3>1 DEF AcceptError
  <2> QED
    BY <2>1, <2>2
<1>5. /\ thread'[b] = p /\ link'[b] = l
      /\ \A d \in Clients \ {b} : thread'[d] = thread[d] /\ link'[d] = link[d]
  BY <1>w, <1>3, <1>4
<1>6. Waiting'
  BY <1>1, <1>2, <1>4, WaitingLess DEF Places
<1> QED
  BY <1>2, <1>3, <1>4, <1>5, <1>6

-----------------------------------------------------------------------------
(* The calculator.  At most one request of a client is under way: its two   *)
(* cells before the server, the package in the thread that serves it, or    *)
(* the two cells of the answer; for a client that waits they are those of   *)
(* its last request (OneRequest).                                           *)

CalcRequests == [x : Int32, y : Int32, op : Chars]
CalcAnswers == [result : Int, code : Nat]

\* How much of a request is before and in the server, and of the answer behind it.
Pend(c) == Size(inbuffer[c]) + Size(toServer[c]) + IF thread[c] = "serve" THEN 2 ELSE 0
Back(c) == Size(toClient[c]) + Size(buffer[c])

CalcTypes ==
    /\ toServer \in [Clients -> Seq(Cell(CalcRequests))] /\ inbuffer \in [Clients -> Seq(Cell(CalcRequests))]
    /\ toClient \in [Clients -> Seq(Cell(CalcAnswers))] /\ buffer \in [Clients -> Seq(Cell(CalcAnswers))]
    /\ package \in [Clients -> CalcRequests] /\ req \in [Clients -> CalcRequests]
    /\ asked \in [Clients -> Nat] /\ DOMAIN shown = Clients

CalcClient(c) ==
    /\ Pend(c) <= 2
    /\ thread[c] # "none" /\ link[c] = "rst" => Pend(c) = 0
    /\ cpc[c] \in {"start", "type", "hung"} => Pend(c) = 0 /\ Back(c) = 0
    /\ cpc[c] = "start" => asked[c] = 0
    /\ cpc[c] = "type" /\ asked[c] > 0 => Answers(req[c], shown[c])
    /\ cpc[c] = "wait" =>
          /\ Pend(c) + Back(c) <= 2 /\ Size(buffer[c]) <= 1
          /\ About(toServer[c], req[c]) /\ About(inbuffer[c], req[c])
          /\ thread[c] = "serve" => package[c] = req[c]
          /\ Back(c) > 0 => ~ Traps(req[c])
          /\ About(toClient[c], calculate(req[c])) /\ About(buffer[c], calculate(req[c]))

OneRequest == \A c \in Clients : CalcClient(c)

CalcInv == Waiting /\ CalcTypes /\ OneRequest /\ alive # "SIGPIPE"

LEMMA CalcInit == ASSUME Init PROVE CalcInv
<1>1. Waiting
  BY WaitingInit DEF Init, InitWith
<1>2. Nothing \in CalcRequests
  BY IntFacts DEF CalcRequests, Nothing, Chars
<1>3. CalcTypes
  BY <1>2 DEF Init, InitWith, CalcTypes
<1>4. OneRequest
  BY NoCells DEF Init, InitWith, OneRequest, CalcClient, Pend, Back
<1> QED
  BY <1>1, <1>3, <1>4 DEF CalcInv, Init, InitWith

LEMMA CalculateType ==
    ASSUME NEW r \in CalcRequests
    PROVE  calculate(r) \in CalcAnswers
<1>a. r.x \in Int /\ r.y \in Int
  BY IntFacts DEF CalcRequests
<1>0. r.x \in Int /\ r.y \in Int /\ r.x + r.y \in Int /\ r.x - r.y \in Int /\ r.x * r.y \in Int
  BY <1>a
<1>1. \A n \in Int : ToInt(n) \in Int
  BY ToIntFits, IntFacts
<1>2. r.y # 0 => Quotient(r.x, r.y) \in Int /\ r.x - r.y * Quotient(r.x, r.y) \in Int
  BY <1>0, Quotients
<1> QED
  BY <1>0, <1>1, <1>2 DEF calculate, Response, CalcAnswers

\* What is known of one client's connection.
LEMMA CalcSeqs ==
    ASSUME CalcInv, NEW c \in Clients
    PROVE  /\ inbuffer[c] \in Seq(Cell(CalcRequests)) /\ toServer[c] \in Seq(Cell(CalcRequests))
           /\ toClient[c] \in Seq(Cell(CalcAnswers)) /\ buffer[c] \in Seq(Cell(CalcAnswers))
           /\ Size(inbuffer[c]) \in Nat /\ Size(toServer[c]) \in Nat
           /\ Size(toClient[c]) \in Nat /\ Size(buffer[c]) \in Nat
           /\ CalcClient(c) /\ package[c] \in CalcRequests /\ req[c] \in CalcRequests
<1>1. /\ inbuffer[c] \in Seq(Cell(CalcRequests)) /\ toServer[c] \in Seq(Cell(CalcRequests))
      /\ toClient[c] \in Seq(Cell(CalcAnswers)) /\ buffer[c] \in Seq(Cell(CalcAnswers))
      /\ package[c] \in CalcRequests /\ req[c] \in CalcRequests
  BY DEF CalcInv, CalcTypes
<1> QED
  BY <1>1, Sizes DEF CalcInv, OneRequest

\* A connection nobody touches stays as it is.
LEMMA CalcOther ==
    ASSUME CalcInv, NEW c \in Clients,
           inbuffer'[c] = inbuffer[c], toServer'[c] = toServer[c], toClient'[c] = toClient[c],
           buffer'[c] = buffer[c], thread'[c] = thread[c], link'[c] = link[c], cpc'[c] = cpc[c],
           package'[c] = package[c], req'[c] = req[c], shown'[c] = shown[c], asked'[c] = asked[c]
    PROVE  CalcClient(c)'
BY DEF CalcInv, OneRequest, CalcClient, Pend, Back

\* readPackage
LEMMA CalcReads == ASSUME CalcInv, NEW c \in Clients, ReadPackage(c) PROVE CalcInv'
<1>i. Waiting /\ CalcTypes /\ OneRequest /\ alive # "SIGPIPE" /\ CalcClient(c)
  BY CalcSeqs DEF CalcInv
<1>w. thread \in [Clients -> Places] /\ thread[c] = "recv"
  BY <1>i DEF Waiting, ReadPackage
<1>u. UNCHANGED <<backlog, alive, open, cpc, buffer, req, shown, asked, toClient, link>>
  BY DEF ReadPackage, client
<1>1. PICK k \in 1 .. Len(toServer[c]) :
         LET buf == inbuffer[c] \o SubSeq(toServer[c], 1, k) IN
         /\ toServer' = [toServer EXCEPT ![c] = SubSeq(@, k + 1, Len(@))]
         /\ IF Complete(buf)
            THEN /\ package' = [package EXCEPT ![c] = buf[1].of]
                 /\ inbuffer' = [inbuffer EXCEPT ![c] = SubSeq(buf, 3, Len(buf))]
                 /\ thread' = [thread EXCEPT ![c] = "serve"]
            ELSE inbuffer' = [inbuffer EXCEPT ![c] = buf] /\ UNCHANGED <<package, thread>>
  BY DEF ReadPackage
<1> DEFINE some == SubSeq(toServer[c], 1, k)
           rest == SubSeq(toServer[c], k + 1, Len(toServer[c]))
           buf == inbuffer[c] \o some
<1>2. /\ some \in Seq(Cell(CalcRequests)) /\ rest \in Seq(Cell(CalcRequests))
      /\ Size(some) = k /\ Size(toServer[c]) = k + Size(rest)
      /\ \A x : About(toServer[c], x) => About(some, x) /\ About(rest, x)
  <2>1. toServer[c] \in Seq(Cell(CalcRequests))
    BY CalcSeqs
  <2> QED
    BY <2>1, Taken
<1>3. /\ buf \in Seq(Cell(CalcRequests)) /\ Size(buf) = Size(inbuffer[c]) + k
      /\ \A x : About(inbuffer[c], x) /\ About(some, x) => About(buf, x)
  <2>1. inbuffer[c] \in Seq(Cell(CalcRequests))
    BY CalcSeqs
  <2> HIDE DEF some
  <2> QED
    BY <1>2, <2>1, PutBehind
<1>4. /\ toServer' = [toServer EXCEPT ![c] = rest]
      /\ IF Complete(buf)
         THEN /\ package' = [package EXCEPT ![c] = buf[1].of]
              /\ inbuffer' = [inbuffer EXCEPT ![c] = SubSeq(buf, 3, Len(buf))]
              /\ thread' = [thread EXCEPT ![c] = "serve"]
         ELSE inbuffer' = [inbuffer EXCEPT ![c] = buf] /\ UNCHANGED <<package, thread>>
  BY <1>1
<1>5. Size(buf) \in Nat /\ Size(rest) \in Nat /\ k \in Nat /\ k > 0
  <2>1. k \in Nat /\ k > 0
    OBVIOUS
  <2> HIDE DEF some, rest, buf
  <2> QED
    BY <1>2, <1>3, <2>1, Sizes
<1> HIDE DEF some, rest, buf
<1>6. Size(buf) + Size(rest) = Pend(c) /\ Size(buf) + Size(rest) <= 2 /\ Pend(c) > 0
  <2>1. Size(inbuffer[c]) \in Nat /\ Size(toServer[c]) \in Nat
    BY CalcSeqs
  <2>2. Pend(c) <= 2 /\ Pend(c) = Size(inbuffer[c]) + Size(toServer[c])
    BY <1>i, <1>w, <2>1 DEF CalcClient, Pend
  <2> QED
    BY <1>2, <1>3, <1>5, <2>1, <2>2, SMTT(40)
<1>7. cpc[c] = "wait" => About(buf, req[c]) /\ About(rest, req[c])
  BY <1>i, <1>2, <1>3 DEF CalcClient
<1>8. CASE ~ Complete(buf)
  <2>1. /\ inbuffer' = [inbuffer EXCEPT ![c] = buf] /\ UNCHANGED <<package, thread>>
        /\ toServer' = [toServer EXCEPT ![c] = rest]
    BY <1>4, <1>8
  <2>2. CalcTypes' /\ Waiting'
    <3>1. CalcTypes'
      BY <1>i, <1>u, <1>2, <1>3, <2>1 DEF CalcTypes
    <3>2. Waiting'
      BY <1>i, <1>u, <2>1 DEF Waiting
    <3> QED
      BY <3>1, <3>2
  <2>3. inbuffer'[c] = buf /\ toServer'[c] = rest
    BY <1>i, <2>1 DEF CalcTypes
  <2>4. Pend(c)' = Pend(c) /\ Back(c)' = Back(c)
    BY <1>u, <1>w, <1>5, <1>6, <2>1, <2>3 DEF Pend, Back
  <2>5. CalcClient(c)'
    BY <1>i, <1>u, <1>7, <2>1, <2>3, <2>4 DEF CalcClient
  <2>6. ASSUME NEW d \in Clients, d # c PROVE CalcClient(d)'
    BY <1>i, <1>u, <2>1, <2>6, CalcOther DEF CalcTypes
  <2> QED
    BY <1>i, <1>u, <2>2, <2>5, <2>6 DEF CalcInv, OneRequest
<1>9. CASE Complete(buf)
  <2>1. Size(buf) = 2 /\ Size(rest) = 0 /\ Pend(c) = 2
    BY <1>3, <1>5, <1>6, <1>9, Whole
  <2>2. /\ package' = [package EXCEPT ![c] = buf[1].of] /\ inbuffer' = [inbuffer EXCEPT ![c] = <<>>]
        /\ thread' = [thread EXCEPT ![c] = "serve"] /\ toServer' = [toServer EXCEPT ![c] = rest]
    BY <1>3, <1>4, <1>9, <2>1, Whole
  <2>3. buf[1].of \in CalcRequests /\ (cpc[c] = "wait" => buf[1].of = req[c])
    BY <1>3, <1>7, <2>1, Whole
  <2>4. CalcTypes'
    BY <1>i, <1>u, <1>2, <2>2, <2>3 DEF CalcTypes
  <2>5. thread' \in [Clients -> Places] /\ \A d \in Clients : thread[d] = "none" => thread'[d] = "none"
    BY <1>w, <2>2 DEF Places
  <2>6. Waiting'
    BY <1>i, <1>u, <2>5 DEF Waiting
  <2>7. /\ inbuffer'[c] = <<>> /\ toServer'[c] = rest /\ thread'[c] = "serve" /\ package'[c] = buf[1].of
    BY <1>i, <1>w, <2>2 DEF CalcTypes
  <2>8. Pend(c)' = 2 /\ Back(c)' = Back(c)
    BY <1>u, <2>1, <2>7, NoCells DEF Pend, Back
  <2>9. CalcClient(c)'
    BY <1>i, <1>w, <1>u, <1>7, <2>1, <2>3, <2>7, <2>8, NoCells DEF CalcClient
  <2>10. ASSUME NEW d \in Clients, d # c PROVE CalcClient(d)'
    BY <1>i, <1>w, <1>u, <2>2, <2>10, CalcOther DEF CalcTypes
  <2> QED
    BY <1>i, <1>u, <2>4, <2>6, <2>9, <2>10 DEF CalcInv, OneRequest
<1> QED
  BY <1>8, <1>9

\* calculate, and the answer is sent.
LEMMA CalcServes == ASSUME CalcInv, NEW c \in Clients, Serve(c) PROVE CalcInv'
<1> DEFINE a == calculate(package[c])
<1>i. Waiting /\ CalcTypes /\ OneRequest /\ alive # "SIGPIPE" /\ CalcClient(c)
  BY CalcSeqs DEF CalcInv
<1>w. /\ thread \in [Clients -> Places] /\ link \in [Clients -> {"up", "fin", "reset", "rst"}]
      /\ cpc[c] \in {"start", "type", "wait", "hung", "closed", "done"}
  BY <1>i DEF Waiting
<1>1. ~ Traps(package[c]) /\ thread[c] = "serve"
  BY DEF Serve
<1>2. PICK answer \in Seq(Cell(CalcAnswers)) : answer = Cells(a) /\ Size(answer) = 2 /\ About(answer, a)
  <2>1. a \in CalcAnswers
    BY CalcSeqs, CalculateType
  <2> HIDE DEF a
  <2> QED
    BY <2>1, SomeCells
<1>3. /\ thread' = [thread EXCEPT ![c] = "recv"]
      /\ UNCHANGED <<backlog, inbuffer, package, cpc, buffer, req, shown, asked, toServer>>
      /\ toClient' = [toClient EXCEPT ![c] = IF link[c] = "up" THEN @ \o answer ELSE @]
      /\ alive' = IF link[c] = "rst" THEN "SIGPIPE" ELSE "up"
  BY <1>2 DEF Serve, Send, SendCells, client
<1>4. PICK l \in {"up", "fin", "reset", "rst"} : link' = [link EXCEPT ![c] = l]
  BY <1>w DEF Serve, Send, SendCells
<1>5. Pend(c) = 2 /\ Size(inbuffer[c]) = 0 /\ Size(toServer[c]) = 0 /\ link[c] # "rst"
  BY <1>i, <1>1, CalcSeqs DEF CalcClient, Pend
<1> HIDE DEF a
<1> DEFINE sent == IF link[c] = "up" THEN toClient[c] \o answer ELSE toClient[c]
<1>6. /\ sent \in Seq(Cell(CalcAnswers)) /\ toClient' = [toClient EXCEPT ![c] = sent]
      /\ toClient[c] = <<>> => Size(sent) <= 2 /\ Size(sent) \in Nat /\ About(sent, a)
  <2>1. toClient[c] \in Seq(Cell(CalcAnswers)) /\ toClient[c] \o answer \in Seq(Cell(CalcAnswers))
    BY CalcSeqs, PutBehind
  <2>2. toClient[c] = <<>> => sent = answer \/ sent = <<>>
    OBVIOUS
  <2>3. sent \in Seq(Cell(CalcAnswers)) /\ toClient' = [toClient EXCEPT ![c] = sent]
    BY <1>3, <2>1
  <2> HIDE DEF sent
  <2> QED
    BY <1>2, <2>2, <2>3, NoCells
<1> HIDE DEF sent
<1>7. CalcTypes'
  BY <1>i, <1>3, <1>6 DEF CalcTypes
<1>8. /\ thread' \in [Clients -> Places] /\ link' \in [Clients -> {"up", "fin", "reset", "rst"}]
      /\ \A d \in Clients \ {c} : thread'[d] = thread[d] /\ link'[d] = link[d]
      /\ thread[c] # "none" /\ cpc[c] # "start"
  <2>1. cpc[c] # "start"
    BY <1>i, <1>5 DEF CalcClient
  <2> QED
    BY <1>w, <1>1, <1>3, <1>4, <2>1 DEF Places
<1>9. Waiting'
  <2> QED
    <3>1. cpc' \in [Clients -> {"start", "type", "wait", "hung", "closed", "done"}] /\ UNCHANGED backlog
      BY <1>i, <1>3 DEF Waiting
    <3>2. \A d \in Clients : /\ thread[d] = "none" => thread'[d] = "none"
                             /\ thread[d] = "none" /\ link'[d] = "rst" => link[d] = "rst"
                             /\ cpc[d] # "start" => cpc'[d] # "start"
                             /\ cpc[d] = "start" => link'[d] = link[d]
      BY <1>3, <1>8
    <3> QED
      BY <1>i, <1>8, <3>1, <3>2, WaitingOn
<1>10. ASSUME NEW d \in Clients, d # c PROVE CalcClient(d)'
  BY <1>i, <1>w, <1>3, <1>4, <1>6, <1>10, CalcOther DEF CalcTypes
<1>11. toClient'[c] = sent /\ thread'[c] = "recv"
  BY <1>i, <1>w, <1>3, <1>6 DEF CalcTypes
<1>12. Pend(c)' = 0
  BY <1>3, <1>5, <1>11 DEF Pend
<1>13. CASE cpc[c] = "wait"
  <2>1. Back(c) = 0 /\ Size(toClient[c]) = 0 /\ Size(buffer[c]) = 0
    BY <1>i, <1>5, <1>13, CalcSeqs DEF CalcClient, Back
  <2>2. toClient[c] = <<>> /\ package[c] = req[c]
    BY <1>i, <1>1, <1>13, <2>1, CalcSeqs, Sizes DEF CalcClient
  <2>3. Size(sent) <= 2 /\ Size(sent) \in Nat /\ About(sent, calculate(req[c])) /\ ~ Traps(req[c])
    BY <1>1, <1>6, <2>2 DEF a
  <2>4. Back(c)' = Size(sent)
    <3>1. Size(toClient'[c]) = Size(sent) /\ Size(buffer'[c]) = 0
      BY <1>3, <1>11, <2>1
    <3> QED
      BY <2>3, <3>1 DEF Back
  <2>5. CalcClient(c)'
    <3>1. Pend(c)' + Back(c)' <= 2 /\ Size(buffer[c])' <= 1
      BY <1>3, <1>12, <2>1, <2>3, <2>4
    <3>2. About(toServer[c], req[c])' /\ About(inbuffer[c], req[c])' /\ About(buffer[c], calculate(req[c]))'
      BY <1>i, <1>3, <1>13 DEF CalcClient
    <3>3. About(toClient[c], calculate(req[c]))' /\ ~ Traps(req[c])'
      BY <1>3, <1>11, <2>3
    <3> QED
      BY <1>3, <1>11, <1>12, <1>13, <3>1, <3>2, <3>3 DEF CalcClient
  <2> QED
    BY <1>i, <1>3, <1>5, <1>7, <1>9, <1>10, <2>5 DEF CalcInv, OneRequest
<1>14. CASE cpc[c] # "wait"
  <2>1. cpc[c] \notin {"start", "type", "hung"}
    BY <1>i, <1>5 DEF CalcClient
  <2>2. CalcClient(c)'
    BY <1>3, <1>12, <1>14, <2>1 DEF CalcClient
  <2> QED
    BY <1>i, <1>3, <1>5, <1>7, <1>9, <1>10, <2>2 DEF CalcInv, OneRequest
<1> QED
  BY <1>13, <1>14

LEMMA CalcThread == ASSUME CalcInv, NEW c \in Clients, Thread(c) PROVE CalcInv'
<1>i. Waiting /\ CalcTypes /\ OneRequest /\ alive # "SIGPIPE"
  BY DEF CalcInv
<1>1. CASE ThreadEnd(c)
  <2>1. /\ thread' = [thread EXCEPT ![c] = "ended"] /\ thread[c] = "recv" /\ thread \in [Clients -> Places]
        /\ UNCHANGED <<backlog, alive, inbuffer, package, cpc, buffer, req, shown, asked, toServer, toClient, link>>
    BY <1>i, <1>1 DEF ThreadEnd, client, wires, Waiting
  <2>2. \A d \in Clients : thread'[d] = IF d = c THEN "ended" ELSE thread[d]
    BY <2>1
  <2>3. thread' \in [Clients -> Places]
    BY <2>1 DEF Places
  <2>4. Waiting'
    BY <1>i, <2>1, <2>2, <2>3 DEF Waiting
  <2>5. CalcTypes'
    BY <1>i, <2>1 DEF CalcTypes
  <2>6. ASSUME NEW d \in Clients PROVE CalcClient(d)'
    <3>1. Pend(d)' = Pend(d) /\ Back(d)' = Back(d)
      BY <2>1, <2>2 DEF Pend, Back
    <3>2. (thread[d] = "none" <=> thread'[d] = "none") /\ (thread[d] = "serve" <=> thread'[d] = "serve")
      BY <2>1, <2>2
    <3> QED
      BY <1>i, <2>1, <3>1, <3>2 DEF OneRequest, CalcClient
  <2> QED
    BY <1>i, <2>1, <2>4, <2>5, <2>6 DEF CalcInv, OneRequest
<1>2. CASE ServeTrap(c)
  BY <1>i, <1>2 DEF CalcInv, ServeTrap, Killed, client, wires, Waiting, CalcTypes, OneRequest, CalcClient, Pend, Back
<1> QED
  BY <1>1, <1>2, CalcReads, CalcServes DEF Thread

\* The client sends a formula, or does not get that far.
LEMMA CalcAsks == ASSUME CalcInv, NEW c \in Clients, Ask(c) PROVE CalcInv'
<1>i. Waiting /\ CalcTypes /\ OneRequest /\ alive # "SIGPIPE" /\ CalcClient(c)
  BY CalcSeqs DEF CalcInv
<1>w. cpc \in [Clients -> {"start", "type", "wait", "hung", "closed", "done"}]
  BY <1>i DEF Waiting
<1>0. PICK f \in Formulas[c] :
         \E r \in Requests(f) :
            /\ req' = [req EXCEPT ![c] = r]
            /\ toServer' = [toServer EXCEPT ![c] =
                  IF alive = "up" /\ link[c] = "up" THEN @ \o Cells(r) ELSE @]
  BY DEF Ask
<1>1. PICK r \in Requests(f) :
         /\ req' = [req EXCEPT ![c] = r]
         /\ toServer' = [toServer EXCEPT ![c] =
               IF alive = "up" /\ link[c] = "up" THEN @ \o Cells(r) ELSE @]
  BY <1>0
<1>2. /\ cpc[c] = "type" /\ asked' = [asked EXCEPT ![c] = @ + 1] /\ cpc' = [cpc EXCEPT ![c] = "wait"]
      /\ UNCHANGED <<backlog, alive, thread, inbuffer, package, toClient, link, buffer, shown>>
  BY DEF Ask, server
<1>3. r \in CalcRequests
  <2>1. f.left \in Int /\ f.right \in Int /\ f.op \in Chars \cup {"none"}
    BY NetCalculatorAssumption DEF IsFormula
  <2> QED
    BY <2>1, ToIntFits DEF Requests, CalcRequests
<1>4. Pend(c) = 0 /\ Back(c) = 0 /\ Size(inbuffer[c]) = 0 /\ Size(toServer[c]) = 0 /\ thread[c] # "serve"
      /\ Size(toClient[c]) = 0 /\ Size(buffer[c]) = 0
  BY <1>i, <1>2, CalcSeqs DEF CalcClient, Pend, Back
<1>5. inbuffer[c] = <<>> /\ toServer[c] = <<>> /\ toClient[c] = <<>> /\ buffer[c] = <<>>
  BY <1>4, CalcSeqs, Sizes
<1>6. PICK sent \in Seq(Cell(CalcRequests)) :
         /\ toServer' = [toServer EXCEPT ![c] = sent] /\ About(sent, r) /\ Size(sent) \in {0, 2}
         /\ link[c] = "rst" => Size(sent) = 0
  <2>1. CASE alive = "up" /\ link[c] = "up"
    <3>1. Cells(r) \in Seq(Cell(CalcRequests)) /\ Size(Cells(r)) = 2 /\ About(Cells(r), r)
      BY <1>3, SomeCells
    <3>2. toServer[c] \o Cells(r) = Cells(r)
      BY <1>5, <3>1
    <3>3. toServer' = [toServer EXCEPT ![c] = Cells(r)]
      BY <1>1, <2>1, <3>2
    <3> QED
      BY <2>1, <3>1, <3>3
  <2>2. CASE ~ (alive = "up" /\ link[c] = "up")
    <3>1. toServer' = [toServer EXCEPT ![c] = <<>>]
      BY <1>1, <1>5, <2>2
    <3>2. <<>> \in Seq(Cell(CalcRequests))
      BY <1>5, CalcSeqs
    <3> QED
      BY <3>1, <3>2, NoCells
  <2> QED
    BY <2>1, <2>2
<1>7. /\ toServer'[c] = sent /\ req'[c] = r /\ cpc'[c] = "wait"
      /\ inbuffer'[c] = <<>> /\ toClient'[c] = <<>> /\ buffer'[c] = <<>> /\ thread'[c] # "serve"
  <2>1. toServer'[c] = sent
    BY <1>i, <1>6 DEF CalcTypes
  <2>2. req'[c] = r /\ cpc'[c] = "wait"
    BY <1>i, <1>w, <1>1, <1>2 DEF CalcTypes
  <2> QED
    BY <1>2, <1>4, <1>5, <2>1, <2>2
<1>8. CalcTypes'
  <2>1. asked[c] + 1 \in Nat
    BY <1>i DEF CalcTypes
  <2>2. toServer' \in [Clients -> Seq(Cell(CalcRequests))]
    BY <1>i, <1>6 DEF CalcTypes
  <2>4. req' = [req EXCEPT ![c] = r]
    BY <1>1
  <2>5. req' \in [Clients -> CalcRequests]
    BY <1>i, <1>3, <2>4 DEF CalcTypes
  <2>3. asked' \in [Clients -> Nat]
    BY <1>i, <1>2, <2>1 DEF CalcTypes
  <2> QED
    BY <1>i, <1>2, <2>2, <2>3, <2>5 DEF CalcTypes
<1>9. Waiting'
  BY <1>i, <1>2 DEF Waiting
<1>10. Pend(c)' = Size(sent) /\ Back(c)' = 0
  BY <1>6, <1>7, NoCells DEF Pend, Back
<1>11. CalcClient(c)'
  BY <1>2, <1>4, <1>6, <1>7, <1>10, NoCells DEF CalcClient
<1>12. ASSUME NEW d \in Clients, d # c PROVE CalcClient(d)'
  BY <1>i, <1>w, <1>1, <1>2, <1>6, <1>12, CalcOther DEF CalcTypes
<1> QED
  BY <1>i, <1>2, <1>8, <1>9, <1>11, <1>12 DEF CalcInv, OneRequest

\* The client reads, and shows the answer when it is complete.
LEMMA CalcShows == ASSUME CalcInv, NEW c \in Clients, ReadReply(c) PROVE CalcInv'
<1>i. Waiting /\ CalcTypes /\ OneRequest /\ alive # "SIGPIPE" /\ CalcClient(c)
  BY CalcSeqs DEF CalcInv
<1>w. cpc \in [Clients -> {"start", "type", "wait", "hung", "closed", "done"}]
  BY <1>i DEF Waiting
<1>1. PICK k \in 1 .. Len(toClient[c]) :
         LET buf == buffer[c] \o SubSeq(toClient[c], 1, k) IN
         /\ toClient' = [toClient EXCEPT ![c] = SubSeq(@, k + 1, Len(@))]
         /\ IF Complete(buf)
            THEN /\ shown' = [shown EXCEPT ![c] = buf[1].of]
                 /\ buffer' = [buffer EXCEPT ![c] = SubSeq(buf, 3, Len(buf))]
                 /\ cpc' = [cpc EXCEPT ![c] = "type"]
            ELSE buffer' = [buffer EXCEPT ![c] = buf] /\ UNCHANGED <<shown, cpc>>
  BY DEF ReadReply
<1>u. cpc[c] = "wait" /\ UNCHANGED <<backlog, alive, thread, inbuffer, package, toServer, link, req, asked>>
  BY DEF ReadReply, server
<1> DEFINE some == SubSeq(toClient[c], 1, k)
           rest == SubSeq(toClient[c], k + 1, Len(toClient[c]))
           buf == buffer[c] \o some
<1>2. /\ some \in Seq(Cell(CalcAnswers)) /\ rest \in Seq(Cell(CalcAnswers))
      /\ Size(some) = k /\ Size(toClient[c]) = k + Size(rest)
      /\ \A x : About(toClient[c], x) => About(some, x) /\ About(rest, x)
  <2>1. toClient[c] \in Seq(Cell(CalcAnswers))
    BY CalcSeqs
  <2> QED
    BY <2>1, Taken
<1>3. /\ buf \in Seq(Cell(CalcAnswers)) /\ Size(buf) = Size(buffer[c]) + k
      /\ \A x : About(buffer[c], x) /\ About(some, x) => About(buf, x)
  <2>1. buffer[c] \in Seq(Cell(CalcAnswers))
    BY CalcSeqs
  <2> HIDE DEF some
  <2> QED
    BY <1>2, <2>1, PutBehind
<1>4. /\ toClient' = [toClient EXCEPT ![c] = rest]
      /\ IF Complete(buf)
         THEN /\ shown' = [shown EXCEPT ![c] = buf[1].of]
              /\ buffer' = [buffer EXCEPT ![c] = SubSeq(buf, 3, Len(buf))]
              /\ cpc' = [cpc EXCEPT ![c] = "type"]
         ELSE buffer' = [buffer EXCEPT ![c] = buf] /\ UNCHANGED <<shown, cpc>>
  BY <1>1
<1>5. Size(buf) \in Nat /\ Size(rest) \in Nat /\ k \in Nat /\ k > 0
  <2>1. k \in Nat /\ k > 0
    OBVIOUS
  <2> HIDE DEF some, rest, buf
  <2> QED
    BY <1>2, <1>3, <2>1, Sizes
<1> HIDE DEF some, rest, buf
<1>6. Size(buf) + Size(rest) = Back(c) /\ Back(c) > 0 /\ ~ Traps(req[c])
  <2>1. Size(toClient[c]) \in Nat /\ Size(buffer[c]) \in Nat
    BY CalcSeqs
  <2>2. Size(buf) + Size(rest) = Back(c) /\ Back(c) > 0
    BY <1>2, <1>3, <1>5, <2>1 DEF Back
  <2> QED
    BY <1>i, <1>u, <2>2 DEF CalcClient
<1>7. Pend(c) \in Nat /\ Pend(c) + Back(c) <= 2
  BY <1>i, <1>u, CalcSeqs DEF CalcClient, Pend
<1>8. About(buf, calculate(req[c])) /\ About(rest, calculate(req[c]))
  BY <1>i, <1>u, <1>2, <1>3 DEF CalcClient
<1>9. CASE ~ Complete(buf)
  <2>1. /\ buffer' = [buffer EXCEPT ![c] = buf] /\ UNCHANGED <<shown, cpc>>
        /\ toClient' = [toClient EXCEPT ![c] = rest]
    BY <1>4, <1>9
  <2>2. CalcTypes' /\ Waiting'
    <3>1. CalcTypes'
      BY <1>i, <1>u, <1>2, <1>3, <2>1 DEF CalcTypes
    <3>2. Waiting'
      BY <1>i, <1>u, <2>1 DEF Waiting
    <3> QED
      BY <3>1, <3>2
  <2>3. buffer'[c] = buf /\ toClient'[c] = rest /\ Size(buf) <= 1
    BY <1>i, <1>3, <1>5, <1>9, <2>1, Whole DEF CalcTypes
  <2>4. Pend(c)' = Pend(c) /\ Back(c)' = Back(c)
    <3>1. Back(c)' = Size(rest) + Size(buf)
      BY <2>3 DEF Back
    <3> QED
      BY <1>u, <1>5, <1>6, <3>1 DEF Pend
  <2>5. CalcClient(c)'
    BY <1>i, <1>u, <1>8, <2>1, <2>3, <2>4 DEF CalcClient
  <2>6. ASSUME NEW d \in Clients, d # c PROVE CalcClient(d)'
    BY <1>i, <1>u, <2>1, <2>6, CalcOther DEF CalcTypes
  <2> QED
    BY <1>i, <1>u, <2>2, <2>5, <2>6 DEF CalcInv, OneRequest
<1>10. CASE Complete(buf)
  <2>1. Size(buf) = 2 /\ Size(rest) = 0 /\ Pend(c) = 0
    <3>1. Size(buf) >= 2
      BY <1>3, <1>10, Whole
    <3> QED
      BY <1>5, <1>6, <1>7, <3>1
  <2>2. /\ shown' = [shown EXCEPT ![c] = buf[1].of] /\ buffer' = [buffer EXCEPT ![c] = <<>>]
        /\ cpc' = [cpc EXCEPT ![c] = "type"] /\ toClient' = [toClient EXCEPT ![c] = rest]
    BY <1>3, <1>4, <1>10, <2>1, Whole
  <2>3. buf[1].of = calculate(req[c])
    BY <1>3, <1>8, <2>1, Whole
  <2>4. Answers(req[c], calculate(req[c]))
    <3>1. req[c].x \in Int32 /\ req[c].y \in Int32
      BY CalcSeqs DEF CalcRequests
    <3> QED
      BY <1>6, <3>1, CalculateRight
  <2>5. <<>> \in Seq(Cell(CalcAnswers))
    OBVIOUS
  <2>6. CalcTypes'
    BY <1>i, <1>u, <1>2, <2>2, <2>5 DEF CalcTypes
  <2>7. Waiting'
    BY <1>i, <1>u, <2>2 DEF Waiting
  <2>8. /\ buffer'[c] = <<>> /\ toClient'[c] = rest /\ cpc'[c] = "type" /\ shown'[c] = calculate(req[c])
    BY <1>i, <1>w, <2>2, <2>3 DEF CalcTypes
  <2>9. Pend(c)' = 0 /\ Back(c)' = 0
    BY <1>u, <2>1, <2>8, NoCells DEF Pend, Back
  <2>10. CalcClient(c)'
    BY <1>u, <2>4, <2>8, <2>9 DEF CalcClient
  <2>11. ASSUME NEW d \in Clients, d # c PROVE CalcClient(d)'
    BY <1>i, <1>w, <1>u, <2>2, <2>11, CalcOther DEF CalcTypes
  <2> QED
    BY <1>i, <1>u, <2>6, <2>7, <2>10, <2>11 DEF CalcInv, OneRequest
<1> QED
  BY <1>9, <1>10

\* The client connects, hangs, or ends.
LEMMA CalcComesAndGoes ==
    ASSUME CalcInv, NEW c \in Clients, Connect(c) \/ TypeJunk(c) \/ ServerQuit(c) \/ Quit(c)
    PROVE  CalcInv'
<1>i. Waiting /\ CalcTypes /\ OneRequest /\ alive # "SIGPIPE" /\ CalcClient(c)
  BY CalcSeqs DEF CalcInv
<1>w. /\ cpc \in [Clients -> {"start", "type", "wait", "hung", "closed", "done"}]
      /\ link \in [Clients -> {"up", "fin", "reset", "rst"}]
  BY <1>i DEF Waiting
<1>1. CASE Connect(c)
  <2>1. /\ cpc[c] = "start" /\ cpc' \in {[cpc EXCEPT ![c] = "type"], [cpc EXCEPT ![c] = "closed"]}
        /\ UNCHANGED <<alive, thread, inbuffer, package, buffer, req, shown, asked, toServer, toClient, link>>
    BY <1>1 DEF Connect, wires
  <2>2. Waiting' /\ CalcTypes'
    BY <1>i, <1>1, <2>1, WaitingMore DEF CalcTypes
  <2>3. cpc'[c] \in {"type", "closed"} /\ \A d \in Clients \ {c} : cpc'[d] = cpc[d]
    BY <1>w, <2>1
  <2>4. Pend(c)' = Pend(c) /\ Back(c)' = Back(c)
    BY <2>1 DEF Pend, Back
  <2>5. CalcClient(c)'
    BY <1>i, <2>1, <2>3, <2>4 DEF CalcClient
  <2>6. ASSUME NEW d \in Clients, d # c PROVE CalcClient(d)'
    BY <2>1, <2>3, <2>6, CalcOther
  <2> QED
    BY <1>i, <2>1, <2>2, <2>5, <2>6 DEF CalcInv, OneRequest
<1>2. CASE TypeJunk(c) \/ ServerQuit(c)
  <2>1. /\ cpc[c] \in {"type", "wait"}
        /\ cpc[c] = "type" => cpc' = [cpc EXCEPT ![c] = "hung"]
        /\ cpc[c] = "wait" => cpc' = [cpc EXCEPT ![c] = "closed"]
        /\ UNCHANGED <<backlog, alive, thread, inbuffer, package, buffer, req, shown, asked, toServer, toClient, link>>
    BY <1>2 DEF TypeJunk, ServerQuit, server, wires
  <2>2. CalcTypes' /\ Waiting'
    <3>1. /\ cpc' \in [Clients -> {"start", "type", "wait", "hung", "closed", "done"}]
          /\ \A d \in Clients : cpc[d] = "start" <=> cpc'[d] = "start"
      BY <1>w, <2>1
    <3>2. CalcTypes'
      BY <1>i, <2>1 DEF CalcTypes
    <3>3. Waiting'
      BY <1>i, <2>1, <3>1 DEF Waiting
    <3> QED
      BY <3>2, <3>3
  <2>3. /\ cpc'[c] = "closed" \/ (cpc[c] = "type" /\ cpc'[c] = "hung")
        /\ \A d \in Clients \ {c} : cpc'[d] = cpc[d]
    BY <1>w, <2>1
  <2>4. Pend(c)' = Pend(c) /\ Back(c)' = Back(c)
    BY <2>1 DEF Pend, Back
  <2>5. CalcClient(c)'
    BY <1>i, <2>1, <2>3, <2>4 DEF CalcClient
  <2>6. ASSUME NEW d \in Clients, d # c PROVE CalcClient(d)'
    BY <2>1, <2>3, <2>6, CalcOther
  <2> QED
    BY <1>i, <2>1, <2>2, <2>5, <2>6 DEF CalcInv, OneRequest
<1>3. CASE Quit(c)
  <2>1. PICK l \in {"up", "fin", "reset", "rst"} :
           /\ link' = [link EXCEPT ![c] = l] /\ (l = "rst" <=> link[c] = "rst")
           /\ cpc[c] \in {"type", "wait", "hung"} /\ cpc' = [cpc EXCEPT ![c] = "closed"]
           /\ toClient' = [toClient EXCEPT ![c] = <<>>]
           /\ UNCHANGED <<backlog, alive, thread, inbuffer, package, buffer, req, shown, asked, toServer>>
    BY <1>w, <1>3 DEF Quit, server
  <2>2. /\ link' \in [Clients -> {"up", "fin", "reset", "rst"}] /\ link'[c] = l /\ cpc'[c] = "closed"
        /\ cpc' \in [Clients -> {"start", "type", "wait", "hung", "closed", "done"}]
        /\ \A d \in Clients \ {c} : link'[d] = link[d] /\ cpc'[d] = cpc[d] /\ toClient'[d] = toClient[d]
    BY <1>i, <1>w, <2>1 DEF CalcTypes
  <2>3. Waiting'
    <3>1. UNCHANGED backlog /\ thread' \in [Clients -> Places]
      BY <1>i, <2>1 DEF Waiting
    <3>2. \A d \in Clients : /\ thread[d] = "none" => thread'[d] = "none"
                             /\ thread[d] = "none" /\ link'[d] = "rst" => link[d] = "rst"
                             /\ cpc[d] # "start" => cpc'[d] # "start"
                             /\ cpc[d] = "start" => link'[d] = link[d]
      BY <2>1, <2>2
    <3> QED
      BY <1>i, <2>2, <3>1, <3>2, WaitingOn
  <2>4. CalcTypes'
    BY <1>i, <2>1 DEF CalcTypes
  <2>5. Pend(c)' = Pend(c)
    BY <2>1 DEF Pend
  <2>6. CalcClient(c)'
    BY <1>i, <2>1, <2>2, <2>5 DEF CalcClient
  <2>7. ASSUME NEW d \in Clients, d # c PROVE CalcClient(d)'
    BY <2>1, <2>2, <2>7, CalcOther
  <2> QED
    BY <1>i, <2>1, <2>3, <2>4, <2>6, <2>7 DEF CalcInv, OneRequest
<1> QED
  BY <1>1, <1>2, <1>3

\* The server starts, accepts, or fails to.
LEMMA CalcAccepts ==
    ASSUME CalcInv, InitServer \/ Accept \/ AcceptError
    PROVE  CalcInv'
<1>i. Waiting /\ CalcTypes /\ OneRequest /\ alive # "SIGPIPE"
  BY DEF CalcInv
<1>w. thread \in [Clients -> Places] /\ link \in [Clients -> {"up", "fin", "reset", "rst"}]
  BY <1>i DEF Waiting
<1>1. CASE InitServer
  BY <1>i, <1>1 DEF CalcInv, InitServer, client, wires, Waiting, CalcTypes, OneRequest, CalcClient, Pend, Back
<1>2. CASE Accept \/ AcceptError
  <2>1. PICK b \in Clients, p \in {"none", "recv"}, l \in {"up", "fin", "reset", "rst"} :
           /\ thread[b] = "none" /\ link[b] # "rst" /\ (l = link[b] \/ (l = "rst" /\ p = "none"))
           /\ thread'[b] = p /\ link'[b] = l
           /\ \A d \in Clients \ {b} : thread'[d] = thread[d] /\ link'[d] = link[d]
           /\ UNCHANGED <<alive, inbuffer, package, cpc, buffer, req, shown, asked, toServer, toClient>>
           /\ Waiting'
    BY <1>i, <1>2, Accepting
  <2>2. CalcTypes'
    BY <1>i, <2>1 DEF CalcTypes
  <2>3. ASSUME NEW d \in Clients PROVE CalcClient(d)'
    <3>1. CASE d # b
      BY <2>1, <3>1, CalcOther
    <3>2. CASE d = b
      <4>1. Pend(b)' = Pend(b) /\ Back(b)' = Back(b)
        BY <2>1 DEF Pend, Back
      <4>2. CalcClient(b)
        BY <1>i DEF OneRequest
      <4> QED
        BY <2>1, <3>2, <4>1, <4>2 DEF CalcClient
    <3> QED
      BY <3>1, <3>2
  <2> QED
    BY <1>i, <2>1, <2>2, <2>3 DEF CalcInv, OneRequest
<1> QED
  BY <1>1, <1>2

LEMMA CalcInvariance == ASSUME CalcInv, Next PROVE CalcInv'
BY CalcAccepts, CalcThread, CalcAsks, CalcShows, CalcComesAndGoes DEF Next, Client

-----------------------------------------------------------------------------
(* The echo servers.  What a client has read, what is on its way back, in   *)
(* the server and on its way there are successive pieces of the lines it    *)
(* has sent, as long as both sides live.  A line that nobody reads in       *)
(* pieces is in one place as a whole (EchoWhole).                           *)

\* The cells a client sends, one after the other.
At(i) == [of |-> (i + 1) \div 2, end |-> i % 2 = 0]

\* s holds those that follow the n-th.
Piece(s, n) == \A i \in 1 .. Len(s) : s[i] = At(n + i)

\* s is a line, or nothing.
Line(s) == Size(s) \in {0, 2} /\ (Size(s) = 2 => ~ s[1].end)

Shown(c) == Size(buffer[c])
Returning(c) == Size(toClient[c])
Sent(c) == 2 * req[c]

EchoTypes ==
    /\ toServer \in [Clients -> Seq(Cell(Nat))] /\ inbuffer \in [Clients -> Seq(Cell(Nat))]
    /\ toClient \in [Clients -> Seq(Cell(Nat))] /\ buffer \in [Clients -> Seq(Cell(Nat))]
    /\ req \in [Clients -> Nat] /\ cut \subseteq Clients

\* What holds of the lines of a client none of whose lines is read in pieces.
EchoWhole(c) ==
    /\ Shown(c) = Sent(c) \/ (Shown(c) = Sent(c) - 2 /\ cpc[c] \notin {"start", "type"})
    /\ Line(toServer[c]) /\ Line(inbuffer[c]) /\ Line(toClient[c])
    /\ Size(toServer[c]) + Size(inbuffer[c]) <= 2
    /\ thread[c] # "none" /\ link[c] = "rst" => Size(toServer[c]) = 0 /\ thread[c] # "serve"

EchoOf(c) ==
    /\ Piece(buffer[c], 0) /\ Piece(toClient[c], Shown(c)) /\ Shown(c) + Returning(c) <= Sent(c)
    /\ alive \in {"down", "up"} /\ link[c] = "up" =>
          /\ Piece(inbuffer[c], Shown(c) + Returning(c))
          /\ Piece(toServer[c], Shown(c) + Returning(c) + Size(inbuffer[c]))
          /\ Shown(c) + Returning(c) + Size(inbuffer[c]) + Size(toServer[c]) = Sent(c)
    /\ thread[c] = "serve" <=> Size(inbuffer[c]) > 0
    /\ link[c] \in {"fin", "reset"} \/ (link[c] = "rst" /\ thread[c] # "none") => cpc[c] = "closed"
    /\ alive = "down" => cpc[c] \in {"start", "closed"}
    /\ c \notin cut => EchoWhole(c)

\* Who is in the pool's queue is there once, and nobody serves it.
Queued ==
    /\ tasks \in Seq(Clients)
    /\ \A i \in 1 .. Len(tasks) :
          /\ thread[tasks[i]] = "queued"
          /\ \A j \in 1 .. Len(tasks) : tasks[i] = tasks[j] => i = j

EchoInv ==
    /\ Waiting /\ EchoTypes /\ Queued
    /\ \A c \in Clients : EchoOf(c)
    /\ alive = "SIGPIPE" => \E c \in cut : cpc[c] = "closed"

LEMMA Pieced ==
    ASSUME NEW S, NEW s \in Seq(S), NEW k \in 1 .. Len(s), NEW n \in Nat, Piece(s, n)
    PROVE  Piece(SubSeq(s, 1, k), n) /\ Piece(SubSeq(s, k + 1, Len(s)), n + k)
<1> DEFINE some == SubSeq(s, 1, k)
           rest == SubSeq(s, k + 1, Len(s))
<1>1. /\ Len(some) = k /\ \A i \in 1 .. k : some[i] = s[i] /\ i \in 1 .. Len(s)
  BY Pieces
<1>2. /\ Len(rest) = Len(s) - k
      /\ \A i \in 1 .. Len(s) - k : rest[i] = s[k + i] /\ k + i \in 1 .. Len(s)
  BY Pieces
<1>3. \A i \in Int : n + (k + i) = (n + k) + i
  OBVIOUS
<1> HIDE DEF some, rest
<1>4. Piece(some, n)
  BY <1>1 DEF Piece
<1>5. Piece(rest, n + k)
  <2> SUFFICES ASSUME NEW i \in 1 .. Len(rest) PROVE rest[i] = At((n + k) + i)
    BY DEF Piece
  <2>1. i \in Int /\ rest[i] = s[k + i] /\ k + i \in 1 .. Len(s)
    BY <1>2
  <2> QED
    BY <1>3, <2>1 DEF Piece
<1> QED
  BY <1>4, <1>5 DEF some, rest

LEMMA PiecesJoined ==
    ASSUME NEW S, NEW s \in Seq(S), NEW t \in Seq(S), NEW n \in Nat, Piece(s, n), Piece(t, n + Size(s))
    PROVE  Piece(s \o t, n)
<1> SUFFICES ASSUME NEW i \in 1 .. Len(s \o t) PROVE (s \o t)[i] = At(n + i)
  BY DEF Piece
<1>1. PICK p \in Nat, q \in Nat : p = Len(s) /\ q = Len(t) /\ p = Size(s)
  BY DEF Size
<1>2. i \in 1 .. p + q
  BY <1>1, Joined
<1>3. CASE i \in 1 .. p
  <2>1. i \in 1 .. Len(s)
    BY <1>1, <1>3
  <2>2. (s \o t)[i] = s[i]
    BY <2>1, Joined
  <2> QED
    BY <2>1, <2>2 DEF Piece
<1>4. CASE i \notin 1 .. p
  <2>1. PICK j \in 1 .. q : i = p + j /\ n + i = (n + p) + j
    <3>1. i - p \in 1 .. q /\ i = p + (i - p) /\ n + i = (n + p) + (i - p)
      BY <1>2, <1>4
    <3> QED
      BY <3>1
  <2>2. j \in 1 .. Len(t)
    BY <1>1
  <2>3. (s \o t)[Len(s) + j] = t[j]
    BY <2>2, Joined
  <2> QED
    BY <1>1, <2>1, <2>2, <2>3 DEF Piece
<1> QED
  BY <1>3, <1>4

LEMMA NoPiece == \A n : Piece(<<>>, n)
BY DEF Piece

\* The next line is the next piece.
LEMMA NextLine ==
    ASSUME NEW n \in Nat
    PROVE  Piece(Cells(n + 1), 2 * n) /\ Line(Cells(n + 1))
<1>1. Len(Cells(n + 1)) = 2 /\ Cells(n + 1)[1] = [of |-> n + 1, end |-> FALSE] /\ Cells(n + 1)[2] = [of |-> n + 1, end |-> TRUE]
  BY DEF Cells
<1>2. At(2 * n + 1) = [of |-> n + 1, end |-> FALSE] /\ At(2 * n + 2) = [of |-> n + 1, end |-> TRUE]
  <2>1. ASSUME NEW i \in Int, NEW q \in Int, NEW m \in 0 .. 1, i = 2 * q + m
        PROVE  i \div 2 = q /\ i % 2 = m
    BY <2>1, Division
  <2>2. 2 * n + 1 \in Int /\ 2 * n + 2 \in Int /\ 2 * n + 3 \in Int /\ n + 1 \in Int
        /\ 2 * n + 2 = 2 * (n + 1) + 0 /\ 2 * n + 3 = 2 * (n + 1) + 1 /\ 2 * n + 1 = 2 * n + 1
    OBVIOUS
  <2>3. (2 * n + 2) \div 2 = n + 1 /\ (2 * n + 2) % 2 = 0
    BY <2>1, <2>2
  <2>4. (2 * n + 3) \div 2 = n + 1 /\ (2 * n + 1) % 2 = 1
    BY <2>1, <2>2
  <2>5. (2 * n + 1) + 1 = 2 * n + 2 /\ (2 * n + 2) + 1 = 2 * n + 3
    OBVIOUS
  <2> QED
    <3>1. ((2 * n + 1) % 2 = 0) = FALSE /\ ((2 * n + 2) % 2 = 0) = TRUE
      BY <2>3, <2>4
    <3>2. ((2 * n + 1) + 1) \div 2 = n + 1 /\ ((2 * n + 2) + 1) \div 2 = n + 1
      BY <2>3, <2>4, <2>5
    <3> QED
      BY <3>1, <3>2, Zenon DEF At
<1> QED
  BY <1>1, <1>2 DEF Piece, Line, Size

LEMMA NoLine == Line(<<>>)
BY NoCells DEF Line

\* A read that ends with the end of a line takes it as a whole.
LEMMA WholeLine ==
    ASSUME NEW S, NEW s \in Seq(S), NEW k \in 1 .. Len(s), Line(s), s[k].end
    PROVE  k = 2 /\ Line(SubSeq(s, 1, k))
<1>1. PICK n \in Nat : n = Len(s) /\ n = Size(s)
  BY DEF Size
<1>2. n = 2 /\ ~ s[1].end /\ k = 2
  BY <1>1 DEF Line
<1>3. Len(SubSeq(s, 1, k)) = k /\ SubSeq(s, 1, k)[1] = s[1]
  BY <1>2, Pieces
<1> QED
  BY <1>2, <1>3 DEF Line, Size

LEMMA EchoSeqs ==
    ASSUME EchoInv, NEW c \in Clients
    PROVE  /\ inbuffer[c] \in Seq(Cell(Nat)) /\ toServer[c] \in Seq(Cell(Nat))
           /\ toClient[c] \in Seq(Cell(Nat)) /\ buffer[c] \in Seq(Cell(Nat))
           /\ Size(inbuffer[c]) \in Nat /\ Size(toServer[c]) \in Nat
           /\ Returning(c) \in Nat /\ Shown(c) \in Nat /\ Sent(c) \in Nat /\ req[c] \in Nat /\ Sent(c) = 2 * req[c]
           /\ Returning(c) = Size(toClient[c]) /\ Shown(c) = Size(buffer[c]) /\ EchoOf(c)
<1>1. /\ inbuffer[c] \in Seq(Cell(Nat)) /\ toServer[c] \in Seq(Cell(Nat))
      /\ toClient[c] \in Seq(Cell(Nat)) /\ buffer[c] \in Seq(Cell(Nat)) /\ req[c] \in Nat
  BY DEF EchoInv, EchoTypes
<1>2. EchoOf(c)
  BY DEF EchoInv
<1>3. /\ Size(inbuffer[c]) \in Nat /\ Size(toServer[c]) \in Nat
      /\ Size(toClient[c]) \in Nat /\ Size(buffer[c]) \in Nat
  BY <1>1, Sizes
<1>4. Sent(c) = 2 * req[c] /\ 2 * req[c] \in Nat
  BY <1>1 DEF Sent
<1> QED
  BY <1>1, <1>2, <1>3, <1>4 DEF Returning, Shown

\* A connection nobody touches stays as it is, if the server does, or dies.
LEMMA EchoOther ==
    ASSUME EchoInv, NEW c \in Clients,
           inbuffer'[c] = inbuffer[c], toServer'[c] = toServer[c], toClient'[c] = toClient[c],
           buffer'[c] = buffer[c], thread'[c] = thread[c], link'[c] = link[c], cpc'[c] = cpc[c],
           req'[c] = req[c], c \in cut' <=> c \in cut,
           alive' \in {"down", "up"} => alive \in {"down", "up"}, alive' = "down" => alive = "down"
    PROVE  EchoOf(c)'
BY DEF EchoInv, EchoOf, EchoWhole, Shown, Returning, Sent

LEMMA EchoInit == ASSUME InitWith(0), tasks = <<>>, cut = {} PROVE EchoInv
<1>1. Waiting
  BY WaitingInit DEF InitWith
<1>2. EchoTypes
  BY DEF InitWith, EchoTypes
<1>3. Queued
  BY DEF Queued
<1>4. ASSUME NEW c \in Clients PROVE EchoOf(c)
  <2>1. inbuffer[c] = <<>> /\ toServer[c] = <<>> /\ toClient[c] = <<>> /\ buffer[c] = <<>> /\ req[c] = 0
    BY DEF InitWith
  <2>2. Shown(c) = 0 /\ Returning(c) = 0 /\ Sent(c) = 0
    BY <2>1, NoCells DEF Shown, Returning, Sent
  <2> QED
    BY <2>1, <2>2, NoCells, NoPiece, NoLine DEF InitWith, EchoOf, EchoWhole
<1> QED
  BY <1>1, <1>2, <1>3, <1>4 DEF EchoInv, InitWith

LEMMA QueuedOn ==
    ASSUME Queued, UNCHANGED tasks, \A d \in Clients : thread[d] = "queued" => thread'[d] = "queued"
    PROVE  Queued'
BY DEF Queued

\* One read of service.
LEMMA EchoReads == ASSUME EchoInv, NEW c \in Clients, EchoRead(c) PROVE EchoInv'
<1>i. Waiting /\ EchoTypes /\ Queued /\ EchoOf(c)
  BY DEF EchoInv
<1>w. thread \in [Clients -> Places] /\ thread[c] = "recv" /\ alive = "up"
  BY <1>i DEF Waiting, EchoRead
<1>u. UNCHANGED <<backlog, alive, cpc, buffer, req, toClient, link, tasks>>
  BY DEF EchoRead, client
<1>1. PICK k \in 1 .. Len(toServer[c]) :
         /\ inbuffer' = [inbuffer EXCEPT ![c] = SubSeq(toServer[c], 1, k)]
         /\ toServer' = [toServer EXCEPT ![c] = SubSeq(@, k + 1, Len(@))]
         /\ cut' = IF toServer[c][k].end THEN cut ELSE cut \cup {c}
  BY DEF EchoRead
<1> DEFINE some == SubSeq(toServer[c], 1, k)
           rest == SubSeq(toServer[c], k + 1, Len(toServer[c]))
<1>s. toServer[c] \in Seq(Cell(Nat)) /\ k \in Nat /\ k > 0
  BY EchoSeqs
<1>2. /\ some \in Seq(Cell(Nat)) /\ rest \in Seq(Cell(Nat))
      /\ Size(some) = k /\ Size(toServer[c]) = k + Size(rest)
  BY <1>s, Taken
<1>3. /\ inbuffer' = [inbuffer EXCEPT ![c] = some] /\ toServer' = [toServer EXCEPT ![c] = rest]
      /\ thread' = [thread EXCEPT ![c] = "serve"]
  BY <1>1 DEF EchoRead
<1>4. Size(inbuffer[c]) = 0
  BY <1>i, <1>w, EchoSeqs DEF EchoOf
<1>5. link[c] = "up" => Piece(some, Shown(c) + Returning(c)) /\ Piece(rest, Shown(c) + Returning(c) + k)
  <2>1. Shown(c) + Returning(c) \in Nat /\ Shown(c) + Returning(c) + 0 = Shown(c) + Returning(c)
    BY EchoSeqs
  <2>2. link[c] = "up" => Piece(toServer[c], Shown(c) + Returning(c))
    BY <1>i, <1>w, <1>4, <2>1 DEF EchoOf
  <2> QED
    BY <1>s, <2>1, <2>2, Pieced
<1>6. c \notin cut' => c \notin cut /\ k = 2 /\ Line(some) /\ Line(rest) /\ Size(rest) = 0
  <2> SUFFICES ASSUME c \notin cut' PROVE c \notin cut /\ k = 2 /\ Line(some) /\ Line(rest) /\ Size(rest) = 0
    OBVIOUS
  <2>1. c \notin cut /\ toServer[c][k].end
    BY <1>1
  <2>2. Line(toServer[c])
    BY <1>i, <2>1 DEF EchoOf, EchoWhole
  <2>3. k = 2 /\ Line(some)
    BY <1>s, <2>1, <2>2, WholeLine
  <2>4. Size(rest) \in Nat
    BY <1>2, Sizes
  <2>5. Size(rest) = 0
    <3> HIDE DEF some, rest
    <3> QED
      BY <1>2, <2>2, <2>3, <2>4 DEF Line
  <2>6. rest = <<>>
    BY <1>2, <2>5, Sizes
  <2> QED
    BY <2>1, <2>3, <2>5, <2>6, NoLine
<1>r. Size(rest) \in Nat
  BY <1>2, Sizes
<1> HIDE DEF some, rest
<1>7. /\ inbuffer'[c] = some /\ toServer'[c] = rest /\ thread'[c] = "serve"
      /\ \A d \in Clients \ {c} : /\ inbuffer'[d] = inbuffer[d] /\ toServer'[d] = toServer[d]
                                 /\ thread'[d] = thread[d] /\ (d \in cut' <=> d \in cut)
      /\ cut \subseteq cut' /\ cut' \subseteq Clients /\ thread' \in [Clients -> Places]
  BY <1>i, <1>w, <1>1, <1>3 DEF EchoTypes, Places
<1>8. Waiting'
  BY <1>i, <1>w, <1>u, <1>7 DEF Waiting
<1>9. EchoTypes'
  BY <1>i, <1>u, <1>2, <1>3, <1>7 DEF EchoTypes
<1>10. Queued'
  BY <1>i, <1>w, <1>u, <1>7, QueuedOn
<1>11. EchoOf(c)'
  <2>1. Shown(c)' = Shown(c) /\ Returning(c)' = Returning(c) /\ Sent(c)' = Sent(c)
    BY <1>u DEF Shown, Returning, Sent
  <2>2. link[c] = "up" => Shown(c) + Returning(c) + k + Size(rest) = Sent(c)
    BY <1>i, <1>w, <1>s, <1>2, <1>4, <1>r, EchoSeqs DEF EchoOf
  <2>3. link[c] # "rst" \/ c \in cut
    BY <1>i, <1>w, <1>s, <1>2, <1>r DEF EchoOf, EchoWhole
  <2>4. c \notin cut' => EchoWhole(c)'
    BY <1>i, <1>u, <1>2, <1>6, <1>7, <2>1, <2>3 DEF EchoOf, EchoWhole
  <2> QED
    BY <1>i, <1>w, <1>s, <1>u, <1>2, <1>5, <1>7, <2>1, <2>2, <2>4 DEF EchoOf
<1>12. ASSUME NEW d \in Clients, d # c PROVE EchoOf(d)'
  BY <1>u, <1>7, <1>12, EchoOther
<1> QED
  BY <1>w, <1>u, <1>8, <1>9, <1>10, <1>11, <1>12 DEF EchoInv

\* What was read is written back.
LEMMA EchoWrites == ASSUME EchoInv, NEW c \in Clients, EchoWrite(c) PROVE EchoInv'
<1>i. Waiting /\ EchoTypes /\ Queued /\ EchoOf(c)
  BY DEF EchoInv
<1>w. /\ thread \in [Clients -> Places] /\ link \in [Clients -> {"up", "fin", "reset", "rst"}]
      /\ thread[c] = "serve" /\ alive = "up"
  BY <1>i DEF Waiting, EchoWrite
<1>u. UNCHANGED <<backlog, cpc, buffer, req, toServer, tasks, cut>>
  BY DEF EchoWrite, client, own
<1> DEFINE sent == IF link[c] = "up" THEN toClient[c] \o inbuffer[c] ELSE toClient[c]
<1>1. /\ toClient' = [toClient EXCEPT ![c] = sent] /\ inbuffer' = [inbuffer EXCEPT ![c] = <<>>]
      /\ thread' = [thread EXCEPT ![c] = "recv"] /\ alive' = IF link[c] = "rst" THEN "SIGPIPE" ELSE "up"
  BY DEF EchoWrite, SendCells
<1>2. PICK l \in {"up", "fin", "reset", "rst"} : link' = [link EXCEPT ![c] = l] /\ (l = "up" <=> link[c] = "up")
  BY <1>w DEF EchoWrite, SendCells
<1>3. Size(inbuffer[c]) > 0
  BY <1>i, <1>w DEF EchoOf
<1>4. link[c] # "up" => cpc[c] = "closed" /\ sent = toClient[c]
  BY <1>i, <1>w DEF EchoOf
<1>5. sent \in Seq(Cell(Nat)) /\ (link[c] = "up" => Size(sent) = Returning(c) + Size(inbuffer[c]))
  <2>1. toClient[c] \o inbuffer[c] \in Seq(Cell(Nat)) /\ Size(toClient[c] \o inbuffer[c]) = Size(toClient[c]) + Size(inbuffer[c])
    BY EchoSeqs, PutBehind
  <2> QED
    BY <2>1, EchoSeqs DEF Returning
<1>6. Piece(sent, Shown(c))
  <2>1. CASE link[c] = "up"
    <3>1. Piece(toClient[c], Shown(c)) /\ Piece(inbuffer[c], Shown(c) + Size(toClient[c])) /\ Shown(c) \in Nat
      BY <1>i, <1>w, <2>1, EchoSeqs DEF EchoOf
    <3> QED
      BY <2>1, <3>1, EchoSeqs, PiecesJoined
  <2>2. CASE link[c] # "up"
    BY <1>i, <2>2 DEF EchoOf
  <2> QED
    BY <2>1, <2>2
<1>7. c \notin cut => Line(sent) /\ Size(inbuffer[c]) = 2 /\ Size(toServer[c]) = 0 /\ link[c] # "rst"
  <2> SUFFICES ASSUME c \notin cut PROVE Line(sent) /\ Size(inbuffer[c]) = 2 /\ Size(toServer[c]) = 0 /\ link[c] # "rst"
    OBVIOUS
  <2>1. EchoWhole(c)
    BY <1>i DEF EchoOf
  <2>2. Size(inbuffer[c]) = 2 /\ Size(toServer[c]) = 0
    BY <1>3, <2>1, EchoSeqs DEF EchoWhole, Line
  <2>3. link[c] # "rst"
    BY <1>w, <2>1 DEF EchoWhole
  <2>4. CASE link[c] = "up"
    <3>1. Returning(c) = 0
      BY <1>i, <1>w, <2>1, <2>2, <2>4, EchoSeqs DEF EchoOf, EchoWhole
    <3>2. toClient[c] = <<>>
      BY <3>1, EchoSeqs, Sizes
    <3>3. sent = inbuffer[c]
      BY <2>4, <3>2, EchoSeqs
    <3> QED
      BY <2>1, <2>2, <2>3, <3>3 DEF EchoWhole
  <2>5. CASE link[c] # "up"
    BY <1>4, <2>1, <2>2, <2>3, <2>5 DEF EchoWhole
  <2> QED
    BY <2>4, <2>5
<1> HIDE DEF sent
<1>8. /\ inbuffer'[c] = <<>> /\ toClient'[c] = sent /\ thread'[c] = "recv" /\ link'[c] = l
      /\ \A d \in Clients \ {c} : /\ inbuffer'[d] = inbuffer[d] /\ toClient'[d] = toClient[d]
                                 /\ thread'[d] = thread[d] /\ link'[d] = link[d]
      /\ thread' \in [Clients -> Places] /\ link' \in [Clients -> {"up", "fin", "reset", "rst"}]
  BY <1>i, <1>w, <1>1, <1>2 DEF EchoTypes, Places
<1>9. Waiting'
  <2>1. UNCHANGED backlog /\ cpc' \in [Clients -> {"start", "type", "wait", "hung", "closed", "done"}]
    BY <1>i, <1>u DEF Waiting
  <2>2. cpc[c] # "start"
    BY <1>i, <1>w DEF Waiting
  <2>3. \A d \in Clients : /\ thread[d] = "none" => thread'[d] = "none"
                           /\ thread[d] = "none" /\ link'[d] = "rst" => link[d] = "rst"
                           /\ cpc[d] # "start" => cpc'[d] # "start"
                           /\ cpc[d] = "start" => link'[d] = link[d]
    BY <1>w, <1>u, <1>8, <2>2
  <2> QED
    BY <1>i, <1>8, <2>1, <2>3, WaitingOn
<1>10. EchoTypes'
  BY <1>i, <1>u, <1>1, <1>5 DEF EchoTypes
<1>11. Queued'
  BY <1>i, <1>w, <1>u, <1>8, QueuedOn
<1>12. EchoOf(c)'
  <2>1. Shown(c)' = Shown(c) /\ Returning(c)' = Size(sent) /\ Sent(c)' = Sent(c) /\ Size(inbuffer[c])' = 0
    BY <1>u, <1>8, NoCells DEF Shown, Returning, Sent
  <2>2. Piece(toClient[c], Shown(c))' /\ Piece(buffer[c], 0)'
    BY <1>i, <1>u, <1>6, <1>8, <2>1 DEF EchoOf
  <2>3. CASE link[c] = "up"
    <3>1. Shown(c) + Size(sent) <= Sent(c) /\ Shown(c) + Size(sent) + 0 + Size(toServer[c]) = Sent(c)
      BY <1>i, <1>w, <1>5, <2>3, EchoSeqs DEF EchoOf
    <3>2. Shown(c) + Size(sent) + 0 = Shown(c) + Returning(c) + Size(inbuffer[c])
      BY <1>5, <2>3, EchoSeqs
    <3>3. Piece(toServer[c], Shown(c) + Size(sent) + 0)
      BY <1>i, <1>w, <2>3, <3>2 DEF EchoOf
    <3>4. c \notin cut' => EchoWhole(c)'
      BY <1>i, <1>2, <1>u, <1>7, <1>8, <2>1, <2>3, NoLine, NoCells DEF EchoOf, EchoWhole
    <3> QED
      BY <1>1, <1>2, <1>u, <1>8, <2>1, <2>2, <2>3, <3>1, <3>3, <3>4, NoPiece DEF EchoOf
  <2>4. CASE link[c] # "up"
    <3>1. Shown(c) + Size(sent) <= Sent(c)
      BY <1>i, <1>4, <2>4 DEF EchoOf, Returning
    <3>2. c \notin cut' => EchoWhole(c)'
      BY <1>i, <1>u, <1>7, <1>8, <2>1, NoLine, NoCells DEF EchoOf, EchoWhole
    <3> QED
      BY <1>1, <1>2, <1>4, <1>u, <1>8, <2>1, <2>2, <2>4, <3>1, <3>2 DEF EchoOf
  <2> QED
    BY <2>3, <2>4
<1>13. ASSUME NEW d \in Clients, d # c PROVE EchoOf(d)'
  BY <1>w, <1>u, <1>1, <1>8, <1>13, EchoOther
<1>14. alive' = "SIGPIPE" => c \in cut' /\ cpc'[c] = "closed"
  BY <1>1, <1>4, <1>7, <1>u
<1> QED
  BY <1>9, <1>10, <1>11, <1>12, <1>13, <1>14 DEF EchoInv

\* The connection has ended.
LEMMA EchoEnds == ASSUME EchoInv, NEW c \in Clients, EchoEnd(c) PROVE EchoInv'
<1>i. Waiting /\ EchoTypes /\ Queued /\ EchoOf(c)
  BY DEF EchoInv
<1>1. /\ thread[c] = "recv" /\ alive = "up" /\ thread \in [Clients -> Places] /\ thread' = [thread EXCEPT ![c] = "ended"]
      /\ UNCHANGED <<backlog, alive, inbuffer, cpc, buffer, req, toServer, toClient, link, tasks, cut>>
  BY <1>i DEF EchoEnd, client, wires, Waiting
<1>2. thread'[c] = "ended" /\ thread' \in [Clients -> Places] /\ \A d \in Clients \ {c} : thread'[d] = thread[d]
  BY <1>1 DEF Places
<1>3. Waiting'
  BY <1>i, <1>1, <1>2 DEF Waiting
<1>4. EchoTypes' /\ Queued'
  BY <1>i, <1>1, <1>2, QueuedOn DEF EchoTypes
<1>5. EchoOf(c)'
  BY <1>i, <1>1, <1>2 DEF EchoOf, EchoWhole, Shown, Returning, Sent
<1>6. ASSUME NEW d \in Clients, d # c PROVE EchoOf(d)'
  BY <1>1, <1>2, <1>6, EchoOther
<1> QED
  BY <1>1, <1>3, <1>4, <1>5, <1>6 DEF EchoInv

\* A line is typed.
LEMMA EchoAsks == ASSUME EchoInv, NEW c \in Clients, EchoAsk(c) PROVE EchoInv'
<1>i. Waiting /\ EchoTypes /\ Queued /\ EchoOf(c)
  BY DEF EchoInv
<1>w. cpc \in [Clients -> {"start", "type", "wait", "hung", "closed", "done"}] /\ cpc[c] = "type"
  BY <1>i DEF Waiting, EchoAsk
<1>u. UNCHANGED <<backlog, alive, thread, inbuffer, buffer, toClient, link, tasks, cut>>
  BY DEF EchoAsk, server, own
<1>1. cpc' = [cpc EXCEPT ![c] = "wait"]
  BY DEF EchoAsk
<1>2. /\ cpc'[c] = "wait" /\ cpc' \in [Clients -> {"start", "type", "wait", "hung", "closed", "done"}]
      /\ \A d \in Clients \ {c} : cpc'[d] = cpc[d]
  BY <1>w, <1>1
<1>3. Waiting'
  BY <1>i, <1>w, <1>u, <1>2 DEF Waiting
<1>4. Queued'
  BY <1>i, <1>u, QueuedOn
<1>5. alive' = "SIGPIPE" => \E d \in cut' : cpc'[d] = "closed"
  <2> SUFFICES ASSUME alive' = "SIGPIPE" PROVE \E d \in cut' : cpc'[d] = "closed"
    OBVIOUS
  <2>1. PICK d \in cut : cpc[d] = "closed"
    BY <1>u DEF EchoInv
  <2>2. d \in Clients \ {c}
    BY <1>i, <1>w, <2>1 DEF EchoTypes
  <2> QED
    BY <1>u, <1>2, <2>1, <2>2
<1>6. /\ alive # "down" /\ link[c] \notin {"fin", "reset"} /\ ~ (link[c] = "rst" /\ thread[c] # "none")
  BY <1>i, <1>w DEF EchoOf
<1>7. Shown(c)' = Shown(c) /\ Returning(c)' = Returning(c)
  BY <1>u DEF Shown, Returning
<1>8. CASE UNCHANGED <<req, toServer>>
  <2>1. EchoTypes'
    BY <1>i, <1>u, <1>8 DEF EchoTypes
  <2>2. Sent(c)' = Sent(c)
    BY <1>8 DEF Sent
  <2>3. EchoOf(c)'
    BY <1>i, <1>u, <1>2, <1>6, <1>7, <1>8, <2>2 DEF EchoOf, EchoWhole
  <2>4. ASSUME NEW d \in Clients, d # c PROVE EchoOf(d)'
    BY <1>u, <1>2, <1>8, <2>4, EchoOther
  <2> QED
    BY <1>3, <1>4, <1>5, <2>1, <2>3, <2>4 DEF EchoInv
<1>9. CASE /\ req' = [req EXCEPT ![c] = @ + 1]
           /\ toServer' = [toServer EXCEPT ![c] =
                 IF alive = "up" /\ link[c] = "up" THEN @ \o Cells(req[c] + 1) ELSE @]
  <2> DEFINE line == Cells(req[c] + 1)
             sent == IF alive = "up" /\ link[c] = "up" THEN toServer[c] \o line ELSE toServer[c]
             before == Shown(c) + Returning(c) + Size(inbuffer[c])
  <2>1. req[c] \in Nat /\ req[c] + 1 \in Nat /\ toServer[c] \in Seq(Cell(Nat)) /\ before \in Nat
    BY EchoSeqs
  <2>2. line \in Seq(Cell(Nat)) /\ Size(line) = 2 /\ Piece(line, Sent(c)) /\ Line(line)
    <3>1. line \in Seq(Cell(Nat)) /\ Size(line) = 2
      BY <2>1, SomeCells
    <3>2. Piece(line, 2 * req[c]) /\ Line(line)
      BY <2>1, NextLine
    <3> QED
      BY <3>1, <3>2 DEF Sent
  <2> HIDE DEF line
  <2>3. req' = [req EXCEPT ![c] = @ + 1] /\ toServer' = [toServer EXCEPT ![c] = sent]
    BY <1>9 DEF line
  <2>4. /\ sent \in Seq(Cell(Nat))
        /\ alive = "up" /\ link[c] = "up" => Size(sent) = Size(toServer[c]) + 2
    <3>1. toServer[c] \o line \in Seq(Cell(Nat)) /\ Size(toServer[c] \o line) = Size(toServer[c]) + 2
      BY <2>1, <2>2, PutBehind
    <3> QED
      BY <2>1, <3>1
  <2>5. alive = "up" /\ link[c] = "up" =>
           /\ Piece(inbuffer[c], Shown(c) + Returning(c)) /\ Piece(sent, before)
           /\ before + Size(sent) = Sent(c) + 2
    <3> SUFFICES ASSUME alive = "up", link[c] = "up"
                 PROVE  /\ Piece(inbuffer[c], Shown(c) + Returning(c)) /\ Piece(sent, before)
                        /\ before + Size(sent) = Sent(c) + 2
      OBVIOUS
    <3>1. /\ Piece(inbuffer[c], Shown(c) + Returning(c)) /\ Piece(toServer[c], before)
          /\ before + Size(toServer[c]) = Sent(c)
      BY <1>i DEF EchoOf
    <3> HIDE DEF before
    <3>2. Piece(toServer[c] \o line, before)
      BY <2>1, <2>2, <3>1, PiecesJoined
    <3>3. before + (Size(toServer[c]) + 2) = Sent(c) + 2
      BY <2>1, <3>1, EchoSeqs
    <3> QED
      BY <2>4, <3>1, <3>2, <3>3
  <2>6. c \notin cut => Line(sent) /\ Size(sent) + Size(inbuffer[c]) <= 2 /\ Shown(c) = Sent(c)
    <3> SUFFICES ASSUME c \notin cut
                 PROVE  Line(sent) /\ Size(sent) + Size(inbuffer[c]) <= 2 /\ Shown(c) = Sent(c)
      OBVIOUS
    <3>1. EchoWhole(c)
      BY <1>i DEF EchoOf
    <3>2. Shown(c) = Sent(c)
      BY <1>w, <3>1 DEF EchoWhole
    <3>3. CASE alive = "up" /\ link[c] = "up"
      <4>1. Size(inbuffer[c]) = 0 /\ Size(toServer[c]) = 0
        BY <1>i, <3>2, <3>3, EchoSeqs DEF EchoOf
      <4>2. toServer[c] = <<>>
        BY <2>1, <4>1, Sizes
      <4>3. sent = line
        BY <2>2, <3>3, <4>2
      <4> HIDE DEF sent
      <4> QED
        BY <2>2, <3>2, <4>1, <4>3
    <3>4. CASE ~ (alive = "up" /\ link[c] = "up")
      BY <3>1, <3>2, <3>4 DEF EchoWhole
    <3> QED
      BY <3>3, <3>4
  <2> HIDE DEF sent
  <2>7. /\ toServer'[c] = sent /\ req'[c] = req[c] + 1
        /\ \A d \in Clients \ {c} : toServer'[d] = toServer[d] /\ req'[d] = req[d]
    BY <1>i, <2>3 DEF EchoTypes
  <2>8. EchoTypes'
    BY <1>i, <1>u, <2>1, <2>3, <2>4 DEF EchoTypes
  <2>9. Sent(c)' = Sent(c) + 2
    BY <2>1, <2>7 DEF Sent
  <2>10. c \notin cut' => EchoWhole(c)'
    <3> SUFFICES ASSUME c \notin cut PROVE EchoWhole(c)'
      BY <1>u
    <3>1. Shown(c)' = Sent(c)' - 2 /\ cpc'[c] = "wait"
      BY <1>2, <1>7, <2>6, <2>9, EchoSeqs
    <3>2. Line(toServer'[c]) /\ Size(toServer'[c]) + Size(inbuffer'[c]) <= 2
      BY <1>u, <2>6, <2>7
    <3>3. EchoWhole(c)
      BY <1>i DEF EchoOf
    <3> QED
      BY <1>u, <1>6, <3>1, <3>2, <3>3 DEF EchoWhole
  <2>11. EchoOf(c)'
    <3>1. Shown(c) + Returning(c) <= Sent(c) + 2
      BY <1>i, EchoSeqs DEF EchoOf
    <3> QED
      BY <1>i, <1>u, <1>2, <1>6, <1>7, <2>5, <2>7, <2>9, <2>10, <3>1 DEF EchoOf, before
  <2>12. ASSUME NEW d \in Clients, d # c PROVE EchoOf(d)'
    BY <1>u, <1>2, <2>7, <2>12, EchoOther
  <2> QED
    BY <1>3, <1>4, <1>5, <2>8, <2>11, <2>12 DEF EchoInv
<1> QED
  BY <1>8, <1>9 DEF EchoAsk

\* What is read is shown.
LEMMA EchoReplies == ASSUME EchoInv, NEW c \in Clients, EchoReply(c) PROVE EchoInv'
<1>i. Waiting /\ EchoTypes /\ Queued /\ EchoOf(c)
  BY DEF EchoInv
<1>w. cpc \in [Clients -> {"start", "type", "wait", "hung", "closed", "done"}] /\ cpc[c] = "wait"
  BY <1>i DEF Waiting, EchoReply
<1>u. UNCHANGED <<backlog, alive, thread, inbuffer, req, toServer, link, tasks>>
  BY DEF EchoReply, server
<1>1. PICK k \in 1 .. Len(toClient[c]) :
         /\ buffer' = [buffer EXCEPT ![c] = @ \o SubSeq(toClient[c], 1, k)]
         /\ toClient' = [toClient EXCEPT ![c] = SubSeq(@, k + 1, Len(@))]
         /\ cut' = IF toClient[c][k].end THEN cut ELSE cut \cup {c}
  BY DEF EchoReply
<1> DEFINE some == SubSeq(toClient[c], 1, k)
           rest == SubSeq(toClient[c], k + 1, Len(toClient[c]))
           all == buffer[c] \o some
<1>s. toClient[c] \in Seq(Cell(Nat)) /\ buffer[c] \in Seq(Cell(Nat)) /\ k \in Nat /\ k > 0
  BY EchoSeqs
<1>2. /\ some \in Seq(Cell(Nat)) /\ rest \in Seq(Cell(Nat))
      /\ Size(some) = k /\ Size(toClient[c]) = k + Size(rest)
  BY <1>s, Taken
<1>r. Size(rest) \in Nat
  BY <1>2, Sizes
<1>3. /\ buffer' = [buffer EXCEPT ![c] = all] /\ toClient' = [toClient EXCEPT ![c] = rest]
      /\ cpc' = [cpc EXCEPT ![c] = "type"]
  BY <1>1 DEF EchoReply
<1>4. all \in Seq(Cell(Nat)) /\ Size(all) = Shown(c) + k
  <2> HIDE DEF some
  <2> QED
    BY <1>s, <1>2, PutBehind DEF Shown
<1>5. Piece(all, 0) /\ Piece(rest, Shown(c) + k)
  <2>1. Piece(toClient[c], Shown(c)) /\ Piece(buffer[c], 0) /\ Shown(c) \in Nat /\ 0 + Size(buffer[c]) = Shown(c)
    BY <1>i, EchoSeqs DEF EchoOf
  <2>2. Piece(some, Shown(c)) /\ Piece(rest, Shown(c) + k)
    BY <1>s, <2>1, Pieced
  <2> HIDE DEF some
  <2>3. Piece(all, 0)
    BY <1>s, <1>2, <2>1, <2>2, PiecesJoined
  <2> QED
    BY <2>2, <2>3
<1>6. c \notin cut' => c \notin cut /\ k = 2 /\ Line(rest)
  <2> SUFFICES ASSUME c \notin cut' PROVE c \notin cut /\ k = 2 /\ Line(rest)
    OBVIOUS
  <2>1. c \notin cut /\ toClient[c][k].end
    BY <1>1
  <2>2. Line(toClient[c])
    BY <1>i, <2>1 DEF EchoOf, EchoWhole
  <2>3. k = 2
    BY <1>s, <2>1, <2>2, WholeLine
  <2>4. Size(rest) = 0
    <3> HIDE DEF some, rest
    <3> QED
      BY <1>2, <1>r, <2>2, <2>3 DEF Line
  <2>5. rest = <<>>
    BY <1>2, <2>4, Sizes
  <2> QED
    BY <2>1, <2>3, <2>5, NoLine
<1> HIDE DEF some, rest, all
<1>7. /\ buffer'[c] = all /\ toClient'[c] = rest /\ cpc'[c] = "type"
      /\ \A d \in Clients \ {c} : /\ buffer'[d] = buffer[d] /\ toClient'[d] = toClient[d]
                                 /\ cpc'[d] = cpc[d] /\ (d \in cut' <=> d \in cut)
      /\ cut \subseteq cut' /\ cut' \subseteq Clients
      /\ cpc' \in [Clients -> {"start", "type", "wait", "hung", "closed", "done"}]
  BY <1>i, <1>w, <1>1, <1>3 DEF EchoTypes
<1>8. Waiting'
  BY <1>i, <1>w, <1>u, <1>7 DEF Waiting
<1>9. EchoTypes'
  BY <1>i, <1>u, <1>2, <1>3, <1>4, <1>7 DEF EchoTypes
<1>10. Queued'
  BY <1>i, <1>u, QueuedOn
<1>11. /\ alive # "down" /\ link[c] \notin {"fin", "reset"} /\ ~ (link[c] = "rst" /\ thread[c] # "none")
  BY <1>i, <1>w DEF EchoOf
<1>12. EchoOf(c)'
  <2>1. Shown(c)' = Shown(c) + k /\ Returning(c)' = Size(rest) /\ Sent(c)' = Sent(c)
    BY <1>u, <1>4, <1>7 DEF Shown, Returning, Sent
  <2>2. Shown(c)' + Returning(c)' = Shown(c) + Returning(c)
    BY <1>s, <1>2, <1>r, <2>1, EchoSeqs
  <2>3. c \notin cut' => EchoWhole(c)'
    <3> SUFFICES ASSUME c \notin cut' PROVE EchoWhole(c)'
      OBVIOUS
    <3>1. EchoWhole(c)
      BY <1>i, <1>6 DEF EchoOf
    <3>2. Shown(c)' = Sent(c)'
      <4>1. Shown(c) + 2 <= Sent(c)
        BY <1>i, <1>2, <1>6, <1>r, EchoSeqs DEF EchoOf
      <4> QED
        BY <1>6, <2>1, <3>1, <4>1, EchoSeqs DEF EchoWhole
    <3> QED
      BY <1>u, <1>6, <1>7, <1>11, <3>1, <3>2 DEF EchoWhole
  <2>4. /\ Piece(buffer'[c], 0) /\ Piece(toClient'[c], Shown(c)') /\ Shown(c)' + Returning(c)' <= Sent(c)'
    BY <1>i, <1>5, <1>7, <2>1, <2>2 DEF EchoOf
  <2>5. alive' \in {"down", "up"} /\ link'[c] = "up" =>
           /\ Piece(inbuffer'[c], Shown(c)' + Returning(c)')
           /\ Piece(toServer'[c], Shown(c)' + Returning(c)' + Size(inbuffer'[c]))
           /\ Shown(c)' + Returning(c)' + Size(inbuffer'[c]) + Size(toServer'[c]) = Sent(c)'
    BY <1>i, <1>u, <2>1, <2>2 DEF EchoOf
  <2> QED
    BY <1>i, <1>u, <1>11, <2>3, <2>4, <2>5 DEF EchoOf
<1>13. ASSUME NEW d \in Clients, d # c PROVE EchoOf(d)'
  BY <1>u, <1>7, <1>13, EchoOther
<1>14. alive' = "SIGPIPE" => \E d \in cut' : cpc'[d] = "closed"
  <2> SUFFICES ASSUME alive' = "SIGPIPE" PROVE \E d \in cut' : cpc'[d] = "closed"
    OBVIOUS
  <2>1. PICK d \in cut : cpc[d] = "closed"
    BY <1>u DEF EchoInv
  <2>2. d \in Clients \ {c}
    BY <1>i, <1>w, <2>1 DEF EchoTypes
  <2> QED
    BY <1>7, <2>1, <2>2
<1> QED
  BY <1>8, <1>9, <1>10, <1>12, <1>13, <1>14 DEF EchoInv

\* A client connects or ends.
LEMMA EchoComesAndGoes ==
    ASSUME EchoInv, NEW c \in Clients, EchoConnect(c) \/ EchoQuit(c)
    PROVE  EchoInv'
<1>i. Waiting /\ EchoTypes /\ Queued /\ EchoOf(c)
  BY DEF EchoInv
<1>w. /\ cpc \in [Clients -> {"start", "type", "wait", "hung", "closed", "done"}]
      /\ link \in [Clients -> {"up", "fin", "reset", "rst"}] /\ cut \subseteq Clients
  BY <1>i DEF Waiting, EchoTypes
<1>u. UNCHANGED <<alive, thread, inbuffer, buffer, req, toServer, tasks, cut>>
  BY DEF EchoConnect, EchoQuit, Connect, ServerQuit, Quit, server, own, wires
<1>q. Queued'
  BY <1>i, <1>u, QueuedOn
<1>1. CASE cpc[c] = "start"
  <2>1. /\ cpc' \in {[cpc EXCEPT ![c] = "type"], [cpc EXCEPT ![c] = "closed"], cpc}
        /\ UNCHANGED <<toClient, link>> /\ (alive = "down" => cpc' # [cpc EXCEPT ![c] = "type"])
        /\ Connect(c) \/ UNCHANGED backlog
    BY <1>w, <1>1 DEF EchoConnect, EchoQuit, Connect, ServerQuit, Quit, server, wires
  <2>2. /\ cpc'[c] \in {"start", "type", "closed"} /\ (alive = "down" => cpc'[c] # "type")
        /\ \A d \in Clients \ {c} : cpc'[d] = cpc[d]
        /\ cpc' \in [Clients -> {"start", "type", "wait", "hung", "closed", "done"}]
    <3>1. cpc'[c] = "type" => cpc' = [cpc EXCEPT ![c] = "type"]
      BY <1>w, <1>1, <2>1
    <3> QED
      BY <1>w, <1>1, <2>1, <3>1
  <2>3. Waiting'
    <3>1. CASE Connect(c)
      BY <1>i, <3>1, WaitingMore
    <3>2. CASE UNCHANGED backlog
      <4>1. thread' \in [Clients -> Places] /\ link' \in [Clients -> {"up", "fin", "reset", "rst"}]
        BY <1>i, <1>u, <2>1 DEF Waiting
      <4>2. \A d \in Clients : cpc[d] # "start" => cpc'[d] # "start"
        BY <1>1, <2>2
      <4> QED
        BY <1>i, <1>u, <2>1, <2>2, <3>2, <4>1, <4>2, WaitingOn
    <3> QED
      BY <2>1, <3>1, <3>2
  <2>4. EchoTypes'
    BY <1>i, <1>u, <2>1 DEF EchoTypes
  <2>5. Shown(c)' = Shown(c) /\ Returning(c)' = Returning(c) /\ Sent(c)' = Sent(c)
    BY <1>u, <2>1 DEF Shown, Returning, Sent
  <2>6. link[c] \notin {"fin", "reset"} /\ ~ (link[c] = "rst" /\ thread[c] # "none")
    BY <1>i, <1>1 DEF EchoOf
  <2>7. EchoOf(c)'
    BY <1>i, <1>1, <1>u, <2>1, <2>2, <2>5, <2>6 DEF EchoOf, EchoWhole
  <2>8. ASSUME NEW d \in Clients, d # c PROVE EchoOf(d)'
    BY <1>u, <2>1, <2>2, <2>8, EchoOther
  <2>9. alive' = "SIGPIPE" => \E d \in cut' : cpc'[d] = "closed"
    <3> SUFFICES ASSUME alive' = "SIGPIPE" PROVE \E d \in cut' : cpc'[d] = "closed"
      OBVIOUS
    <3>1. PICK d \in cut : cpc[d] = "closed"
      BY <1>u DEF EchoInv
    <3> QED
      BY <1>w, <1>1, <1>u, <2>2, <3>1
  <2> QED
    BY <1>q, <2>3, <2>4, <2>7, <2>8, <2>9 DEF EchoInv
<1>2. CASE cpc[c] # "start"
  <2>1. PICK l \in {"up", "fin", "reset", "rst"}, cells \in {toClient[c], <<>>} :
           /\ link' = [link EXCEPT ![c] = l] /\ toClient' = [toClient EXCEPT ![c] = cells]
           /\ (l = "rst" <=> link[c] = "rst") /\ (l = "up" => link[c] = "up" /\ cells = toClient[c])
           /\ cpc' = [cpc EXCEPT ![c] = "closed"] /\ UNCHANGED backlog
    <3>1. CASE ServerQuit(c)
      <4>1. link' = [link EXCEPT ![c] = link[c]] /\ toClient' = [toClient EXCEPT ![c] = toClient[c]]
        BY <1>i, <1>w, <3>1 DEF ServerQuit, wires, EchoTypes
      <4> QED
        BY <1>w, <3>1, <4>1 DEF ServerQuit, server
    <3>2. CASE Quit(c)
      BY <1>w, <3>2 DEF Quit, server
    <3> QED
      BY <1>2, <3>1, <3>2 DEF EchoConnect, EchoQuit, Connect
  <2>2. /\ cpc'[c] = "closed" /\ link'[c] = l /\ toClient'[c] = cells
        /\ \A d \in Clients \ {c} : cpc'[d] = cpc[d] /\ link'[d] = link[d] /\ toClient'[d] = toClient[d]
        /\ cpc' \in [Clients -> {"start", "type", "wait", "hung", "closed", "done"}]
        /\ link' \in [Clients -> {"up", "fin", "reset", "rst"}]
    BY <1>i, <1>w, <2>1 DEF EchoTypes
  <2>3. Waiting'
    <3>1. UNCHANGED backlog /\ thread' \in [Clients -> Places]
      BY <1>i, <1>u, <2>1 DEF Waiting
    <3>2. \A d \in Clients : /\ thread[d] = "none" => thread'[d] = "none"
                             /\ thread[d] = "none" /\ link'[d] = "rst" => link[d] = "rst"
                             /\ cpc[d] # "start" => cpc'[d] # "start"
                             /\ cpc[d] = "start" => link'[d] = link[d]
      BY <1>2, <1>u, <2>1, <2>2
    <3> QED
      BY <1>i, <2>2, <3>1, <3>2, WaitingOn
  <2>4. cells \in Seq(Cell(Nat)) /\ (cells = toClient[c] \/ cells = <<>>)
    <3>1. <<>> \in Seq(Cell(Nat)) /\ toClient[c] \in Seq(Cell(Nat))
      BY EchoSeqs
    <3> QED
      BY <3>1
  <2>5. EchoTypes'
    BY <1>i, <1>u, <2>1, <2>4 DEF EchoTypes
  <2>6. /\ Shown(c)' = Shown(c) /\ Sent(c)' = Sent(c)
        /\ Returning(c)' \in Nat /\ Returning(c)' <= Returning(c) /\ (cells = toClient[c] => Returning(c)' = Returning(c))
    BY <1>u, <2>2, <2>4, NoCells, EchoSeqs DEF Shown, Returning, Sent
  <2>7. /\ Piece(cells, Shown(c)) /\ (Line(toClient[c]) => Line(cells))
    BY <1>i, <2>4, NoPiece, NoLine DEF EchoOf
  <2>8. c \notin cut' => EchoWhole(c)'
    BY <1>i, <1>u, <2>1, <2>2, <2>6, <2>7 DEF EchoOf, EchoWhole
  <2>9. Shown(c)' + Returning(c)' <= Sent(c)'
    BY <1>i, <2>6, EchoSeqs DEF EchoOf
  <2>10. EchoOf(c)'
    BY <1>i, <1>u, <2>1, <2>2, <2>6, <2>7, <2>8, <2>9 DEF EchoOf
  <2>11. ASSUME NEW d \in Clients, d # c PROVE EchoOf(d)'
    BY <1>u, <2>2, <2>11, EchoOther
  <2>12. alive' = "SIGPIPE" => \E d \in cut' : cpc'[d] = "closed"
    <3> SUFFICES ASSUME alive' = "SIGPIPE" PROVE \E d \in cut' : cpc'[d] = "closed"
      OBVIOUS
    <3>1. PICK d \in cut : cpc[d] = "closed"
      BY <1>u DEF EchoInv
    <3> QED
      BY <1>w, <1>u, <2>2, <3>1
  <2> QED
    BY <1>q, <2>3, <2>5, <2>10, <2>11, <2>12 DEF EchoInv
<1> QED
  BY <1>1, <1>2

\* A connection gets a place, a thread or one in the queue, or is gone.
LEMMA EchoPlaced ==
    ASSUME EchoInv, NEW b \in Clients, NEW p \in {"none", "queued", "recv"}, NEW l,
           thread[b] \in {"none", "queued"}, thread'[b] = p, link'[b] = l,
           l = link[b] \/ (l = "rst" /\ p = "none"),
           thread[b] = "none" => link[b] # "rst",
           \A d \in Clients \ {b} : thread'[d] = thread[d] /\ link'[d] = link[d],
           UNCHANGED <<alive, inbuffer, cpc, buffer, req, toServer, toClient, cut>>, Waiting', Queued'
    PROVE  EchoInv'
<1>1. EchoTypes'
  BY DEF EchoInv, EchoTypes
<1>2. EchoOf(b)'
  BY DEF EchoInv, EchoOf, EchoWhole, Shown, Returning, Sent
<1>3. ASSUME NEW d \in Clients, d # b PROVE EchoOf(d)'
  BY <1>3, EchoOther
<1> QED
  BY <1>1, <1>2, <1>3 DEF EchoInv

LEMMA EchoAccepts == ASSUME EchoInv, UNCHANGED <<tasks, cut>>, Accept \/ AcceptError PROVE EchoInv'
<1>i. Waiting /\ Queued
  BY DEF EchoInv
<1>1. PICK b \in Clients, p \in {"none", "recv"}, l \in {"up", "fin", "reset", "rst"} :
         /\ thread[b] = "none" /\ link[b] # "rst" /\ (l = link[b] \/ (l = "rst" /\ p = "none"))
         /\ thread'[b] = p /\ link'[b] = l
         /\ \A d \in Clients \ {b} : thread'[d] = thread[d] /\ link'[d] = link[d]
         /\ UNCHANGED <<alive, inbuffer, package, cpc, buffer, req, shown, asked, toServer, toClient>>
         /\ Waiting'
  BY <1>i, Accepting
<1>2. Queued'
  BY <1>i, <1>1, QueuedOn
<1> QED
  BY <1>1, <1>2, EchoPlaced

\* 7.19: the connection is put in the queue.
LEMMA PoolAccepts == ASSUME EchoInv, AcceptTask PROVE EchoInv'
<1>i. Waiting /\ Queued
  BY DEF EchoInv
<1>w. thread \in [Clients -> Places] /\ link \in [Clients -> {"up", "fin", "reset", "rst"}]
  BY <1>i DEF Waiting
<1>1. PICK b : b = Head(backlog)
  OBVIOUS
<1>2. /\ backlog # <<>> /\ backlog' = Tail(backlog) /\ thread' = [thread EXCEPT ![b] = "queued"]
      /\ tasks' = Append(tasks, b)
      /\ UNCHANGED <<alive, inbuffer, package, cpc, buffer, req, shown, asked, toServer, toClient, link, cut>>
  BY <1>1 DEF AcceptTask, PushTask, client, wires
<1>3. b \in Clients /\ thread[b] = "none" /\ link[b] # "rst"
  <2>1. Len(backlog) > 0 /\ b = backlog[1]
    BY <1>i, <1>1, <1>2 DEF Waiting
  <2> QED
    BY <1>i, <2>1 DEF Waiting
<1>4. thread'[b] = "queued" /\ \A d \in Clients \ {b} : thread'[d] = thread[d]
  BY <1>w, <1>2, <1>3
<1>5. Waiting'
  <2>1. link' = [link EXCEPT ![b] = link[b]]
    BY <1>w, <1>2, <1>3
  <2> QED
    BY <1>i, <1>w, <1>1, <1>2, <1>3, <2>1, WaitingLess DEF Places
<1>6. Queued'
  <2>1. /\ tasks' \in Seq(Clients) /\ Len(tasks') = Len(tasks) + 1 /\ tasks'[Len(tasks) + 1] = b
        /\ \A i \in 1 .. Len(tasks) : tasks'[i] = tasks[i] /\ tasks[i] \in Clients /\ tasks[i] # b
    BY <1>i, <1>2, <1>3 DEF Queued
  <2> QED
    BY <1>i, <1>4, <2>1 DEF Queued
<1> QED
  BY <1>2, <1>3, <1>4, <1>5, <1>6, EchoPlaced

\* 7.19: a worker takes it from there.
LEMMA PoolTakes == ASSUME EchoInv, NEW w \in Workers, ThreadFunc(w) PROVE EchoInv'
<1>i. Waiting /\ Queued
  BY DEF EchoInv
<1>w. thread \in [Clients -> Places]
  BY <1>i DEF Waiting
<1>u. UNCHANGED <<backlog, alive, inbuffer, package, cpc, buffer, req, shown, asked, toServer, toClient, link, cut>>
  BY DEF ThreadFunc, client, wires
<1>1. CASE ThreadWait(w)
  <2>1. UNCHANGED <<thread, tasks>>
    BY <1>1 DEF ThreadWait
  <2>2. Waiting' /\ Queued'
    <3>1. Waiting'
      BY <1>i, <1>u, <2>1 DEF Waiting
    <3>2. Queued'
      BY <1>i, <2>1 DEF Queued
    <3> QED
      BY <3>1, <3>2
  <2>3. EchoTypes'
    BY <1>u DEF EchoInv, EchoTypes
  <2>4. ASSUME NEW d \in Clients PROVE EchoOf(d)'
    BY <1>u, <2>1, EchoOther
  <2> QED
    BY <1>u, <2>2, <2>3, <2>4 DEF EchoInv
<1>2. CASE PopTask(w)
  <2>1. PICK b : b = Head(tasks)
    OBVIOUS
  <2>2. tasks # <<>> /\ thread' = [thread EXCEPT ![b] = "recv"] /\ tasks' = Tail(tasks)
    BY <1>2, <2>1 DEF PopTask
  <2>3. /\ tasks' \in Seq(Clients) /\ Len(tasks') = Len(tasks) - 1 /\ Len(tasks) > 0
        /\ b = tasks[1] /\ \A i \in 1 .. Len(tasks') : tasks'[i] = tasks[i + 1]
    BY <1>i, <2>1, <2>2 DEF Queued
  <2>4. b \in Clients /\ thread[b] = "queued"
    BY <1>i, <2>3 DEF Queued
  <2>5. /\ thread'[b] = "recv" /\ thread' \in [Clients -> Places]
        /\ \A d \in Clients \ {b} : thread'[d] = thread[d]
    BY <1>w, <2>2, <2>4 DEF Places
  <2>6. Queued'
    <3>1. \A i \in 1 .. Len(tasks') : i + 1 \in 1 .. Len(tasks) /\ tasks[i + 1] # tasks[1] /\ tasks[i + 1] \in Clients
      BY <1>i, <2>3 DEF Queued
    <3>2. \A i \in 1 .. Len(tasks') : thread'[tasks'[i]] = "queued"
      BY <1>i, <2>3, <2>5, <3>1 DEF Queued
    <3>3. \A i, j \in 1 .. Len(tasks') : tasks'[i] = tasks'[j] => i = j
      <4> SUFFICES ASSUME NEW i \in 1 .. Len(tasks'), NEW j \in 1 .. Len(tasks'), tasks'[i] = tasks'[j]
                   PROVE  i = j
        OBVIOUS
      <4>1. i + 1 = j + 1
        BY <1>i, <2>3, <3>1 DEF Queued
      <4> QED
        BY <4>1
    <3> QED
      BY <2>3, <3>2, <3>3 DEF Queued
  <2>7. Waiting'
    BY <1>i, <1>u, <2>4, <2>5 DEF Waiting
  <2> QED
    BY <1>u, <2>4, <2>5, <2>6, <2>7, EchoPlaced
<1> QED
  BY <1>1, <1>2 DEF ThreadFunc

LEMMA EchoStarts == ASSUME EchoInv, UNCHANGED <<tasks, cut>>, InitServer PROVE EchoInv'
<1>u. /\ UNCHANGED <<backlog, thread, inbuffer, cpc, buffer, req, toServer, toClient, link, tasks, cut>>
      /\ alive = "down" /\ alive' \in {"up", "exit"}
  BY DEF InitServer, client, wires
<1>1. Waiting' /\ EchoTypes' /\ Queued'
  BY <1>u DEF EchoInv, Waiting, EchoTypes, Queued
<1>2. ASSUME NEW d \in Clients PROVE EchoOf(d)'
  BY <1>u, EchoOther
<1> QED
  BY <1>u, <1>1, <1>2 DEF EchoInv

-----------------------------------------------------------------------------
(* The web servers.  A client asks once; what is on its way to the server   *)
(* is that request, and what comes back the answer to it.                   *)

WebRequests == UNION {Asks[c] : c \in Clients}
WebAnswers == UNION {PageOrBlank(r) : r \in WebRequests}

WebTypes ==
    /\ toServer \in [Clients -> Seq(Cell(WebRequests))] /\ inbuffer \in [Clients -> Seq(Cell(WebRequests))]
    /\ toClient \in [Clients -> Seq(Cell(WebAnswers))] /\ DOMAIN req = Clients /\ DOMAIN shown = Clients
    /\ asked \in [Clients -> {0, 1}]

WebOf(c) ==
    /\ About(toServer[c], req[c]) /\ About(inbuffer[c], req[c])
    /\ \E answer \in PageOrBlank(req[c]) : About(toClient[c], answer)
    /\ thread[c] \notin {"close", "ended"} => toClient[c] = <<>>
    /\ asked[c] = 0 => toServer[c] = <<>> /\ inbuffer[c] = <<>> /\ toClient[c] = <<>>
    /\ thread[c] = "serve" => inbuffer[c] # <<>>
    /\ thread[c] \in {"recv", "serve", "spin"} => link[c] # "rst"
    /\ cpc[c] = "done" => asked[c] = 1 /\ shown[c] \in PageOrBlank(req[c])

WebInv == Waiting /\ WebTypes /\ (\A c \in Clients : WebOf(c)) /\ alive # "SIGPIPE"

\* What a web server answers is the page, or blank, or 404; there always is an answer.
LEMMA AnyAnswer == ASSUME NEW r PROVE HttpResponses(r) \subseteq PageOrBlank(r) /\ PageOrBlank(r) # {}
<1>1. ASSUME NEW a \in HttpResponses(r) PROVE a \in PageOrBlank(r)
  <2>1. PICK f \in ReadFile(r.url) : a = Response(f.content, IF f.found THEN 200 ELSE 404)
    BY <1>1 DEF HttpResponses
  <2>2. CASE r.url \notin Pages
    <3>1. f = [content |-> "none", found |-> FALSE]
      BY <2>2 DEF ReadFile
    <3> QED
      BY <2>1, <2>2, <3>1 DEF PageOrBlank
  <2>3. CASE r.url \in Pages
    <3>1. \/ f = [content |-> "blank", found |-> FALSE]
          \/ f \in [content : {r.url, "blank"}, found : {TRUE}]
      BY <2>3 DEF ReadFile
    <3>2. f.content = "blank" \/ (f.content = r.url /\ f.found)
      <4>1. CASE f = [content |-> "blank", found |-> FALSE]
        BY ONLY <4>1
      <4>2. CASE f \in [content : {r.url, "blank"}, found : {TRUE}]
        <5>1. f.content \in {r.url, "blank"} /\ f.found \in {TRUE}
          BY ONLY <4>2
        <5> QED
          BY ONLY <5>1
      <4> QED
        BY <3>1, <4>1, <4>2
    <3> QED
      BY <2>1, <2>3, <3>2 DEF PageOrBlank
  <2> QED
    BY <2>2, <2>3
<1> QED
  BY <1>1 DEF PageOrBlank

LEMMA WebInit == ASSUME InitWith(Nothing) PROVE WebInv
<1>1. Waiting
  BY WaitingInit DEF InitWith
<1>2. WebTypes
  BY DEF InitWith, WebTypes
<1>3. ASSUME NEW c \in Clients PROVE WebOf(c)
  BY NoCells, AnyAnswer DEF InitWith, WebOf
<1> QED
  BY <1>1, <1>2, <1>3 DEF WebInv, InitWith

\* A connection nobody touches stays as it is.
LEMMA WebOther ==
    ASSUME WebInv, NEW c \in Clients,
           inbuffer'[c] = inbuffer[c], toServer'[c] = toServer[c], toClient'[c] = toClient[c],
           thread'[c] = thread[c], link'[c] = link[c], cpc'[c] = cpc[c],
           req'[c] = req[c], shown'[c] = shown[c], asked'[c] = asked[c]
    PROVE  WebOf(c)'
BY DEF WebInv, WebOf

LEMMA WebSeqs ==
    ASSUME WebInv, NEW c \in Clients
    PROVE  /\ inbuffer[c] \in Seq(Cell(WebRequests)) /\ toServer[c] \in Seq(Cell(WebRequests))
           /\ toClient[c] \in Seq(Cell(WebAnswers)) /\ asked[c] \in {0, 1} /\ WebOf(c)
BY DEF WebInv, WebTypes

\* The steps of a thread before and after it answers.
LEMMA WebReads == ASSUME WebInv, NEW c \in Clients, HttpRecv(c) PROVE WebInv'
<1>i. Waiting /\ WebTypes /\ WebOf(c) /\ thread \in [Clients -> Places] /\ alive # "SIGPIPE"
  BY DEF WebInv, Waiting
<1>u. thread[c] = "recv" /\ UNCHANGED <<backlog, alive, cpc, req, shown, asked, toClient, link>>
  BY DEF HttpRecv, client
<1>1. PICK k \in 1 .. Len(toServer[c]) :
         /\ inbuffer' = [inbuffer EXCEPT ![c] = SubSeq(toServer[c], 1, k)]
         /\ toServer' = [toServer EXCEPT ![c] = SubSeq(@, k + 1, Len(@))]
  BY DEF HttpRecv
<1> DEFINE some == SubSeq(toServer[c], 1, k)
           rest == SubSeq(toServer[c], k + 1, Len(toServer[c]))
<1>s. toServer[c] \in Seq(Cell(WebRequests)) /\ k \in Nat /\ k > 0
  BY WebSeqs
<1>2. /\ some \in Seq(Cell(WebRequests)) /\ rest \in Seq(Cell(WebRequests)) /\ Size(some) = k
      /\ \A x : About(toServer[c], x) => About(some, x) /\ About(rest, x)
  BY <1>s, Taken
<1>3. /\ inbuffer' = [inbuffer EXCEPT ![c] = some] /\ toServer' = [toServer EXCEPT ![c] = rest]
      /\ thread' = [thread EXCEPT ![c] = "serve"]
  BY <1>1 DEF HttpRecv
<1> HIDE DEF some, rest
<1>4. some # <<>> /\ toServer[c] # <<>>
  <2>1. some # <<>>
    BY <1>s, <1>2, NoCells
  <2>2. Len(toServer[c]) > 0
    BY <1>s
  <2> QED
    BY <2>1, <2>2
<1>5. /\ inbuffer'[c] = some /\ toServer'[c] = rest /\ thread'[c] = "serve" /\ thread' \in [Clients -> Places]
      /\ \A d \in Clients \ {c} : /\ inbuffer'[d] = inbuffer[d] /\ toServer'[d] = toServer[d]
                                 /\ thread'[d] = thread[d]
  BY <1>i, <1>3 DEF WebTypes, Places
<1>6. Waiting'
  BY <1>i, <1>u, <1>5 DEF Waiting
<1>7. WebTypes'
  BY <1>i, <1>u, <1>2, <1>3 DEF WebTypes
<1>8. WebOf(c)'
  BY <1>i, <1>u, <1>2, <1>4, <1>5 DEF WebOf
<1>9. ASSUME NEW d \in Clients, d # c PROVE WebOf(d)'
  BY <1>u, <1>5, <1>9, WebOther
<1> QED
  BY <1>i, <1>u, <1>6, <1>7, <1>8, <1>9 DEF WebInv

LEMMA WebMoves ==
    ASSUME WebInv, NEW c \in Clients,
           Desarialize(c) \/ HttpClientQuit(c) \/ HttpClose(c) \/ HttpKeep(c)
    PROVE  WebInv'
<1>i. Waiting /\ WebTypes /\ WebOf(c) /\ thread \in [Clients -> Places] /\ alive # "SIGPIPE"
  BY DEF WebInv, Waiting
<1>1. PICK p \in {"spin", "close", "ended"}, cells \in {toClient[c], <<>>} :
         /\ thread' = [thread EXCEPT ![c] = p] /\ toClient' = [toClient EXCEPT ![c] = cells]
         /\ p = "spin" => thread[c] = "serve"
  <2>1. CASE HttpClose(c)
    BY <2>1 DEF HttpClose
  <2>2. CASE Desarialize(c) \/ HttpClientQuit(c) \/ HttpKeep(c)
    <3>1. toClient' = [toClient EXCEPT ![c] = toClient[c]]
      BY <1>i, <2>2 DEF Desarialize, HttpClientQuit, HttpKeep, wires, WebTypes
    <3> QED
      BY <2>2, <3>1 DEF Desarialize, HttpClientQuit, HttpKeep
  <2> QED
    BY <2>1, <2>2
<1>2. thread[c] # "none" /\ UNCHANGED <<backlog, alive, inbuffer, cpc, req, shown, asked, toServer, link>>
  BY DEF Desarialize, HttpClientQuit, HttpClose, HttpKeep, client, wires
<1>3. /\ thread'[c] = p /\ toClient'[c] = cells /\ thread' \in [Clients -> Places]
      /\ \A d \in Clients \ {c} : thread'[d] = thread[d] /\ toClient'[d] = toClient[d]
  BY <1>i, <1>1 DEF WebTypes, Places
<1>4. cells \in Seq(Cell(WebAnswers)) /\ (cells = toClient[c] \/ cells = <<>>)
  <2>1. <<>> \in Seq(Cell(WebAnswers)) /\ toClient[c] \in Seq(Cell(WebAnswers))
    BY WebSeqs
  <2> QED
    BY <2>1
<1>5. Waiting'
  BY <1>i, <1>2, <1>3 DEF Waiting
<1>6. WebTypes'
  BY <1>i, <1>1, <1>2, <1>4 DEF WebTypes
<1>7. WebOf(c)'
  BY <1>i, <1>1, <1>2, <1>3, <1>4, NoCells DEF WebOf
<1>8. ASSUME NEW d \in Clients, d # c PROVE WebOf(d)'
  BY <1>2, <1>3, <1>8, WebOther
<1> QED
  BY <1>i, <1>2, <1>5, <1>6, <1>7, <1>8 DEF WebInv

\* handlerHttpRequest: the answer is sent.
LEMMA WebServes == ASSUME WebInv, NEW c \in Clients, HttpServe(c) PROVE WebInv'
<1>i. Waiting /\ WebTypes /\ WebOf(c) /\ thread \in [Clients -> Places] /\ thread[c] = "serve"
  BY DEF WebInv, Waiting, HttpServe
<1>w. link \in [Clients -> {"up", "fin", "reset", "rst"}] /\ link[c] # "rst"
  BY <1>i DEF Waiting, WebOf
<1>1. /\ inbuffer[c] # <<>> /\ asked[c] = 1 /\ inbuffer[c][1].of = req[c] /\ req[c] \in WebRequests
      /\ toClient[c] = <<>>
  <2>1. inbuffer[c] # <<>> /\ asked[c] = 1 /\ inbuffer[c] \in Seq(Cell(WebRequests))
    BY <1>i, WebSeqs DEF WebOf
  <2>2. 1 \in 1 .. Len(inbuffer[c])
    BY <2>1
  <2>3. inbuffer[c][1] \in Cell(WebRequests) /\ inbuffer[c][1].of = req[c]
    BY <1>i, <2>1, <2>2 DEF WebOf, About
  <2> QED
    BY <1>i, <2>1, <2>3 DEF Cell, WebOf
<1>2. PICK a \in PageOrBlank(req[c]) : Send(c, a)
  BY <1>1, AnyAnswer DEF HttpServe
<1>3. PICK answer \in Seq(Cell(WebAnswers)) : answer = Cells(a) /\ About(answer, a)
  <2>1. a \in WebAnswers
    BY <1>1, <1>2 DEF WebAnswers
  <2> QED
    BY <2>1, SomeCells
<1> DEFINE sent == IF link[c] = "up" THEN toClient[c] \o answer ELSE toClient[c]
<1>4. /\ toClient' = [toClient EXCEPT ![c] = sent] /\ inbuffer' = [inbuffer EXCEPT ![c] = <<>>]
      /\ thread' = [thread EXCEPT ![c] = "close"] /\ alive' = "up"
      /\ UNCHANGED <<backlog, cpc, req, shown, asked, toServer>>
  <2>1. toClient' = [toClient EXCEPT ![c] = sent] /\ alive' = "up"
    BY <1>w, <1>2, <1>3 DEF Send, SendCells
  <2> QED
    BY <2>1 DEF HttpServe, client
<1>5. PICK l \in {"up", "fin", "reset", "rst"} : link' = [link EXCEPT ![c] = l]
  BY <1>w, <1>2 DEF Send, SendCells
<1>6. sent \in Seq(Cell(WebAnswers)) /\ About(sent, a)
  <2>1. toClient[c] \in Seq(Cell(WebAnswers)) /\ About(toClient[c], a)
    BY <1>1, WebSeqs, NoCells
  <2>2. toClient[c] \o answer \in Seq(Cell(WebAnswers)) /\ About(toClient[c] \o answer, a)
    BY <1>3, <2>1, PutBehind
  <2> QED
    BY <2>1, <2>2
<1> HIDE DEF sent
<1>7. /\ inbuffer'[c] = <<>> /\ toClient'[c] = sent /\ thread'[c] = "close"
      /\ \A d \in Clients \ {c} : /\ inbuffer'[d] = inbuffer[d] /\ toClient'[d] = toClient[d]
                                 /\ thread'[d] = thread[d] /\ link'[d] = link[d]
      /\ thread' \in [Clients -> Places] /\ link' \in [Clients -> {"up", "fin", "reset", "rst"}]
  BY <1>i, <1>w, <1>4, <1>5 DEF WebTypes, Places
<1>8. Waiting'
  <2>1. UNCHANGED backlog /\ cpc' \in [Clients -> {"start", "type", "wait", "hung", "closed", "done"}]
    BY <1>i, <1>4 DEF Waiting
  <2>2. cpc[c] # "start"
    BY <1>i DEF Waiting
  <2>3. \A d \in Clients : /\ thread[d] = "none" => thread'[d] = "none"
                           /\ thread[d] = "none" /\ link'[d] = "rst" => link[d] = "rst"
                           /\ cpc[d] # "start" => cpc'[d] # "start"
                           /\ cpc[d] = "start" => link'[d] = link[d]
    BY <1>i, <1>4, <1>7, <2>2
  <2> QED
    BY <1>i, <1>7, <2>1, <2>3, WaitingOn
<1>9. WebTypes'
  BY <1>i, <1>4, <1>6 DEF WebTypes
<1>10. WebOf(c)'
  BY <1>i, <1>1, <1>2, <1>4, <1>6, <1>7, NoCells DEF WebOf
<1>11. ASSUME NEW d \in Clients, d # c PROVE WebOf(d)'
  BY <1>4, <1>7, <1>11, WebOther
<1> QED
  BY <1>4, <1>8, <1>9, <1>10, <1>11 DEF WebInv

\* The request is sent.
LEMMA WebAsks == ASSUME WebInv, NEW c \in Clients, BrowserAsk(c) PROVE WebInv'
<1>i. Waiting /\ WebTypes /\ WebOf(c) /\ alive # "SIGPIPE"
  BY DEF WebInv
<1>w. cpc \in [Clients -> {"start", "type", "wait", "hung", "closed", "done"}] /\ cpc[c] = "type"
  BY <1>i DEF Waiting, BrowserAsk
<1>1. PICK r \in Asks[c] :
         /\ req' = [req EXCEPT ![c] = r]
         /\ toServer' = [toServer EXCEPT ![c] =
               IF alive = "up" /\ link[c] = "up" THEN Cells(r) ELSE @]
  BY DEF BrowserAsk
<1>2. /\ asked[c] = 0 /\ asked' = [asked EXCEPT ![c] = 1] /\ cpc' = [cpc EXCEPT ![c] = "wait"]
      /\ UNCHANGED <<backlog, alive, thread, inbuffer, toClient, link, shown>>
  BY DEF BrowserAsk, server
<1>3. toServer[c] = <<>> /\ inbuffer[c] = <<>> /\ toClient[c] = <<>>
  BY <1>i, <1>2 DEF WebOf
<1>4. PICK sent \in Seq(Cell(WebRequests)) : toServer' = [toServer EXCEPT ![c] = sent] /\ About(sent, r)
  <2>1. r \in WebRequests
    BY DEF WebRequests
  <2>2. Cells(r) \in Seq(Cell(WebRequests)) /\ About(Cells(r), r)
    BY <2>1, SomeCells
  <2>3. toServer[c] \in Seq(Cell(WebRequests)) /\ About(toServer[c], r)
    BY <1>3, WebSeqs, NoCells
  <2>4. CASE alive = "up" /\ link[c] = "up"
    BY <1>1, <2>2, <2>4
  <2>5. CASE ~ (alive = "up" /\ link[c] = "up")
    <3>1. toServer' = [toServer EXCEPT ![c] = toServer[c]]
      BY <1>1, <2>5
    <3> QED
      BY <2>3, <3>1
  <2> QED
    BY <2>4, <2>5
<1>5. /\ toServer'[c] = sent /\ req'[c] = r /\ asked'[c] = 1 /\ cpc'[c] = "wait"
      /\ \A d \in Clients \ {c} : /\ toServer'[d] = toServer[d] /\ req'[d] = req[d]
                                 /\ asked'[d] = asked[d] /\ cpc'[d] = cpc[d]
      /\ cpc' \in [Clients -> {"start", "type", "wait", "hung", "closed", "done"}]
  BY <1>i, <1>w, <1>1, <1>2, <1>4 DEF WebTypes
<1>6. Waiting'
  BY <1>i, <1>w, <1>2, <1>5 DEF Waiting
<1>7. WebTypes'
  BY <1>i, <1>1, <1>2, <1>4 DEF WebTypes
<1>8. WebOf(c)'
  BY <1>i, <1>2, <1>3, <1>4, <1>5, NoCells, AnyAnswer DEF WebOf
<1>9. ASSUME NEW d \in Clients, d # c PROVE WebOf(d)'
  BY <1>2, <1>5, <1>9, WebOther
<1> QED
  BY <1>i, <1>2, <1>6, <1>7, <1>8, <1>9 DEF WebInv

\* The page is shown.
LEMMA WebShows == ASSUME WebInv, NEW c \in Clients, BrowserRead(c) PROVE WebInv'
<1>i. Waiting /\ WebTypes /\ WebOf(c) /\ alive # "SIGPIPE"
  BY DEF WebInv
<1>w. cpc \in [Clients -> {"start", "type", "wait", "hung", "closed", "done"}] /\ cpc[c] = "wait"
  BY <1>i DEF Waiting, BrowserRead
<1>1. /\ shown' = [shown EXCEPT ![c] = toClient[c][1].of] /\ toClient' = [toClient EXCEPT ![c] = <<>>]
      /\ cpc' = [cpc EXCEPT ![c] = "done"] /\ Complete(toClient[c])
      /\ UNCHANGED <<backlog, alive, thread, inbuffer, toServer, link, req, asked>>
  BY DEF BrowserRead, server
<1>2. toClient[c][1].of \in PageOrBlank(req[c]) /\ toClient[c] # <<>> /\ asked[c] = 1
  <2>1. PICK a \in PageOrBlank(req[c]) : toClient[c] \in Seq(Cell(WebAnswers)) /\ About(toClient[c], a)
    BY <1>i, WebSeqs DEF WebOf
  <2>2. Size(toClient[c]) >= 2 /\ toClient[c][1].of = a
    BY <1>1, <2>1, Whole
  <2>3. toClient[c] # <<>>
    BY <2>2, NoCells
  <2> QED
    BY <1>i, <2>2, <2>3, WebSeqs DEF WebOf
<1>3. /\ shown'[c] \in PageOrBlank(req[c]) /\ toClient'[c] = <<>> /\ cpc'[c] = "done"
      /\ \A d \in Clients \ {c} : shown'[d] = shown[d] /\ toClient'[d] = toClient[d] /\ cpc'[d] = cpc[d]
      /\ cpc' \in [Clients -> {"start", "type", "wait", "hung", "closed", "done"}]
  BY <1>i, <1>w, <1>1, <1>2 DEF WebTypes
<1>4. Waiting'
  BY <1>i, <1>w, <1>1, <1>3 DEF Waiting
<1>5. WebTypes'
  <2>1. <<>> \in Seq(Cell(WebAnswers))
    OBVIOUS
  <2> QED
    BY <1>i, <1>1, <2>1 DEF WebTypes
<1>6. WebOf(c)'
  BY <1>i, <1>1, <1>2, <1>3, NoCells DEF WebOf
<1>7. ASSUME NEW d \in Clients, d # c PROVE WebOf(d)'
  BY <1>1, <1>3, <1>7, WebOther
<1> QED
  BY <1>i, <1>1, <1>4, <1>5, <1>6, <1>7 DEF WebInv

\* A browser connects, gives up, or is closed.
LEMMA WebComesAndGoes ==
    ASSUME WebInv, NEW c \in Clients, BrowserConnect(c) \/ BrowserEof(c) \/ BrowserQuit(c)
    PROVE  WebInv'
<1>i. Waiting /\ WebTypes /\ WebOf(c) /\ alive # "SIGPIPE"
  BY DEF WebInv
<1>w. /\ cpc \in [Clients -> {"start", "type", "wait", "hung", "closed", "done"}]
      /\ link \in [Clients -> {"up", "fin", "reset", "rst"}]
  BY <1>i DEF Waiting
<1>u. UNCHANGED <<alive, thread, inbuffer, req, shown, asked, toServer>>
  BY DEF BrowserConnect, BrowserEof, BrowserQuit, Connect, ServerQuit, Quit, server, wires
<1>1. PICK l \in {"up", "fin", "reset", "rst"}, cells \in {toClient[c], <<>>}, q \in {"type", "closed"} :
         /\ link' = [link EXCEPT ![c] = l] /\ toClient' = [toClient EXCEPT ![c] = cells]
         /\ cpc' = [cpc EXCEPT ![c] = q] /\ (l = "rst" <=> link[c] = "rst")
         /\ (cpc[c] = "start" => l = link[c] /\ Connect(c)) /\ (cpc[c] # "start" => UNCHANGED backlog)
  <2>1. CASE BrowserQuit(c)
    BY <1>w, <2>1 DEF BrowserQuit, Quit, server
  <2>2. CASE BrowserConnect(c) \/ BrowserEof(c)
    <3>1. link' = [link EXCEPT ![c] = link[c]] /\ toClient' = [toClient EXCEPT ![c] = toClient[c]]
      BY <1>i, <1>w, <2>2 DEF BrowserConnect, BrowserEof, Connect, ServerQuit, wires, WebTypes
    <3>2. CASE BrowserConnect(c)
      BY <1>w, <3>1, <3>2 DEF BrowserConnect, Connect
    <3>3. CASE BrowserEof(c)
      BY <1>w, <3>1, <3>3 DEF BrowserEof, ServerQuit, server
    <3> QED
      BY <2>2, <3>2, <3>3
  <2> QED
    BY <2>1, <2>2
<1>2. /\ link'[c] = l /\ toClient'[c] = cells /\ cpc'[c] = q
      /\ \A d \in Clients \ {c} : link'[d] = link[d] /\ toClient'[d] = toClient[d] /\ cpc'[d] = cpc[d]
      /\ cpc' \in [Clients -> {"start", "type", "wait", "hung", "closed", "done"}]
      /\ link' \in [Clients -> {"up", "fin", "reset", "rst"}]
  BY <1>i, <1>w, <1>1 DEF WebTypes
<1>3. Waiting'
  <2>1. CASE cpc[c] = "start"
    BY <1>i, <1>1, <2>1, WaitingMore
  <2>2. CASE cpc[c] # "start"
    <3>1. UNCHANGED backlog /\ thread' \in [Clients -> Places]
      BY <1>i, <1>u, <1>1, <2>2 DEF Waiting
    <3>2. \A d \in Clients : /\ thread[d] = "none" => thread'[d] = "none"
                             /\ thread[d] = "none" /\ link'[d] = "rst" => link[d] = "rst"
                             /\ cpc[d] # "start" => cpc'[d] # "start"
                             /\ cpc[d] = "start" => link'[d] = link[d]
      BY <1>u, <1>1, <1>2, <2>2
    <3> QED
      BY <1>i, <1>2, <3>1, <3>2, WaitingOn
  <2> QED
    BY <2>1, <2>2
<1>4. cells \in Seq(Cell(WebAnswers)) /\ (cells = toClient[c] \/ cells = <<>>)
  <2>1. <<>> \in Seq(Cell(WebAnswers)) /\ toClient[c] \in Seq(Cell(WebAnswers))
    BY WebSeqs
  <2> QED
    BY <2>1
<1>5. WebTypes'
  BY <1>i, <1>u, <1>1, <1>4 DEF WebTypes
<1>6. WebOf(c)'
  BY <1>i, <1>u, <1>1, <1>2, <1>4, NoCells DEF WebOf
<1>7. ASSUME NEW d \in Clients, d # c PROVE WebOf(d)'
  BY <1>u, <1>2, <1>7, WebOther
<1> QED
  BY <1>i, <1>u, <1>3, <1>5, <1>6, <1>7 DEF WebInv

\* The server starts, accepts, or dies of a request.
LEMMA WebAccepts ==
    ASSUME WebInv, InitServer \/ Accept \/ AcceptError \/ Killed("bad_alloc")
    PROVE  WebInv'
<1>i. Waiting /\ WebTypes /\ alive # "SIGPIPE"
  BY DEF WebInv
<1>1. CASE InitServer \/ Killed("bad_alloc")
  <2>1. /\ UNCHANGED <<backlog, thread, inbuffer, cpc, req, shown, asked, toServer, toClient, link>>
        /\ alive' \in {"up", "exit", "bad_alloc"}
    BY <1>1 DEF InitServer, Killed, client, wires
  <2>2. Waiting' /\ WebTypes'
    BY <1>i, <2>1 DEF Waiting, WebTypes
  <2>3. ASSUME NEW d \in Clients PROVE WebOf(d)'
    BY <2>1, WebOther
  <2> QED
    BY <2>1, <2>2, <2>3 DEF WebInv
<1>2. CASE Accept \/ AcceptError
  <2>1. PICK b \in Clients, p \in {"none", "recv"}, l \in {"up", "fin", "reset", "rst"} :
           /\ thread[b] = "none" /\ link[b] # "rst" /\ (l = link[b] \/ (l = "rst" /\ p = "none"))
           /\ thread'[b] = p /\ link'[b] = l
           /\ \A d \in Clients \ {b} : thread'[d] = thread[d] /\ link'[d] = link[d]
           /\ UNCHANGED <<alive, inbuffer, package, cpc, buffer, req, shown, asked, toServer, toClient>>
           /\ Waiting'
    BY <1>i, <1>2, Accepting
  <2>2. WebTypes'
    BY <1>i, <2>1 DEF WebTypes
  <2>3. WebOf(b)'
    BY <2>1 DEF WebInv, WebOf
  <2>4. ASSUME NEW d \in Clients, d # b PROVE WebOf(d)'
    BY <2>1, <2>4, WebOther
  <2> QED
    BY <1>i, <2>1, <2>2, <2>3, <2>4 DEF WebInv
<1> QED
  BY <1>1, <1>2

\* The server whose threads get no thread data never answers.
WildInv == alive # "SIGPIPE" /\ \A c \in Clients : cpc[c] # "done"

\* None of its steps, nor of its clients', changes that.
LEMMA WildSteps ==
    ASSUME WildInv, kind = "http_wild", tasks = <<>>, ServersNext
    PROVE  WildInv'
<1>k. kind \notin EchoKinds /\ kind \notin HttpKinds /\ kind # "calc" /\ kind # "thread" /\ kind # "pool"
  BY DEF EchoKinds, HttpKinds
<1>a. ASSUME alive' = alive \/ alive' \in {"up", "exit", "SIGSEGV"}, cpc' = cpc
      PROVE  WildInv'
  BY <1>a DEF WildInv
<1>b. ASSUME UNCHANGED alive, NEW c \in Clients, NEW q \in {"start", "type", "wait", "hung", "closed"},
             cpc' = [cpc EXCEPT ![c] = q]
      PROVE  WildInv'
  BY <1>b DEF WildInv
<1>1. CASE InitWild \/ AcceptWild
  BY <1>1, <1>a DEF InitWild, AcceptWild, InitServer, Accept, AcceptError, client
<1>2. CASE \E w \in Workers : ThreadFunc(w)
  BY <1>2, <1>a DEF ThreadFunc, client
<1>3. ASSUME NEW c \in Clients, WildThread(c) PROVE WildInv'
  BY <1>3, <1>a DEF WildThread, Killed, client
<1>4. ASSUME NEW c \in Clients, Browser(c) PROVE WildInv'
  <2>1. CASE BrowserConnect(c)
    BY <1>b, <2>1 DEF BrowserConnect, Connect
  <2>2. CASE BrowserAsk(c)
    BY <1>b, <2>2 DEF BrowserAsk, server
  <2>3. CASE BrowserEof(c)
    BY <1>b, <2>3 DEF BrowserEof, ServerQuit, server
  <2>4. CASE BrowserQuit(c)
    BY <1>b, <2>4 DEF BrowserQuit, Quit, server
  <2> QED
    BY <1>k, <1>4, <2>1, <2>2, <2>3, <2>4 DEF Browser, BrowserRead
<1>5. ASSUME NEW c \in Clients, HttpThread(c) PROVE WildThread(c)
  BY <1>k, <1>5 DEF HttpThread, HttpRecv, Desarialize, BadAlloc, HttpServe, HttpClientQuit, HttpClose, HttpKeep
<1>6. ASSUME NEW c \in Clients PROVE ~ Service(c) /\ ~ EchoClient(c)
  BY <1>k DEF Service, EchoRead, EchoWrite, EchoEnd, EchoClient, EchoConnect, EchoAsk, EchoReply, EchoQuit
<1>7. ~ (InitEcho \/ InitPoolServer \/ InitHttp \/ CalcStep \/ AcceptEcho \/ AcceptHttp \/ AcceptTask \/ AcceptTaskError)
  BY <1>k DEF InitEcho, InitPoolServer, InitHttp, CalcStep, AcceptEcho, AcceptHttp, AcceptTask, AcceptTaskError
<1> QED
  BY <1>1, <1>2, <1>3, <1>4, <1>5, <1>6, <1>7 DEF ServersNext

-----------------------------------------------------------------------------
(* All of them: the inductive invariant is the one of the server that runs. *)

IInvServers ==
    /\ kind \in {"calc", "http_wild"} \cup EchoKinds \cup HttpKinds
    /\ kind # "pool" => tasks = <<>>
    /\ kind = "calc" => CalcInv
    /\ kind \in EchoKinds => EchoInv
    /\ kind \in HttpKinds => WebInv
    /\ kind = "http_wild" => WildInv

LEMMA ServersStart == ServersInit => IInvServers
<1> SUFFICES ASSUME ServersInit PROVE IInvServers
  OBVIOUS
<1>1. kind = "calc" => CalcInv
  BY CalcInit DEF ServersInit, Init, EchoKinds
<1>2. kind \in EchoKinds => EchoInv
  BY EchoInit DEF ServersInit
<1>3. kind \in HttpKinds => WebInv
  BY WebInit DEF ServersInit, EchoKinds, HttpKinds
<1>4. kind = "http_wild" => WildInv
  BY DEF ServersInit, InitWith, WildInv
<1> QED
  BY <1>1, <1>2, <1>3, <1>4 DEF ServersInit, IInvServers

\* The server that runs stays the one it is, and only the pool has tasks.
LEMMA SameServer ==
    ASSUME ServersNext, kind # "pool" => tasks = <<>>
    PROVE  kind' = kind /\ (kind # "pool" => tasks' = <<>>)
<1>1. ASSUME NEW c \in Clients, Service(c) \/ EchoClient(c) PROVE UNCHANGED <<kind, tasks>>
  BY <1>1 DEF Service, EchoRead, EchoWrite, EchoEnd, EchoClient, EchoConnect, EchoAsk, EchoReply, EchoQuit, own
<1>2. ASSUME NEW c \in Clients, HttpThread(c) PROVE UNCHANGED <<kind, tasks>>
  BY <1>2 DEF HttpThread, HttpRecv, Desarialize, BadAlloc, HttpServe, HttpClientQuit, HttpClose, HttpKeep, WildThread, own
<1>3. ASSUME NEW c \in Clients, Browser(c) PROVE UNCHANGED <<kind, tasks>>
  BY <1>3 DEF Browser, BrowserConnect, BrowserAsk, BrowserRead, BrowserEof, BrowserQuit, own
<1>4. ASSUME NEW w \in Workers, ThreadFunc(w)
      PROVE  kind' = kind /\ (kind # "pool" => tasks' = <<>>)
  BY <1>4 DEF ThreadFunc, PopTask, ThreadWait
<1>5. CASE AcceptTask
  BY <1>5 DEF AcceptTask
<1>6. ASSUME \/ InitEcho \/ InitPoolServer \/ InitHttp \/ InitWild
             \/ CalcStep \/ AcceptEcho \/ AcceptHttp \/ AcceptWild \/ AcceptTaskError
      PROVE  UNCHANGED <<kind, tasks>>
  BY <1>6 DEF InitEcho, InitPoolServer, InitHttp, InitWild, CalcStep, AcceptEcho, AcceptHttp, AcceptWild,
              AcceptTaskError, own
<1> QED
  BY <1>1, <1>2, <1>3, <1>4, <1>5, <1>6 DEF ServersNext

\* An idle worker of a server that has no pool leaves the rest alone.
LEMMA NoTask ==
    ASSUME NEW w \in Workers, ThreadFunc(w), tasks = <<>>
    PROVE  UNCHANGED vars
BY DEF ThreadFunc, PopTask, ThreadWait, vars, server

\* What nobody touches stays as it is.
LEMMA NothingDone ==
    ASSUME UNCHANGED vars
    PROVE  /\ CalcInv => CalcInv'
           /\ EchoTypes /\ cut' = cut => EchoTypes'
           /\ \A c \in Clients : EchoOf(c) /\ cut' = cut => EchoOf(c)'
           /\ Waiting => Waiting'
           /\ WebInv => WebInv'
<1>u. /\ UNCHANGED <<backlog, alive, thread, open, inbuffer, package>>
      /\ UNCHANGED <<cpc, buffer, req, shown, asked>> /\ UNCHANGED <<toServer, toClient, link>>
  BY DEF vars, server, client, wires
<1>1. Waiting => Waiting'
  BY <1>u DEF Waiting
<1>2. CalcTypes => CalcTypes'
  BY <1>u DEF CalcTypes
<1>3. CalcInv => OneRequest'
  <2> SUFFICES ASSUME CalcInv, NEW c \in Clients PROVE CalcClient(c)'
    BY DEF OneRequest
  <2> QED
    BY <1>u, CalcOther
<1>4. EchoTypes /\ cut' = cut => EchoTypes'
  BY <1>u DEF EchoTypes
<1>5. ASSUME NEW c \in Clients, EchoOf(c), cut' = cut PROVE EchoOf(c)'
  BY <1>u, <1>5 DEF EchoOf, EchoWhole, Shown, Returning, Sent
<1>6. WebInv => WebTypes'
  BY <1>u DEF WebInv, WebTypes
<1>7. WebInv => \A c \in Clients : WebOf(c)'
  BY <1>u, WebOther
<1> QED
  BY <1>u, <1>1, <1>2, <1>3, <1>4, <1>5, <1>6, <1>7 DEF CalcInv, WebInv

\* Nobody but the calculator and its clients does anything then.
LEMMA CalcOnly ==
    ASSUME CalcInv, kind = "calc", tasks = <<>>, ServersNext
    PROVE  CalcInv'
<1>1. CASE CalcStep
  BY <1>1, CalcInvariance DEF CalcStep
<1>2. CASE \E w \in Workers : ThreadFunc(w)
  <2>1. UNCHANGED vars
    BY <1>2, NoTask
  <2> QED
    BY <2>1, NothingDone
<1>3. ~ (InitEcho \/ InitPoolServer \/ InitHttp \/ InitWild \/ AcceptEcho \/ AcceptHttp \/ AcceptWild)
  BY DEF InitEcho, InitPoolServer, InitHttp, InitWild, AcceptEcho, AcceptHttp, AcceptWild, HttpKinds
<1>4. ~ (AcceptTask \/ AcceptTaskError)
  BY DEF AcceptTask, AcceptTaskError
<1>5. ASSUME NEW c \in Clients PROVE ~ Service(c) /\ ~ EchoClient(c)
  BY DEF Service, EchoRead, EchoWrite, EchoEnd, EchoClient, EchoConnect, EchoAsk, EchoReply, EchoQuit, EchoKinds
<1>6. ASSUME NEW c \in Clients PROVE ~ HttpThread(c)
  BY DEF HttpThread, HttpRecv, Desarialize, BadAlloc, HttpServe, HttpClientQuit, HttpClose, HttpKeep,
         WildThread, HttpKinds
<1>7. ASSUME NEW c \in Clients PROVE ~ Browser(c)
  BY DEF Browser, BrowserConnect, BrowserAsk, BrowserRead, BrowserEof, BrowserQuit, HttpKinds
<1> QED
  BY <1>1, <1>2, <1>3, <1>4, <1>5, <1>6, <1>7 DEF ServersNext

LEMMA EchoOnly ==
    ASSUME EchoInv, kind \in EchoKinds, ServersNext
    PROVE  EchoInv'
<1>1. CASE InitEcho \/ InitPoolServer
  BY <1>1, EchoStarts DEF InitEcho, InitPoolServer, own
<1>2. CASE AcceptEcho \/ AcceptTaskError
  BY <1>2, EchoAccepts DEF AcceptEcho, AcceptTaskError, own
<1>3. CASE AcceptTask \/ \E w \in Workers : ThreadFunc(w)
  BY <1>3, PoolAccepts, PoolTakes
<1>4. ASSUME NEW c \in Clients, Service(c) PROVE EchoInv'
  BY <1>4, EchoReads, EchoWrites, EchoEnds DEF Service
<1>5. ASSUME NEW c \in Clients, EchoClient(c) PROVE EchoInv'
  BY <1>5, EchoAsks, EchoReplies, EchoComesAndGoes DEF EchoClient
<1>6. ~ (InitHttp \/ InitWild \/ CalcStep \/ AcceptHttp \/ AcceptWild)
  BY DEF InitHttp, InitWild, CalcStep, AcceptHttp, AcceptWild, HttpKinds, EchoKinds
<1>7. ASSUME NEW c \in Clients PROVE ~ HttpThread(c)
  BY DEF HttpThread, HttpRecv, Desarialize, BadAlloc, HttpServe, HttpClientQuit, HttpClose, HttpKeep,
         WildThread, HttpKinds, EchoKinds
<1>8. ASSUME NEW c \in Clients PROVE ~ Browser(c)
  BY DEF Browser, BrowserConnect, BrowserAsk, BrowserRead, BrowserEof, BrowserQuit, HttpKinds, EchoKinds
<1> QED
  BY <1>1, <1>2, <1>3, <1>4, <1>5, <1>6, <1>7, <1>8 DEF ServersNext

LEMMA WebOnly ==
    ASSUME WebInv, kind \in HttpKinds, tasks = <<>>, ServersNext
    PROVE  WebInv'
<1>1. CASE InitHttp \/ AcceptHttp
  BY <1>1, WebAccepts DEF InitHttp, AcceptHttp
<1>2. CASE \E w \in Workers : ThreadFunc(w)
  <2>1. UNCHANGED vars
    BY <1>2, NoTask
  <2> QED
    BY <2>1, NothingDone
<1>3. ASSUME NEW c \in Clients, HttpThread(c) PROVE WebInv'
  <2>1. CASE BadAlloc(c)
    BY <2>1, WebAccepts DEF BadAlloc
  <2>2. ~ WildThread(c)
    BY DEF WildThread, HttpKinds
  <2> QED
    BY <1>3, <2>1, <2>2, WebReads, WebMoves, WebServes DEF HttpThread
<1>4. ASSUME NEW c \in Clients, Browser(c) PROVE WebInv'
  BY <1>4, WebAsks, WebShows, WebComesAndGoes DEF Browser
<1>5. ~ (InitEcho \/ InitPoolServer \/ InitWild \/ CalcStep \/ AcceptEcho \/ AcceptWild)
  BY DEF InitEcho, InitPoolServer, InitWild, CalcStep, AcceptEcho, AcceptWild, HttpKinds
<1>6. ~ (AcceptTask \/ AcceptTaskError)
  BY DEF AcceptTask, AcceptTaskError, HttpKinds
<1>7. ASSUME NEW c \in Clients PROVE ~ Service(c) /\ ~ EchoClient(c)
  BY DEF Service, EchoRead, EchoWrite, EchoEnd, EchoClient, EchoConnect, EchoAsk, EchoReply, EchoQuit,
         EchoKinds, HttpKinds
<1> QED
  BY <1>1, <1>2, <1>3, <1>4, <1>5, <1>6, <1>7 DEF ServersNext

LEMMA ServersInvariance == IInvServers /\ [ServersNext]_allVars => IInvServers'
<1> SUFFICES ASSUME IInvServers, [ServersNext]_allVars PROVE IInvServers'
  OBVIOUS
<1>1. CASE UNCHANGED allVars
  <2>1. UNCHANGED vars /\ UNCHANGED <<kind, tasks, cut>> /\ alive' = alive /\ cpc' = cpc /\ thread' = thread
    BY <1>1 DEF allVars, own, vars, server, client
  <2>2. EchoInv => EchoInv'
    <3>1. Queued => Queued'
      BY <2>1 DEF Queued
    <3> QED
      BY <2>1, <3>1, NothingDone DEF EchoInv
  <2>3. WildInv => WildInv'
    BY <2>1 DEF WildInv
  <2> QED
    BY <2>1, <2>2, <2>3, NothingDone DEF IInvServers
<1>2. CASE ServersNext
  <2>1. kind' = kind /\ (kind # "pool" => tasks' = <<>>)
    BY <1>2, SameServer DEF IInvServers
  <2>2. kind = "calc" => CalcInv'
    BY <1>2, CalcOnly DEF IInvServers
  <2>3. kind \in EchoKinds => EchoInv'
    BY <1>2, EchoOnly DEF IInvServers
  <2>4. kind \in HttpKinds => WebInv'
    BY <1>2, WebOnly DEF IInvServers, HttpKinds
  <2>5. kind = "http_wild" => WildInv'
    BY <1>2, WildSteps DEF IInvServers
  <2> QED
    BY <2>1, <2>2, <2>3, <2>4, <2>5 DEF IInvServers
<1> QED
  BY <1>1, <1>2

\* What a client of the echo servers has read is how its lines begin.
LEMMA EchoIsRight == ASSUME EchoInv PROVE EchoRight
<1> SUFFICES ASSUME NEW c \in Clients
             PROVE  /\ Len(buffer[c]) <= 2 * req[c] /\ buffer[c] = SubSeq(Stream(c), 1, Len(buffer[c]))
                    /\ cpc[c] = "type" /\ c \notin cut => Len(buffer[c]) = 2 * req[c]
  BY DEF EchoRight
<1>1. buffer[c] \in Seq(Cell(Nat)) /\ toClient[c] \in Seq(Cell(Nat)) /\ req[c] \in Nat /\ EchoOf(c)
  BY DEF EchoInv, EchoTypes
<1>2. PICK n \in Nat, r \in Nat : n = Len(buffer[c]) /\ r = 2 * req[c]
  BY <1>1
<1>3. n <= r
  <2>1. Size(buffer[c]) + Size(toClient[c]) <= 2 * req[c]
    BY <1>1 DEF EchoOf, Shown, Returning, Sent
  <2>2. Size(toClient[c]) \in Nat /\ Size(buffer[c]) = n
    BY <1>1, <1>2, Sizes DEF Size
  <2> QED
    BY <1>2, <2>1, <2>2
<1>4. buffer[c] = SubSeq(Stream(c), 1, n)
  <2>1. Stream(c) = [i \in 1 .. r |-> At(i)]
    BY <1>2 DEF Stream, At
  <2>2. SubSeq(Stream(c), 1, n) = [i \in 1 .. n |-> At(i)]
    <3>1. \A i \in 1 .. n : Stream(c)[i] = At(i)
      BY <1>3, <2>1
    <3>2. \A i \in 1 .. n : Stream(c)[i] \in {At(k) : k \in 1 .. n}
      BY <3>1
    <3>3. /\ SubSeq(Stream(c), 1, n) \in Seq({At(k) : k \in 1 .. n}) /\ Len(SubSeq(Stream(c), 1, n)) = n
          /\ \A i \in 1 .. n : SubSeq(Stream(c), 1, n)[i] = Stream(c)[i]
      BY <3>2, SubSeqProperties
    <3> QED
      BY <3>1, <3>3
  <2>3. \A i \in 1 .. n : buffer[c][i] = At(0 + i)
    BY <1>1, <1>2 DEF EchoOf, Piece
  <2>4. \A i \in 1 .. n : buffer[c][i] = At(i)
    BY <2>3
  <2>5. buffer[c] = [i \in 1 .. n |-> buffer[c][i]]
    BY <1>1, <1>2
  <2> QED
    BY <2>2, <2>4, <2>5
<1>5. cpc[c] = "type" /\ c \notin cut => n = r
  BY <1>1, <1>2 DEF EchoOf, EchoWhole, Shown, Sent, Size
<1> QED
  BY <1>2, <1>3, <1>4, <1>5

LEMMA IInvServersTruthful == IInvServers => Truthful
<1> SUFFICES ASSUME IInvServers PROVE Truthful
  OBVIOUS
<1>1. kind = "calc" => CalcRight
  BY DEF IInvServers, CalcInv, OneRequest, CalcClient, CalcRight
<1>2. kind \in EchoKinds => EchoRight
  BY EchoIsRight DEF IInvServers
<1>3. kind \in HttpKinds \cup {"http_wild"} => HttpRight
  BY DEF IInvServers, WebInv, WebOf, WildInv, HttpRight
<1>4. kind = "calc" => kind \notin EchoKinds
  BY DEF EchoKinds
<1>5. kind \in {"calc"} \cup EchoKinds \cup HttpKinds \cup {"http_wild"}
  BY DEF IInvServers
<1> QED
  BY <1>1, <1>2, <1>3, <1>4, <1>5 DEF Truthful

-----------------------------------------------------------------------------
(* What ends a server.  A process that was killed leaves its threads where  *)
(* they were, with the requests they had.                                   *)

Spinning == kind \in HttpKinds => \A c \in Clients : thread[c] = "spin" => Unended(c)

Ends ==
    /\ alive \in {"down", "up", "exit", "SIGPIPE", "SIGFPE", "bad_alloc", "SIGSEGV"}
    /\ alive = "SIGFPE" => kind = "calc" /\ \E c \in Clients : thread[c] = "serve" /\ Traps(package[c])
    /\ alive = "bad_alloc" => kind \in HttpKinds /\ \E c \in Clients : thread[c] = "spin"
    /\ alive = "SIGSEGV" => kind = "http_wild"

LEMMA EndsKept ==
    ASSUME Ends, UNCHANGED <<alive, kind, thread, package>>
    PROVE  Ends'
BY DEF Ends

\* Nor does any step of a process that lives kill it but these four.
LEMMA EndsStep == ASSUME Ends, ServersNext, kind' = kind PROVE Ends'
<1>a. ASSUME alive' \in {"up", "exit", "SIGPIPE"} PROVE Ends'
  BY <1>a DEF Ends
<1>b. ASSUME alive = "up", alive' = alive PROVE Ends'
  BY <1>b DEF Ends
<1> USE EndsKept
<1>1. CASE InitEcho \/ InitPoolServer \/ InitHttp \/ InitWild
  BY <1>1, <1>a DEF InitEcho, InitPoolServer, InitHttp, InitWild, InitServer
<1>2. CASE AcceptEcho \/ AcceptHttp \/ AcceptWild \/ AcceptTask \/ AcceptTaskError
  BY <1>2, <1>b DEF AcceptEcho, AcceptHttp, AcceptWild, AcceptTask, AcceptTaskError, Accept, AcceptError
<1>3. CASE \E w \in Workers : ThreadFunc(w)
  BY <1>3, <1>b DEF ThreadFunc
<1>4. ASSUME NEW c \in Clients, Service(c) PROVE Ends'
  <2>1. CASE EchoRead(c) \/ EchoEnd(c)
    BY <1>b, <2>1 DEF EchoRead, EchoEnd
  <2>2. CASE EchoWrite(c)
    BY <1>a, <2>2 DEF EchoWrite, SendCells
  <2> QED
    BY <1>4, <2>1, <2>2 DEF Service
<1>5. ASSUME NEW c \in Clients, Connect(c) \/ TypeJunk(c) \/ Ask(c) \/ ReadReply(c) \/ ServerQuit(c) \/ Quit(c)
      PROVE  Ends'
  BY <1>5 DEF Connect, TypeJunk, Ask, ReadReply, ServerQuit, Quit, server
<1>6. ASSUME NEW c \in Clients, EchoClient(c) PROVE Ends'
  BY <1>5, <1>6 DEF EchoClient, EchoConnect, EchoAsk, EchoReply, EchoQuit, server
<1>7. ASSUME NEW c \in Clients, Browser(c) PROVE Ends'
  BY <1>5, <1>7 DEF Browser, BrowserConnect, BrowserAsk, BrowserRead, BrowserEof, BrowserQuit, server
<1>8. ASSUME NEW c \in Clients, HttpThread(c) PROVE Ends'
  <2>1. CASE HttpRecv(c) \/ Desarialize(c) \/ HttpClientQuit(c) \/ HttpClose(c) \/ HttpKeep(c)
    BY <1>b, <2>1 DEF HttpRecv, Desarialize, HttpClientQuit, HttpClose, HttpKeep
  <2>2. CASE HttpServe(c)
    BY <1>a, <2>2 DEF HttpServe, Send, SendCells
  <2>3. CASE BadAlloc(c)
    BY <2>3 DEF BadAlloc, Killed, Ends
  <2>4. CASE WildThread(c)
    <3>1. CASE Killed("SIGSEGV")
      BY <2>4, <3>1 DEF WildThread, Killed, Ends
    <3>2. CASE alive' = alive
      BY <1>b, <2>4, <3>2 DEF WildThread
    <3> QED
      BY <2>4, <3>1, <3>2 DEF WildThread
  <2> QED
    BY <1>8, <2>1, <2>2, <2>3, <2>4 DEF HttpThread
<1>9. CASE CalcStep
  <2>1. CASE InitServer
    BY <1>a, <2>1 DEF InitServer
  <2>2. CASE Accept \/ AcceptError
    BY <1>b, <2>2 DEF Accept, AcceptError
  <2>3. ASSUME NEW c \in Clients, ReadPackage(c) \/ ThreadEnd(c) PROVE Ends'
    BY <1>b, <2>3 DEF ReadPackage, ThreadEnd
  <2>4. ASSUME NEW c \in Clients, Serve(c) PROVE Ends'
    BY <1>a, <2>4 DEF Serve, Send, SendCells
  <2>5. ASSUME NEW c \in Clients, ServeTrap(c) PROVE Ends'
    BY <1>9, <2>5 DEF CalcStep, ServeTrap, Killed, Ends
  <2> QED
    BY <1>5, <1>9, <2>1, <2>2, <2>3, <2>4, <2>5 DEF CalcStep, Next, Thread, Client
<1> QED
  BY <1>1, <1>2, <1>3, <1>4, <1>6, <1>7, <1>8, <1>9 DEF ServersNext

\* A thread of the web servers that spins goes on with the request it has.
LEMMA SpinningStep ==
    ASSUME IInvServers, Spinning, ServersNext, kind' = kind
    PROVE  Spinning'
<1> SUFFICES ASSUME kind \in HttpKinds, NEW d \in Clients, thread'[d] = "spin"
             PROVE  Unended(d)'
  BY DEF Spinning
<1>i. /\ thread \in [Clients -> Places] /\ inbuffer \in [Clients -> Seq(Cell(WebRequests))]
      /\ Waiting /\ tasks = <<>> /\ kind \notin EchoKinds
      /\ thread[d] = "spin" => Unended(d)
  BY DEF IInvServers, WebInv, WebTypes, Waiting, Spinning, HttpKinds, EchoKinds
<1>a. ASSUME thread[d] = "spin", inbuffer'[d] = inbuffer[d], cut \subseteq cut' PROVE Unended(d)'
  BY <1>a, <1>i DEF Unended
<1>1. CASE InitHttp
  BY <1>1, <1>a DEF InitHttp, InitServer, own
<1>2. CASE AcceptHttp
  <2>1. PICK b \in Clients, p \in {"none", "recv"} :
           /\ thread'[b] = p /\ \A x \in Clients \ {b} : thread'[x] = thread[x]
           /\ UNCHANGED inbuffer
    BY <1>i, <1>2, Accepting DEF AcceptHttp
  <2> QED
    BY <1>2, <1>a, <2>1 DEF AcceptHttp, own
<1>3. CASE \E w \in Workers : ThreadFunc(w)
  BY <1>3, <1>i, <1>a, NoTask DEF ThreadFunc, vars, server
<1>4. ASSUME NEW c \in Clients, HttpThread(c) PROVE Unended(d)'
  <2>1. CASE HttpRecv(c)
    BY <1>i, <1>a, <2>1 DEF HttpRecv
  <2>2. CASE Desarialize(c)
    BY <1>i, <1>a, <2>2 DEF Desarialize, Unended, own
  <2>3. CASE BadAlloc(c)
    BY <1>a, <2>3 DEF BadAlloc, Killed, own
  <2>4. CASE HttpServe(c)
    BY <1>i, <1>a, <2>4 DEF HttpServe, own
  <2>5. CASE HttpClientQuit(c) \/ HttpClose(c) \/ HttpKeep(c)
    BY <1>i, <1>a, <2>5 DEF HttpClientQuit, HttpClose, HttpKeep, own
  <2>6. ~ WildThread(c)
    BY DEF WildThread, HttpKinds
  <2> QED
    BY <1>4, <2>1, <2>2, <2>3, <2>4, <2>5, <2>6 DEF HttpThread
<1>5. ASSUME NEW c \in Clients, Browser(c) PROVE Unended(d)'
  <2>1. UNCHANGED <<thread, inbuffer, cut>>
    BY <1>5 DEF Browser, BrowserConnect, BrowserAsk, BrowserRead, BrowserEof, BrowserQuit, Connect,
                ServerQuit, Quit, server, own
  <2> QED
    BY <1>a, <2>1
<1>6. ~ (InitEcho \/ InitPoolServer \/ InitWild \/ CalcStep \/ AcceptEcho \/ AcceptWild)
  BY DEF InitEcho, InitPoolServer, InitWild, CalcStep, AcceptEcho, AcceptWild, HttpKinds
<1>7. ~ (AcceptTask \/ AcceptTaskError)
  BY DEF AcceptTask, AcceptTaskError, HttpKinds
<1>8. ASSUME NEW c \in Clients PROVE ~ Service(c) /\ ~ EchoClient(c)
  BY <1>i DEF Service, EchoRead, EchoWrite, EchoEnd, EchoClient, EchoConnect, EchoAsk, EchoReply, EchoQuit
<1> QED
  BY <1>1, <1>2, <1>3, <1>4, <1>5, <1>6, <1>7, <1>8 DEF ServersNext

LEMMA EndsInvariance ==
    IInvServers /\ Ends /\ Spinning /\ [ServersNext]_allVars => Ends' /\ Spinning'
<1> SUFFICES ASSUME IInvServers, Ends, Spinning, [ServersNext]_allVars PROVE Ends' /\ Spinning'
  OBVIOUS
<1>1. CASE UNCHANGED allVars
  BY <1>1 DEF allVars, own, vars, server, Ends, Spinning, Unended
<1>2. CASE ServersNext
  <2>1. kind' = kind
    BY <1>2, SameServer DEF IInvServers
  <2> QED
    BY <1>2, <2>1, EndsStep, SpinningStep
<1> QED
  BY <1>1, <1>2

LEMMA EndsSurvives == IInvServers /\ Ends /\ Spinning => Survives
<1> SUFFICES ASSUME IInvServers, Ends, Spinning PROVE Survives
  OBVIOUS
<1>1. alive = "SIGPIPE" => kind \in EchoKinds /\ \E c \in cut : cpc[c] = "closed"
  BY DEF IInvServers, CalcInv, EchoInv, WebInv, WildInv
<1>2. ASSUME alive = "SIGFPE" PROVE kind = "calc" /\ \E c \in Clients : thread[c] = "serve" /\ Overflows(package[c])
  <2>1. kind = "calc" /\ CalcTypes
    BY <1>2 DEF Ends, IInvServers, CalcInv
  <2>2. PICK c \in Clients : thread[c] = "serve" /\ Traps(package[c])
    BY <1>2 DEF Ends
  <2>3. package[c].x \in Int32 /\ package[c].y \in Int32
    BY <2>1 DEF CalcTypes, CalcRequests
  <2>4. Overflows(package[c])
    BY <2>2, <2>3, TrapsOnce
  <2> QED
    BY <2>1, <2>2, <2>4
<1>3. alive = "bad_alloc" => kind \in HttpKinds /\ \E c \in Clients : thread[c] = "spin" /\ Unended(c)
  BY DEF Ends, Spinning
<1>4. alive \in {"down", "up", "exit", "SIGPIPE", "SIGFPE", "bad_alloc"} \/ (alive = "SIGSEGV" /\ kind = "http_wild")
  BY DEF Ends
<1> QED
  BY <1>1, <1>2, <1>3, <1>4 DEF Survives

(***************************************************************************)
(* Whichever of the servers runs, with any clients, formulas, pages and    *)
(* numbers of threads and descriptors, and however TCP cuts and joins what *)
(* crosses the connections: what a client shows is the answer to what it   *)
(* asked last, as far as an int holds it, or a blank page where the server *)
(* could not open or read the file; what it has read of an echo is how its *)
(* own lines begin, and all of them if none was read in pieces.            *)
(***************************************************************************)
THEOREM AnswersTruthfully == ServersSpec => []Truthful
<1>1. ServersSpec => []IInvServers
  BY ServersStart, ServersInvariance, PTL DEF ServersSpec
<1> QED
  BY <1>1, IInvServersTruthful, PTL

(***************************************************************************)
(* No client that closes or is killed takes a server with it through       *)
(* SIGPIPE, but for one of an echo server whose line came in pieces; of    *)
(* all requests, for every width of int, INT_MIN / -1 and INT_MIN % -1     *)
(* alone end the calculator; and a web server runs out of memory only over *)
(* a request that has a body or came in pieces.                            *)
(***************************************************************************)
THEOREM SurvivesClients == ServersSpec => []Survives
<1>1. ServersInit => Ends /\ Spinning
  BY DEF ServersInit, InitWith, Ends, Spinning
<1>2. ServersSpec => [](IInvServers /\ Ends /\ Spinning)
  BY <1>1, ServersStart, ServersInvariance, EndsInvariance, PTL DEF ServersSpec
<1> QED
  BY <1>2, EndsSurvives, PTL

-----------------------------------------------------------------------------
(* The udp chat server *)

Upto == {"run_recv", "run_broad", "destroy"}
Receiving == {"lock", "insert", "unlock", "push", "pushing"}
Sending == {"lock", "copy", "unlock", "send"}

ChatTypes ==
    /\ rpc \in Receiving \cup {"none", "recvfrom"} /\ bpc \in Sending \cup {"none", "pop", "popped"}
    /\ queue \in Seq(Nat) /\ in \in [{Recv} -> Nat] /\ out \in [{Broad} -> Nat] /\ msg \in Nat
    /\ user_map \subseteq Users /\ v \subseteq Users /\ from \in Seq(Users)
    /\ owed \in Seq(SUBSET Users) /\ told \in Seq(SUBSET Users) /\ Len(owed) = Len(told)

\* Who is between lock and unlock; both are only if that was noticed.
Held ==
    /\ holders \subseteq {Recv, Broad}
    /\ Recv \in holders <=> rpc \in {"insert", "unlock"}
    /\ Broad \in holders <=> bpc \in {"copy", "unlock"}
    /\ Recv \in holders /\ Broad \in holders => torn

\* Until main destroys it the mutex excludes; the threads run once main starts them.
Intact == /\ mpc = "run_recv" => rpc = "none"
          /\ mpc \in {"run_recv", "run_broad"} => bpc = "none"
          /\ mpc \in Upto => ~ destroyed
          /\ torn => destroyed

\* A message is on its way to the queue, in it, or being broadcast.
Underway ==
    /\ Len(from) = IF rpc \in Receiving THEN Len(told) + 1 ELSE Len(told)
    /\ rpc = "pushing" => in[Recv] = Len(from)
    /\ \A i \in 1 .. Len(queue) : queue[i] \in 1 .. Len(told)
    /\ IF bpc = "popped" THEN out[Broad] \in 1 .. Len(told) ELSE out[Broad] = NoMessage
    /\ IF bpc \in Sending THEN msg \in 1 .. Len(told) ELSE msg = NoMessage

\* Who is owed a message, its sender included, is registered.
Owing(m) == owed[m] \cup {from[m]}

Registered ==
    /\ rpc \in {"unlock", "push", "pushing"} => from[Len(from)] \in user_map
    /\ \A m \in 1 .. Len(told) : Owing(m) \subseteq user_map

\* Once the map is copied, who has not been sent the message is still in v.
Reached ==
    ~ torn => /\ bpc \in {"unlock", "send"} => Owing(msg) \subseteq told[msg] \cup v
              /\ \A m \in 1 .. Len(told) : Finished(m) => Owing(m) \subseteq told[m]

IInvChat == ChatTypes /\ Held /\ Intact /\ Underway /\ Registered /\ Reached

LEMMA ChatStart == ChatInit => IInvChat
BY DEF ChatInit, Queue!Init, IInvChat, ChatTypes, Held, Intact, Underway, Registered, Reached, Owing, Finished,
       Recv, Broad, NoMessage, Upto, Receiving, Sending

-----------------------------------------------------------------------------
(* What a step of each thread leaves of the invariant *)

\* Main moves on its own, but for the mutex.
LEMMA MainKeeps == ASSUME IInvChat, Main PROVE IInvChat'
<1>1. UNCHANGED <<queue, in, out, user_map, holders, torn, from, owed, msg, v, told>>
  BY DEF Main, RunRecv, RunBroad, DestroyLock, JoinRecv, rq
<1>2. /\ rpc' = rpc \/ (rpc = "none" /\ rpc' \in {"recvfrom", "none"})
      /\ bpc' = bpc \/ (bpc = "none" /\ bpc' \in {"pop", "none"})
  BY DEF Main, RunRecv, RunBroad, DestroyLock, JoinRecv, IInvChat, Intact
<1>3. ChatTypes' /\ Held' /\ Underway'
  BY <1>1, <1>2 DEF IInvChat, ChatTypes, Held, Underway, Receiving, Sending
<1>4. Intact'
  BY DEF Main, RunRecv, RunBroad, DestroyLock, JoinRecv, IInvChat, Held, Intact, Upto
<1>5. Registered' /\ Reached'
  BY <1>1, <1>2 DEF IInvChat, Registered, Reached, Owing, Finished
<1> QED
  BY <1>3, <1>4, <1>5 DEF IInvChat

LEMMA ReciveKeeps == ASSUME IInvChat, (\E u \in Users : RecvFrom(u)) \/ ReciveStep PROVE IInvChat'
<1> USE DEF IInvChat, Recv, Broad
<1>1. ASSUME NEW u \in Users, RecvFrom(u) PROVE IInvChat'
  <2>1. from' = Append(from, u) /\ from' \in Seq(Users) /\ Len(from') = Len(from) + 1
    BY <1>1 DEF RecvFrom, ChatTypes
  <2>2. \A m \in 1 .. Len(told) : from'[m] = from[m]
    BY <1>1, <2>1 DEF RecvFrom, ChatTypes, Underway, Receiving
  <2>3. ChatTypes' /\ Held' /\ Intact' /\ Underway'
    BY <1>1, <2>1 DEF RecvFrom, rq, ChatTypes, Held, Intact, Underway, Receiving, Upto, Alive
  <2>4. Registered' /\ Reached'
    BY <1>1, <2>2 DEF RecvFrom, rq, ChatTypes, Underway, Registered, Reached, Owing, Finished, Receiving, Sending
  <2> QED
    BY <2>3, <2>4
<1>2. CASE AddUserLock
  BY <1>2 DEF AddUserLock, Lock, rq, ChatTypes, Held, Intact, Underway, Registered, Reached, Owing, Finished,
     Receiving, Upto, Alive
<1>3. CASE AddUser
  <2>1. from[Len(from)] \in Users
    BY <1>3 DEF AddUser, ChatTypes, Underway, Receiving
  <2> QED
    BY <1>3, <2>1 DEF AddUser, rq, ChatTypes, Held, Intact, Underway, Registered, Reached, Owing, Finished, Receiving
<1>4. CASE AddUserUnlock
  BY <1>4 DEF AddUserUnlock, Unlock, rq, ChatTypes, Held, Intact, Underway, Registered, Reached, Owing, Finished,
     Receiving, Upto
<1>5. CASE PushCall
  <2>1. /\ in' \in [{Recv} -> Nat] /\ in'[Recv] = Len(from)
        /\ UNCHANGED <<queue, out, from, told, msg, bpc>> /\ rpc = "push" /\ rpc' = "pushing"
    BY <1>5 DEF PushCall, Queue!Call, ChatTypes
  <2>2. ChatTypes' /\ Underway'
    BY <1>5, <2>1 DEF PushCall, ChatTypes, Underway, Receiving
  <2>3. Held' /\ Intact' /\ Registered' /\ Reached'
    BY <1>5, <2>1 DEF PushCall, Held, Intact, Registered, Reached, Owing, Finished
  <2> QED
    BY <2>2, <2>3
<1>6. CASE PushInsert
  <2> DEFINE n == Len(told) + 1
  <2>1. /\ queue' = Append(queue, n) /\ in' \in [{Recv} -> Nat] /\ out' = out /\ Len(from) = n
        /\ owed' = Append(owed, user_map) /\ told' = Append(told, {})
    BY <1>6 DEF PushInsert, Queue!Insert, ChatTypes, Underway, Receiving, NoMessage
  <2>2. /\ owed' \in Seq(SUBSET Users) /\ told' \in Seq(SUBSET Users)
        /\ Len(owed') = n /\ Len(told') = n /\ owed'[n] = user_map
        /\ \A m \in 1 .. Len(told) : owed'[m] = owed[m] /\ told'[m] = told[m]
    BY <2>1 DEF ChatTypes
  <2>3. /\ queue' \in Seq(Nat) /\ Len(queue') = Len(queue) + 1 /\ queue'[Len(queue) + 1] = n
        /\ \A i \in 1 .. Len(queue) : queue'[i] = queue[i]
    BY <2>1 DEF ChatTypes
  <2>4. ChatTypes' /\ Held' /\ Intact'
    BY <1>6, <2>1, <2>2, <2>3 DEF PushInsert, ChatTypes, Held, Intact, Receiving
  <2>5. Underway'
    BY <1>6, <2>1, <2>2, <2>3 DEF PushInsert, ChatTypes, Underway, Receiving
  <2>6. Registered'
    <3>1. rpc = "pushing" /\ UNCHANGED <<from, user_map>> /\ rpc' = "recvfrom"
      BY <1>6 DEF PushInsert
    <3>2. from[n] \in user_map
      BY <2>1, <3>1 DEF Registered
    <3>3. \A m \in 1 .. n : Owing(m)' \subseteq user_map
      BY <2>2, <3>1, <3>2 DEF Registered, Owing
    <3> QED
      BY <2>2, <3>1, <3>3 DEF Registered
  <2>7. \A m \in 1 .. n : Finished(m)' => m \in 1 .. Len(told) /\ Finished(m)
    BY <1>6, <2>1, <2>2, <2>3 DEF PushInsert, Finished, ChatTypes
  <2>8. Reached'
    BY <1>6, <2>1, <2>2, <2>7 DEF PushInsert, ChatTypes, Underway, Reached, Owing, Sending
  <2> QED
    BY <2>4, <2>5, <2>6, <2>8
<1> QED
  BY <1>1, <1>2, <1>3, <1>4, <1>5, <1>6 DEF ReciveStep

LEMMA BroadcastKeeps == ASSUME IInvChat, BroadcastStep PROVE IInvChat'
<1> USE DEF IInvChat, Recv, Broad
<1>1. CASE PopRemove
  <2>1. /\ queue # <<>> /\ queue' = Tail(queue) /\ out' = [out EXCEPT ![Broad] = Head(queue)]
    BY <1>1 DEF PopRemove, Queue!Remove
  <2>2. /\ queue' \in Seq(Nat) /\ Len(queue') = Len(queue) - 1 /\ Len(queue) > 0 /\ Head(queue) = queue[1]
        /\ \A i \in 1 .. Len(queue') : queue'[i] = queue[i + 1]
    <3>1. queue \in Seq(Nat) /\ queue # <<>> /\ queue' = Tail(queue)
      BY <2>1 DEF ChatTypes
    <3> QED
      BY ONLY <3>1
  <2>3. ChatTypes' /\ Held' /\ Intact' /\ Registered'
    BY <1>1, <2>1, <2>2 DEF PopRemove, Queue!Remove, ChatTypes, Held, Intact, Underway, Registered, Owing, Sending
  <2>4. Underway'
    BY <1>1, <2>1, <2>2 DEF PopRemove, Queue!Remove, ChatTypes, Underway, Sending
  <2>5. \A m \in 1 .. Len(told) : Finished(m)' => Finished(m)
    <3>1. out[Broad] = 0 /\ out'[Broad] = queue[1] /\ told' = told /\ msg' = msg
      BY <1>1, <2>1, <2>2 DEF PopRemove, ChatTypes, Underway, NoMessage
    <3>2. \A i \in 2 .. Len(queue) : queue[i] = queue'[i - 1]
      BY <2>2
    <3>3. ASSUME NEW m \in 1 .. Len(told), Finished(m)' PROVE Finished(m)
      <4>1. m \in 1 .. Len(told) /\ m # msg /\ m # queue[1]
            /\ \A i \in 1 .. Len(queue') : queue'[i] # m
        BY <3>1, <3>3 DEF Finished
      <4>2. ASSUME NEW i \in 1 .. Len(queue) PROVE queue[i] # m
        <5>1. CASE i = 1
          BY <4>1, <5>1
        <5>2. CASE i # 1
          <6>1. i - 1 \in 1 .. Len(queue') /\ queue[i] = queue'[i - 1]
            BY <2>2, <3>2, <5>2 DEF ChatTypes
          <6> QED
            BY <4>1, <6>1
        <5> QED
          BY <5>1, <5>2
      <4> QED
        BY <3>1, <4>1, <4>2 DEF Finished
    <3> QED
      BY <3>3
  <2>6. Reached'
    BY <1>1, <2>5 DEF PopRemove, Reached, Owing
  <2> QED
    BY <2>3, <2>4, <2>6
<1>2. CASE PopReturn
  BY <1>2 DEF PopReturn, Queue!Return, rq, ChatTypes, Held, Intact, Underway, Registered, Reached, Owing, Finished,
     Sending, NoMessage
<1>3. CASE CopyLock
  BY <1>3 DEF CopyLock, Lock, rq, ChatTypes, Held, Intact, Underway, Registered, Reached, Owing, Finished,
     Sending, Upto, Alive
<1>4. CASE CopyUsers
  BY <1>4 DEF CopyUsers, rq, ChatTypes, Held, Intact, Underway, Registered, Reached, Owing, Finished, Sending
<1>5. CASE CopyUnlock
  BY <1>5 DEF CopyUnlock, Unlock, rq, ChatTypes, Held, Intact, Underway, Registered, Reached, Owing, Finished, Sending
<1>6. ASSUME NEW u \in Users, SendTo(u) PROVE IInvChat'
  <2>1. msg \in 1 .. Len(told) /\ told' = [told EXCEPT ![msg] = @ \cup {u}] /\ v' = v \ {u}
    BY <1>6 DEF SendTo, Underway, Sending
  <2>2. /\ told' \in Seq(SUBSET Users) /\ Len(told') = Len(told) /\ told'[msg] = told[msg] \cup {u}
        /\ \A m \in 1 .. Len(told) : told[m] \subseteq told'[m]
    BY <2>1 DEF ChatTypes
  <2>3. ChatTypes' /\ Held' /\ Intact' /\ Underway' /\ Registered'
    BY <1>6, <2>1, <2>2 DEF SendTo, rq, ChatTypes, Held, Intact, Underway, Registered, Owing
  <2>4. Reached'
    BY <1>6, <2>1, <2>2 DEF SendTo, rq, Reached, Owing, Finished
  <2> QED
    BY <2>3, <2>4
<1>7. CASE SentToAll
  BY <1>7 DEF SentToAll, rq, ChatTypes, Held, Intact, Underway, Registered, Reached, Owing, Finished, Sending
<1> QED
  BY <1>1, <1>2, <1>3, <1>4, <1>5, <1>6, <1>7 DEF BroadcastStep

LEMMA ChatInvariance == IInvChat /\ [ChatNext]_chat_vars => IInvChat'
<1>1. ASSUME IInvChat, UNCHANGED chat_vars PROVE IInvChat'
  BY <1>1 DEF chat_vars, rq, IInvChat, ChatTypes, Held, Intact, Underway, Registered, Reached, Owing, Finished
<1> QED
  BY <1>1, MainKeeps, ReciveKeeps, BroadcastKeeps DEF ChatNext

LEMMA ChatInvariant == ChatSpec => []IInvChat
BY ChatStart, ChatInvariance, PTL DEF ChatSpec

-----------------------------------------------------------------------------
(***************************************************************************)
(* 7.17/v2_udp_socket_/info: the messages of one host are seen by all.     *)
(* Unless the map was torn, a message whose broadcast is over has been     *)
(* sent to its sender and to all that were registered when it was pushed;  *)
(* for any number of users, of slots and of datagrams.                     *)
(***************************************************************************)
THEOREM EverybodyTold == ChatSpec => []AllTold
<1>1. IInvChat => AllTold
  BY DEF IInvChat, Reached, Owing, AllTold, Finished
<1> QED
  BY <1>1, ChatInvariant, PTL

(***************************************************************************)
(* udp_server.hpp:135: add_user locks so that the map is thread-safe.  It  *)
(* is, until main leaves server_start and the destructor of the server     *)
(* destroys the mutex while both threads still use it.                     *)
(***************************************************************************)
ExclusiveUntilDestroyed == destroyed \/ (MapExclusive /\ ~ torn)

THEOREM MapSafeUntilDestroyed == ChatSpec => []ExclusiveUntilDestroyed
<1>1. IInvChat => ExclusiveUntilDestroyed
  BY DEF IInvChat, Held, Intact, ExclusiveUntilDestroyed, MapExclusive
<1> QED
  BY <1>1, ChatInvariant, PTL

\* What the guards of the two threads ask for; of a thread that is not inside a
\* call, that there is something to do.
CanRecive ==
    \/ rpc = "lock" /\ (destroyed \/ holders = {})
    \/ rpc \in {"insert", "unlock", "push"}
    \/ rpc = "pushing" /\ Len(queue) < Capacity

CanBroadcast ==
    \/ bpc = "pop" /\ queue # <<>>
    \/ bpc = "lock" /\ (destroyed \/ holders = {})
    \/ bpc \in {"popped", "copy", "unlock", "send"}

\* A message is under way and there is a thread to broadcast it.
Pending == /\ Alive /\ bpc # "none"
           /\ queue # <<>> \/ rpc \notin {"none", "recvfrom"} \/ bpc # "pop"

NeitherWaits == Pending => CanRecive \/ CanBroadcast

(***************************************************************************)
(* The two threads of the chat server never wait for each other, though    *)
(* one may be blocked by the full ring and the other by _lock, whether or  *)
(* not it has been destroyed: while a message is under way and the thread  *)
(* that broadcasts was created, one of the two can go on.                  *)
(***************************************************************************)
THEOREM ChatNeverStuck == ChatSpec => []NeitherWaits
<1>1. ASSUME IInvChat PROVE NeitherWaits
  <2> SUFFICES ASSUME bpc # "none", queue # <<>> \/ rpc \notin {"none", "recvfrom"} \/ bpc # "pop",
                      ~ CanRecive, ~ CanBroadcast
               PROVE  FALSE
    BY DEF NeitherWaits, Pending
  <2>1. bpc = "lock" \/ (bpc = "pop" /\ queue = <<>>)
    BY <1>1 DEF IInvChat, ChatTypes, CanBroadcast, Sending
  <2>2. rpc \in {"none", "recvfrom", "lock"} \/ (rpc = "pushing" /\ Len(queue) >= Capacity)
    BY <1>1, UdpChatAssumption DEF IInvChat, ChatTypes, CanRecive, Receiving
  <2>3. holders = {}
    BY <1>1, <2>1, <2>2 DEF IInvChat, Held
  <2>4. bpc = "pop" /\ queue = <<>> /\ rpc = "pushing" /\ Len(queue) >= Capacity
    BY <2>1, <2>2, <2>3 DEF CanRecive, CanBroadcast
  <2> QED
    BY <2>4, UdpChatAssumption
<1> QED
  BY <1>1, ChatInvariant, PTL
=============================================================================
