--------------------------- MODULE ConnectionProofs ---------------------------
(***************************************************************************)
(* Theorems about Connection, for any number of lines, however they are    *)
(* cut and batched on the way and whenever the client leaves, and, in the  *)
(* second half, about ClientSession.  The argument is about the stream:    *)
(* the streambuf followed by what is on the wire is the text of the lines  *)
(* after the one that was taken last, each with its end, and nothing else. *)
(***************************************************************************)
EXTENDS ClientSession, SequenceTheorems, TLAPS

(* After line n, token i of the stream is the text of a line if i is odd   *)
(* and the end of that line if i is even.                                  *)
IsToken(n, i, token) ==
  \E k \in Lines : \/ i = 2 * k - 1 /\ token = n + k
                   \/ i = 2 * k /\ token = EndOfLine

(* What the server has not taken yet is what the client has sent after the *)
(* line being answered.                                                    *)
StreamInv ==
  /\ \A i \in DOMAIN buffer : IsToken(line, i, buffer[i])
  /\ \A i \in DOMAIN wire : IsToken(line, Len(buffer) + i, wire[i])
  /\ partial => Len(buffer) + Len(wire) = 2 * (Len(sent) - line) - 1
  /\ ~partial => Len(buffer) + Len(wire) = 2 * (Len(sent) - line)

(* Only lines that were taken are executed, the last one once it has been  *)
(* parsed.                                                                 *)
ExecutedInv ==
  /\ \A i, j \in DOMAIN executed : i < j => executed[i] < executed[j]
  /\ \A i \in DOMAIN executed : executed[i] <= line
  /\ pc \in {"parse", "dispatch"} => \A i \in DOMAIN executed : executed[i] < line

(* The id the response to line n carries. *)
IdOf(n) == IF sent[n] = "request" THEN n ELSE Omitted

Answering == {"parse", "dispatch", "serialize", "write"}

(* The response at hand is the one to the line taken last; as long as the  *)
(* client is there it has got all the responses before that one.           *)
ResponseInv ==
  /\ pc \in {"serialize", "write"} => res \in Responses /\ res.line = line /\ res.id = IdOf(line)
  /\ pc = "dispatch" => sent[line] \in Parsable
  /\ Len(replies) <= line
  /\ client # "gone" /\ pc = "read" => Len(replies) = line
  /\ client # "gone" /\ pc \in Answering => Len(replies) = line - 1
  /\ \A i \in DOMAIN replies : replies[i].line = i /\ replies[i].id = IdOf(i)

(* A connection that was not closed by an exception was closed at the end  *)
(* of the stream.                                                          *)
ClosedInv ==
  pc = "closed" /\ client # "gone" /\ Serializable(res) =>
    /\ client = "halfClosed"
    /\ Len(replies) = line
    /\ wire = <<>>
    /\ ~HasLine

IInv == TypeOK /\ StreamInv /\ ExecutedInv /\ ResponseInv /\ ClosedInv
-------------------------------------------------------------------------------
(* The first token of the stream is the text of the next line, the second  *)
(* its end; without these two, the rest is the stream after that line.     *)
LEMMA TokenFacts ==
  ASSUME NEW n \in Nat
  PROVE  /\ \A token : IsToken(n, 1, token) => token = n + 1 /\ token # EndOfLine
         /\ \A i \in Nat : \A token : i > 0 /\ IsToken(n, i + 2, token) => IsToken(n + 1, i, token)
<1>1. ASSUME NEW token, IsToken(n, 1, token)
      PROVE  token = n + 1 /\ token # EndOfLine
  BY <1>1, ConnectionAssumption DEF IsToken, Lines, EndOfLine
<1>2. ASSUME NEW i \in Nat, NEW token, i > 0, IsToken(n, i + 2, token)
      PROVE  IsToken(n + 1, i, token)
  <2>1. PICK k \in Lines : \/ i + 2 = 2 * k - 1 /\ token = n + k
                           \/ i + 2 = 2 * k /\ token = EndOfLine
    BY <1>2 DEF IsToken
  <2>2. k - 1 \in Lines
    BY <1>2, <2>1, ConnectionAssumption DEF Lines
  <2>3. \/ i = 2 * (k - 1) - 1 /\ token = (n + 1) + (k - 1)
        \/ i = 2 * (k - 1) /\ token = EndOfLine
    BY <2>1, ConnectionAssumption DEF Lines
  <2> QED
    BY <2>2, <2>3 DEF IsToken
<1> QED
  BY <1>1, <1>2

(* Lengths are natural numbers, and domains are the intervals up to them. *)
NaturalLengths ==
  /\ Len(sent) \in Nat /\ Len(wire) \in Nat /\ Len(buffer) \in Nat
  /\ Len(executed) \in Nat /\ Len(replies) \in Nat /\ line \in Nat

IntervalDomains ==
  /\ DOMAIN sent = 1 .. Len(sent) /\ DOMAIN wire = 1 .. Len(wire)
  /\ DOMAIN buffer = 1 .. Len(buffer) /\ DOMAIN executed = 1 .. Len(executed)
  /\ DOMAIN replies = 1 .. Len(replies)

LEMMA SequenceFacts == TypeOK => NaturalLengths /\ IntervalDomains
<1> SUFFICES ASSUME TypeOK
             PROVE  NaturalLengths /\ IntervalDomains
  OBVIOUS
<1>1. /\ sent \in Seq(Kinds) /\ wire \in Seq(Tokens) /\ buffer \in Seq(Tokens)
      /\ executed \in Seq(Lines) /\ replies \in Seq(Responses) /\ line \in 0 .. Len(sent)
  BY DEF TypeOK
<1> QED
  BY <1>1, LenProperties DEF NaturalLengths, IntervalDomains

LEMMA Initially == Init => IInv
<1> SUFFICES ASSUME Init
             PROVE  IInv
  OBVIOUS
<1>1. TypeOK
  <2>1. \A S : <<>> \in Seq(S) /\ Len(<<>>) = 0
    BY EmptySeq
  <2>2. NoResponse \in Responses \cup {NoResponse}
    OBVIOUS
  <2>3. /\ sent \in Seq(Kinds) /\ wire \in Seq(Tokens) /\ buffer \in Seq(Tokens)
        /\ executed \in Seq(Lines) /\ replies \in Seq(Responses) /\ Len(sent) = 0
    BY <2>1 DEF Init
  <2>4. line \in 0 .. Len(sent) /\ Len(sent) <= MaxLines
    BY <2>3, ConnectionAssumption DEF Init
  <2> QED
    BY <2>2, <2>3, <2>4 DEF Init, TypeOK
<1>2. StreamInv
  BY DEF Init, StreamInv
<1>3. ExecutedInv /\ ResponseInv /\ ClosedInv
  BY DEF Init, ExecutedInv, ResponseInv, ClosedInv, Answering
<1> QED
  BY <1>1, <1>2, <1>3 DEF IInv

-------------------------------------------------------------------------------
(* The client sends at the end of the stream. *)
LEMMA SendTextStep ==
  ASSUME IInv, NEW kind \in Kinds, SendText(kind)
  PROVE  IInv'
<1> NaturalLengths /\ IntervalDomains
  BY SequenceFacts DEF IInv
<1> USE ConnectionAssumption DEF NaturalLengths
<1>1. /\ sent' \in Seq(Kinds) /\ Len(sent') = Len(sent) + 1
      /\ \A i \in 1 .. Len(sent) : sent'[i] = sent[i]
  BY AppendProperties DEF IInv, TypeOK, SendText
<1>2. Len(sent) + 1 \in Lines
  BY DEF IInv, SendText, Lines
<1>3. /\ wire' \in Seq(Tokens) /\ Len(wire') = Len(wire) + 1
      /\ \A i \in 1 .. Len(wire) : wire'[i] = wire[i]
      /\ wire'[Len(wire) + 1] = Len(sent) + 1
  BY <1>2, AppendProperties DEF IInv, TypeOK, SendText, Tokens
<1>4. TypeOK'
  BY <1>1, <1>2, <1>3 DEF IInv, TypeOK, SendText, serverVars, Lines
<1>5. StreamInv'
  <2>1. Len(buffer) + Len(wire) + 1 = 2 * (Len(sent) + 1 - line) - 1
    <3>1. Len(buffer) + Len(wire) = 2 * (Len(sent) - line)
      BY DEF IInv, StreamInv, SendText
    <3> QED
      BY <3>1
  <2>2. Len(sent) + 1 - line \in Lines
    BY <1>2 DEF IInv, TypeOK, Lines
  <2>3. IsToken(line, Len(buffer) + (Len(wire) + 1), Len(sent) + 1)
    <3>1. /\ Len(buffer) + (Len(wire) + 1) = 2 * (Len(sent) + 1 - line) - 1
          /\ Len(sent) + 1 = line + (Len(sent) + 1 - line)
      BY <2>1
    <3> QED
      BY <2>2, <3>1 DEF IsToken
  <2>4. \A i \in DOMAIN wire' : IsToken(line, Len(buffer) + i, wire'[i])
    <3>1. DOMAIN wire' = 1 .. Len(wire) + 1
      BY <1>3, LenProperties
    <3>2. \A i \in 1 .. Len(wire) : IsToken(line, Len(buffer) + i, wire'[i])
      BY <1>3 DEF IInv, StreamInv, IntervalDomains
    <3>3. \A i \in 1 .. Len(wire) + 1 : i \in 1 .. Len(wire) \/ i = Len(wire) + 1
      OBVIOUS
    <3> QED
      BY <1>3, <2>3, <3>1, <3>2, <3>3
  <2> QED
    BY <1>1, <1>3, <2>1, <2>4 DEF IInv, StreamInv, SendText, serverVars
<1>6. ExecutedInv'
  BY DEF IInv, ExecutedInv, SendText, serverVars
<1>7. ResponseInv'
  <2>1. UNCHANGED <<client, buffer, pc, line, res, replies>>
    BY DEF SendText, serverVars
  <2>2. line \in 0 .. Len(sent) /\ (pc \notin {"read", "closed"} => line # 0)
    BY DEF IInv, TypeOK
  <2>3. \A n \in 1 .. Len(sent) : IdOf(n)' = IdOf(n) /\ sent'[n] = sent[n]
    BY <1>1 DEF IdOf
  <2>4. line # 0 => line \in 1 .. Len(sent)
    BY <2>2
  <2>5. \A i \in DOMAIN replies : i \in 1 .. Len(sent)
    <3>1. Len(replies) <= line /\ line <= Len(sent)
      BY <2>2 DEF IInv, ResponseInv
    <3> QED
      BY <3>1
  <2> QED
    BY <2>1, <2>2, <2>3, <2>4, <2>5 DEF IInv, ResponseInv, Answering
<1>8. ClosedInv'
  BY DEF IInv, ClosedInv, SendText, serverVars
<1> QED
  BY <1>4, <1>5, <1>6, <1>7, <1>8 DEF IInv

LEMMA SendEndOfLineStep ==
  ASSUME IInv, SendEndOfLine
  PROVE  IInv'
<1> NaturalLengths /\ IntervalDomains
  BY SequenceFacts DEF IInv
<1> USE ConnectionAssumption DEF NaturalLengths
<1>1. /\ wire' \in Seq(Tokens) /\ Len(wire') = Len(wire) + 1
      /\ \A i \in 1 .. Len(wire) : wire'[i] = wire[i]
      /\ wire'[Len(wire) + 1] = EndOfLine
  BY AppendProperties DEF IInv, TypeOK, SendEndOfLine, Tokens
<1>2. TypeOK'
  BY <1>1 DEF IInv, TypeOK, SendEndOfLine, serverVars
<1>3. StreamInv'
  <2>1. Len(buffer) + Len(wire) + 1 = 2 * (Len(sent) - line)
    BY DEF IInv, StreamInv, SendEndOfLine
  <2>2. Len(sent) - line \in Lines
    BY <2>1 DEF IInv, TypeOK, Lines
  <2>3. IsToken(line, Len(buffer) + (Len(wire) + 1), EndOfLine)
    BY <2>1, <2>2 DEF IInv, IsToken
  <2>4. \A i \in DOMAIN wire' : IsToken(line, Len(buffer) + i, wire'[i])
    <3>1. DOMAIN wire' = 1 .. Len(wire) + 1
      BY <1>1, LenProperties
    <3>2. \A i \in 1 .. Len(wire) : IsToken(line, Len(buffer) + i, wire'[i])
      BY <1>1 DEF IInv, StreamInv, IntervalDomains
    <3>3. \A i \in 1 .. Len(wire) + 1 : i \in 1 .. Len(wire) \/ i = Len(wire) + 1
      OBVIOUS
    <3> QED
      BY <1>1, <2>3, <3>1, <3>2, <3>3
  <2> QED
    BY <1>1, <2>1, <2>4 DEF IInv, StreamInv, SendEndOfLine, serverVars
<1>4. ExecutedInv' /\ ResponseInv' /\ ClosedInv'
  BY DEF IInv, ExecutedInv, ResponseInv, ClosedInv, SendEndOfLine, serverVars, IdOf
<1> QED
  BY <1>2, <1>3, <1>4 DEF IInv

LEMMA ReadStep ==
  ASSUME IInv, NEW k \in 1 .. Len(replies), Read(k)
  PROVE  IInv'
<1>1. taken' \in 0 .. Len(replies)
  <2>1. taken \in 0 .. Len(replies) /\ Len(replies) \in Nat
    BY SequenceFacts DEF IInv, TypeOK, NaturalLengths
  <2> QED
    BY <2>1 DEF Read
<1> QED
  BY <1>1
     DEF IInv, TypeOK, StreamInv, ExecutedInv, ResponseInv, ClosedInv, Read, serverVars, IdOf,
         HasLine, Contains

LEMMA LeaveStep ==
  ASSUME IInv, NEW how \in {"halfClosed", "gone"}, Leave(how)
  PROVE  IInv'
BY DEF IInv, TypeOK, StreamInv, ExecutedInv, ResponseInv, ClosedInv, Leave, serverVars, IdOf,
       HasLine, Contains

-------------------------------------------------------------------------------
(* Tokens move from the wire to the streambuf in their order. *)
LEMMA ReceiveStep ==
  ASSUME IInv, NEW k \in 1 .. Len(wire), Receive(k)
  PROVE  IInv'
<1> NaturalLengths /\ IntervalDomains
  BY SequenceFacts DEF IInv
<1> USE DEF NaturalLengths
<1> DEFINE piece == SubSeq(wire, 1, k)
<1>1. \A i \in 1 .. Len(wire) : wire[i] \in Tokens
  BY ElementOfSeq DEF IInv, TypeOK
<1>2. piece \in Seq(Tokens) /\ Len(piece) = k /\ \A i \in 1 .. k : piece[i] = wire[i]
  <2>1. \A i \in 1 .. k : wire[i] \in Tokens
    BY <1>1 DEF IInv
  <2>2. /\ piece \in Seq(Tokens)
        /\ Len(piece) = IF 1 <= k THEN k - 1 + 1 ELSE 0
        /\ \A i \in 1 .. k - 1 + 1 : piece[i] = wire[1 + i - 1]
    BY <2>1, SubSeqProperties DEF IInv
  <2> QED
    BY <2>2 DEF IInv
<1>3. /\ wire' \in Seq(Tokens) /\ Len(wire') = Len(wire) - k
      /\ \A i \in 1 .. Len(wire) - k : wire'[i] = wire[k + i]
  <2>1. wire' = SubSeq(wire, k + 1, Len(wire))
    BY DEF Receive
  <2>2. \A i \in k + 1 .. Len(wire) : wire[i] \in Tokens
    BY <1>1 DEF IInv
  <2>3. k + 1 \in Int /\ Len(wire) \in Int
    BY DEF IInv
  <2>4. /\ wire' \in Seq(Tokens)
        /\ Len(wire') = IF k + 1 <= Len(wire) THEN Len(wire) - (k + 1) + 1 ELSE 0
        /\ \A i \in 1 .. Len(wire) - (k + 1) + 1 : wire'[i] = wire[(k + 1) + i - 1]
    BY <2>1, <2>2, <2>3, SubSeqProperties
  <2>5. Len(wire') = Len(wire) - k
    <3>1. CASE k = Len(wire)
      BY <2>4, <3>1
    <3>2. CASE k + 1 <= Len(wire)
      BY <2>4, <3>2
    <3>3. k = Len(wire) \/ k + 1 <= Len(wire)
      OBVIOUS
    <3> QED
      BY <3>1, <3>2, <3>3
  <2>6. \A i \in 1 .. Len(wire) - k : i \in 1 .. Len(wire) - (k + 1) + 1 /\ (k + 1) + i - 1 = k + i
    BY DEF IInv
  <2> QED
    BY <2>4, <2>5, <2>6
<1>4. /\ buffer' \in Seq(Tokens) /\ Len(buffer') = Len(buffer) + k
      /\ \A i \in 1 .. Len(buffer) + k :
           buffer'[i] = IF i <= Len(buffer) THEN buffer[i] ELSE wire[i - Len(buffer)]
  <2>1. buffer' = buffer \o piece /\ buffer \in Seq(Tokens)
    BY DEF IInv, TypeOK, Receive
  <2>2. /\ buffer' \in Seq(Tokens)
        /\ Len(buffer') = Len(buffer) + Len(piece)
        /\ \A i \in 1 .. Len(buffer) + Len(piece) :
             buffer'[i] = IF i <= Len(buffer) THEN buffer[i] ELSE piece[i - Len(buffer)]
    BY <1>2, <2>1, ConcatProperties
  <2> QED
    BY <1>2, <2>2 DEF IInv
<1> HIDE DEF piece
<1>5. TypeOK'
  BY <1>3, <1>4 DEF IInv, TypeOK, Receive, clientVars
<1>6. StreamInv'
  <2>1. \A i \in 1 .. Len(buffer') : IsToken(line, i, buffer'[i])
    <3> SUFFICES ASSUME NEW i \in 1 .. Len(buffer) + k
                 PROVE  IsToken(line, i, buffer'[i])
      BY <1>4
    <3>1. CASE i <= Len(buffer)
      BY <1>4, <3>1 DEF IInv, StreamInv, IntervalDomains
    <3>2. CASE i > Len(buffer)
      <4>1. i - Len(buffer) \in 1 .. Len(wire) /\ Len(buffer) + (i - Len(buffer)) = i
        BY <3>2 DEF IInv
      <4>2. buffer'[i] = wire[i - Len(buffer)]
        BY <1>4, <3>2 DEF IInv
      <4> QED
        BY <4>1, <4>2 DEF IInv, StreamInv
    <3> QED
      BY <3>1, <3>2 DEF IInv
  <2>2. \A i \in 1 .. Len(wire') : IsToken(line, Len(buffer') + i, wire'[i])
    <3> SUFFICES ASSUME NEW i \in 1 .. Len(wire')
                 PROVE  IsToken(line, Len(buffer') + i, wire'[i])
      OBVIOUS
    <3>1. k + i \in 1 .. Len(wire) /\ wire'[i] = wire[k + i]
      BY <1>3 DEF IInv
    <3>2. IsToken(line, Len(buffer) + (k + i), wire[k + i])
      BY <3>1 DEF IInv, StreamInv
    <3>3. Len(buffer') + i = Len(buffer) + (k + i)
      BY <1>3, <1>4 DEF IInv
    <3> QED
      BY <3>1, <3>2, <3>3
  <2>3. DOMAIN buffer' = 1 .. Len(buffer') /\ DOMAIN wire' = 1 .. Len(wire')
    BY <1>3, <1>4, LenProperties
  <2>4. line' = line /\ sent' = sent /\ partial' = partial
    BY DEF Receive, clientVars
  <2>5. Len(buffer') + Len(wire') = Len(buffer) + Len(wire)
    BY <1>3, <1>4 DEF IInv
  <2> QED
    BY <2>1, <2>2, <2>3, <2>4, <2>5 DEF IInv, StreamInv
<1>7. ExecutedInv' /\ ResponseInv' /\ ClosedInv'
  BY DEF IInv, ExecutedInv, ResponseInv, ClosedInv, Receive, clientVars, IdOf, Answering
<1> QED
  BY <1>5, <1>6, <1>7 DEF IInv

(* A streambuf with an end of line holds the whole of the next line: the   *)
(* text comes first.                                                       *)
LEMMA NextLine ==
  ASSUME IInv, HasLine
  PROVE  /\ Len(buffer) >= 2
         /\ buffer[1] = line + 1
         /\ line + 1 <= Len(sent)
<1> NaturalLengths /\ IntervalDomains
  BY SequenceFacts DEF IInv
<1> USE DEF NaturalLengths
<1>1. PICK i \in 1 .. Len(buffer) : buffer[i] = EndOfLine
  BY DEF HasLine, Contains
<1>2. IsToken(line, 1, buffer[1])
  BY <1>1 DEF IInv, StreamInv
<1>3. buffer[1] = line + 1 /\ buffer[1] # EndOfLine
  BY <1>2, TokenFacts DEF IInv
<1>4. Len(buffer) >= 2
  BY <1>1, <1>3 DEF IInv
<1> QED
  BY <1>3, <1>4 DEF IInv, TypeOK, StreamInv

LEMMA GetLineStep ==
  ASSUME IInv, GetLine
  PROVE  IInv'
<1> NaturalLengths /\ IntervalDomains
  BY SequenceFacts DEF IInv
<1> USE DEF NaturalLengths
<1>1. Len(buffer) >= 2 /\ buffer[1] = line + 1 /\ line + 1 <= Len(sent)
  BY NextLine DEF GetLine
<1>2. line' = line + 1
  BY <1>1 DEF GetLine
<1>3. /\ buffer' \in Seq(Tokens)
      /\ Len(buffer') = Len(buffer) - 2
      /\ \A i \in 1 .. Len(buffer) - 2 : buffer'[i] = buffer[i + 2]
  <2>1. buffer \in Seq(Tokens) /\ buffer # <<>>
    BY <1>1 DEF IInv, TypeOK
  <2>2. /\ Tail(buffer) \in Seq(Tokens) /\ Len(Tail(buffer)) = Len(buffer) - 1
        /\ \A i \in 1 .. Len(buffer) - 1 : Tail(buffer)[i] = buffer[i + 1]
    BY <2>1, HeadTailProperties
  <2>3. Tail(buffer) # <<>>
    <3>1. Len(Tail(buffer)) # Len(<<>>)
      BY <1>1, <2>2, EmptySeq
    <3> QED
      BY <3>1
  <2>4. /\ buffer' \in Seq(Tokens) /\ Len(buffer') = Len(Tail(buffer)) - 1
        /\ \A i \in 1 .. Len(Tail(buffer)) - 1 : buffer'[i] = Tail(buffer)[i + 1]
    BY <2>2, <2>3, HeadTailProperties DEF GetLine
  <2> QED
    BY <2>2, <2>4 DEF IInv
<1>4. TypeOK'
  BY <1>1, <1>2, <1>3 DEF IInv, TypeOK, GetLine, clientVars
<1>5. StreamInv'
  <2>1. DOMAIN buffer' = 1 .. Len(buffer) - 2
    BY <1>3, LenProperties
  <2>2. \A i \in 1 .. Len(buffer) - 2 : IsToken(line + 1, i, buffer'[i])
    <3> SUFFICES ASSUME NEW i \in 1 .. Len(buffer) - 2
                 PROVE  IsToken(line + 1, i, buffer[i + 2])
      BY <1>3
    <3>1. IsToken(line, i + 2, buffer[i + 2])
      BY DEF IInv, StreamInv
    <3> QED
      BY <3>1, TokenFacts DEF IInv
  <2>3. \A i \in 1 .. Len(wire) : IsToken(line + 1, (Len(buffer) - 2) + i, wire[i])
    <3> SUFFICES ASSUME NEW i \in 1 .. Len(wire)
                 PROVE  IsToken(line + 1, (Len(buffer) - 2) + i, wire[i])
      OBVIOUS
    <3>1. IsToken(line, Len(buffer) + i, wire[i])
      BY DEF IInv, StreamInv
    <3>2. /\ (Len(buffer) - 2) + i \in Nat /\ (Len(buffer) - 2) + i > 0
          /\ ((Len(buffer) - 2) + i) + 2 = Len(buffer) + i
      BY <1>1 DEF IInv
    <3> QED
      BY <3>1, <3>2, TokenFacts DEF IInv
  <2>4. wire' = wire /\ sent' = sent /\ partial' = partial
    BY DEF GetLine, clientVars
  <2>5. /\ partial => Len(buffer') + Len(wire) = 2 * (Len(sent) - (line + 1)) - 1
        /\ ~partial => Len(buffer') + Len(wire) = 2 * (Len(sent) - (line + 1))
    <3>1. 2 * (Len(sent) - (line + 1)) = 2 * (Len(sent) - line) - 2
      OBVIOUS
    <3>2. Len(buffer') + Len(wire) = (Len(buffer) + Len(wire)) - 2
      BY <1>3
    <3> QED
      BY <3>1, <3>2 DEF IInv, StreamInv
  <2> QED
    BY <1>2, <1>3, <2>1, <2>2, <2>3, <2>4, <2>5 DEF StreamInv, IntervalDomains
<1>6. ExecutedInv'
  <2>1. \A i \in DOMAIN executed : executed[i] <= line /\ executed[i] \in Nat
    BY ElementOfSeq, ConnectionAssumption DEF IInv, TypeOK, ExecutedInv, Lines
  <2> QED
    BY <1>2, <2>1 DEF IInv, ExecutedInv, GetLine
<1>7. ResponseInv' /\ ClosedInv'
  <2>1. UNCHANGED <<sent, client, res, replies>> /\ pc = "read" /\ pc' = "parse"
    BY DEF GetLine, clientVars
  <2>2. \A n : IdOf(n)' = IdOf(n)
    BY <2>1 DEF IdOf
  <2>3. Len(replies) <= line + 1 /\ (client # "gone" => Len(replies) = (line + 1) - 1)
    BY <2>1 DEF IInv, ResponseInv
  <2> QED
    BY <1>2, <2>1, <2>2, <2>3 DEF IInv, ResponseInv, ClosedInv, Answering
<1> QED
  BY <1>4, <1>5, <1>6, <1>7 DEF IInv

(* The thread ends when the stream does: what is left of it is no line. *)
LEMMA EndOfStreamStep ==
  ASSUME IInv, EndOfStream
  PROVE  IInv'
<1>1. UNCHANGED <<sent, partial, wire, client, taken, buffer, line, res, executed, replies>>
  BY DEF EndOfStream, clientVars
<1>2. pc = "read" /\ pc' = "closed" /\ ~HasLine
  BY DEF EndOfStream
<1>3. client # "gone" => client = "halfClosed" /\ wire = <<>>
  BY DEF EndOfStream
<1> QED
  BY <1>1, <1>2, <1>3
     DEF IInv, TypeOK, StreamInv, ExecutedInv, ResponseInv, ClosedInv, IdOf, Answering, HasLine,
         Contains

-------------------------------------------------------------------------------
(* Nothing of the stream changes while a line is being answered. *)
LEMMA SameStream ==
  ASSUME IInv, UNCHANGED <<clientVars, wire, buffer, line>>
  PROVE  StreamInv'
BY DEF IInv, StreamInv, clientVars

LEMMA ParseStep ==
  ASSUME IInv, ParseRequest \/ ParseFails
  PROVE  IInv'
<1> NaturalLengths /\ IntervalDomains
  BY SequenceFacts DEF IInv
<1> USE ConnectionAssumption DEF NaturalLengths
<1>1. CASE ParseRequest
  <2>1. StreamInv'
    BY <1>1, SameStream DEF ParseRequest
  <2> QED
    BY <1>1, <2>1
       DEF IInv, TypeOK, ExecutedInv, ResponseInv, ClosedInv, ParseRequest, clientVars, IdOf,
           Answering
<1>2. CASE ParseFails
  <2>1. StreamInv'
    BY <1>2, SameStream DEF ParseFails, Respond
  <2>2. res' \in Responses /\ res'.line = line /\ res'.id = IdOf(line)
    BY <1>2
       DEF IInv, TypeOK, ParseFails, Respond, ParseErrorBody, Responses, Lines, IdOf, Parsable
  <2> QED
    BY <1>2, <2>1, <2>2
       DEF IInv, TypeOK, ExecutedInv, ResponseInv, ClosedInv, ParseFails, Respond, clientVars,
           IdOf, Answering
<1> QED
  BY <1>1, <1>2

LEMMA DispatchStep ==
  ASSUME IInv, NEW outcome \in Outcomes, Dispatch(outcome)
  PROVE  IInv'
<1> NaturalLengths /\ IntervalDomains
  BY SequenceFacts DEF IInv
<1> USE ConnectionAssumption DEF NaturalLengths
<1>1. StreamInv'
  BY SameStream DEF Dispatch, Respond
<1>2. line \in Lines
  BY DEF IInv, TypeOK, Dispatch, Respond, Lines
<1>3. res' \in Responses /\ res'.line = line /\ res'.id = IdOf(line)
  BY <1>2 DEF Dispatch, Respond, Outcomes, Responses, IdOf
<1>4. /\ executed' \in Seq(Lines) /\ Len(executed') = Len(executed) + 1
      /\ \A i \in 1 .. Len(executed) : executed'[i] = executed[i]
      /\ executed'[Len(executed) + 1] = line
  BY <1>2, AppendProperties DEF IInv, TypeOK, Dispatch
<1>5. ExecutedInv'
  <2>1. \A i \in 1 .. Len(executed) : executed[i] < line /\ executed[i] <= line
    BY ElementOfSeq DEF IInv, TypeOK, ExecutedInv, Dispatch, Respond, Lines
  <2>2. DOMAIN executed' = 1 .. Len(executed) + 1
    BY <1>4, LenProperties
  <2>3. \A i, j \in DOMAIN executed' : i < j => executed'[i] < executed'[j]
    BY <1>4, <2>1, <2>2 DEF IInv, ExecutedInv
  <2>4. \A i \in DOMAIN executed' : executed'[i] <= line
    BY <1>4, <2>1, <2>2 DEF IInv
  <2> QED
    BY <2>3, <2>4 DEF ExecutedInv, Dispatch, Respond
<1>6. TypeOK'
  BY <1>3, <1>4 DEF IInv, TypeOK, Dispatch, Respond, clientVars
<1>7. ResponseInv' /\ ClosedInv'
  BY <1>3 DEF IInv, ResponseInv, ClosedInv, Dispatch, Respond, clientVars, IdOf, Answering
<1> QED
  BY <1>1, <1>5, <1>6, <1>7 DEF IInv

LEMMA SerializeStep ==
  ASSUME IInv, Serialize \/ SerializeThrows
  PROVE  IInv'
<1> NaturalLengths /\ IntervalDomains
  BY SequenceFacts DEF IInv
<1> USE DEF NaturalLengths
<1>1. StreamInv'
  BY SameStream DEF Serialize, SerializeThrows
<1> QED
  BY <1>1
     DEF IInv, TypeOK, ExecutedInv, ResponseInv, ClosedInv, Serialize, SerializeThrows,
         clientVars, IdOf, Answering, Serializable

LEMMA WriteStep ==
  ASSUME IInv, Write
  PROVE  IInv'
<1> NaturalLengths /\ IntervalDomains
  BY SequenceFacts DEF IInv
<1> USE DEF NaturalLengths
<1>1. StreamInv'
  BY SameStream DEF Write
<1>2. CASE client = "gone"
  BY <1>1, <1>2
     DEF IInv, TypeOK, ExecutedInv, ResponseInv, ClosedInv, Write, clientVars, IdOf, Answering
<1>3. CASE client # "gone"
  <2>1. /\ res \in Responses /\ res.line = line /\ res.id = IdOf(line)
        /\ Len(replies) = line - 1
    BY <1>3 DEF IInv, ResponseInv, Write, Answering
  <2>2. /\ replies' \in Seq(Responses) /\ Len(replies') = Len(replies) + 1
        /\ \A i \in 1 .. Len(replies) : replies'[i] = replies[i]
        /\ replies'[Len(replies) + 1] = res
    BY <1>3, <2>1, AppendProperties DEF IInv, TypeOK, Write
  <2>3. DOMAIN replies' = 1 .. Len(replies) + 1
    BY <2>2, LenProperties
  <2>4. \A i \in DOMAIN replies' : replies'[i].line = i /\ replies'[i].id = IdOf(i)
    BY <2>1, <2>2, <2>3 DEF IInv, ResponseInv
  <2>5. ResponseInv'
    BY <1>3, <2>1, <2>2, <2>4 DEF IInv, ResponseInv, Write, clientVars, IdOf, Answering
  <2> QED
    BY <1>1, <2>2, <2>5
       DEF IInv, TypeOK, ExecutedInv, ClosedInv, Write, clientVars
<1> QED
  BY <1>2, <1>3

LEMMA Inductive == IInv /\ [Next]_vars => IInv'
<1> SUFFICES ASSUME IInv, [Next]_vars
             PROVE  IInv'
  OBVIOUS
<1>1. CASE ClientStep
  BY <1>1, SendTextStep, SendEndOfLineStep, LeaveStep, ReadStep DEF ClientStep
<1>2. CASE ServerStep
  BY <1>2, ReceiveStep, GetLineStep, EndOfStreamStep, ParseStep, DispatchStep, SerializeStep,
     WriteStep
     DEF ServerStep
<1>3. CASE UNCHANGED vars
  BY <1>3
     DEF IInv, TypeOK, StreamInv, ExecutedInv, ResponseInv, ClosedInv, vars, clientVars,
         serverVars, IdOf, HasLine, Contains
<1> QED
  BY <1>1, <1>2, <1>3 DEF Next

LEMMA Invariance == Spec => []IInv
<1> QED
  BY Initially, Inductive, PTL DEF Spec
-------------------------------------------------------------------------------
(* The variables of a connection keep their types: the line being answered *)
(* is one the client has sent (server.cpp:73-96).                          *)
THEOREM TypeCorrect == Spec => []TypeOK
<1> QED
  BY Invariance, PTL DEF IInv

(* However many lines there are and however they travel, the i-th response *)
(* answers the i-th line (server.cpp:73-96).                               *)
THEOREM InOrder == Spec => []RepliesInOrder
<1>1. IInv => RepliesInOrder
  BY DEF IInv, ResponseInv, RepliesInOrder
<1> QED
  BY <1>1, Invariance, PTL

(* A response has the id of its request or none (server.cpp:86-92). *)
THEOREM IdsAreRight == Spec => []IdsMatch
<1>1. IInv => IdsMatch
  BY DEF IInv, ResponseInv, IdsMatch, IdOf
<1> QED
  BY <1>1, Invariance, PTL

(* Nothing is executed twice or in part, whenever the connection is cut    *)
(* (server.cpp:75-82): the line that was taken last has its end.           *)
THEOREM ExecutedOnce == Spec => []ExecutedOnceAndWhole
<1>1. ASSUME IInv
      PROVE  ExecutedOnceAndWhole
  <2>1. NaturalLengths /\ IntervalDomains
    BY <1>1, SequenceFacts DEF IInv
  <2>2. line <= Len(sent) /\ (partial => line < Len(sent))
    BY <1>1, <2>1 DEF IInv, TypeOK, StreamInv, NaturalLengths
  <2>3. ASSUME NEW i \in DOMAIN executed
        PROVE  Ended(executed[i])
    <3>1. executed[i] \in Nat /\ 1 <= executed[i] /\ executed[i] <= line
      BY <1>1, <2>1, ElementOfSeq, ConnectionAssumption
         DEF IInv, TypeOK, ExecutedInv, IntervalDomains, Lines
    <3> QED
      BY <2>1, <2>2, <3>1 DEF Ended, NaturalLengths, IntervalDomains
  <2> QED
    BY <1>1, <2>3 DEF IInv, ExecutedInv, ExecutedOnceAndWhole
<1> QED
  BY <1>1, Invariance, PTL

(* The server closes on a client that stays because a response cannot be   *)
(* serialized, or when it has answered all the client will ever have sent  *)
(* (server.cpp:73-107).                                                    *)
THEOREM ClosesForCause == Spec => []ClosedForCause
<1>1. ASSUME IInv, pc = "closed", client # "gone", Serializable(res)
      PROVE  client = "halfClosed" /\ \A n \in DOMAIN sent : Ended(n) => n <= Len(replies)
  <2>1. NaturalLengths /\ IntervalDomains
    BY <1>1, SequenceFacts DEF IInv
  <2>2. client = "halfClosed" /\ Len(replies) = line /\ wire = <<>> /\ ~HasLine
    BY <1>1 DEF IInv, ClosedInv
  <2>3. Len(wire) = 0
    BY <2>2, EmptySeq
  <2>4. Len(buffer) <= 1
    <3> SUFFICES ASSUME Len(buffer) >= 2
                 PROVE  FALSE
      BY <2>1 DEF NaturalLengths
    <3>1. IsToken(line, 2, buffer[2])
      <4>1. 2 \in DOMAIN buffer
        BY <2>1 DEF NaturalLengths, IntervalDomains
      <4> QED
        BY <1>1, <4>1 DEF IInv, StreamInv
    <3>2. buffer[2] = EndOfLine
      BY <3>1, ConnectionAssumption DEF IsToken, Lines
    <3> QED
      BY <2>1, <2>2, <3>2 DEF HasLine, Contains, NaturalLengths
  <2>5. Len(sent) <= line \/ (partial /\ Len(sent) = line + 1)
    <3>1. CASE partial
      BY <1>1, <2>1, <2>3, <2>4, <3>1 DEF IInv, StreamInv, NaturalLengths
    <3>2. CASE ~partial
      BY <1>1, <2>1, <2>3, <2>4, <3>2 DEF IInv, StreamInv, NaturalLengths
    <3> QED
      BY <3>1, <3>2
  <2>6. \A n \in 1 .. Len(sent) : Ended(n) => n <= line
    BY <2>1, <2>5, <1>1 DEF Ended, NaturalLengths, IInv, TypeOK
  <2> QED
    BY <2>1, <2>2, <2>6 DEF IntervalDomains
<1>2. IInv => ClosedForCause
  BY <1>1 DEF ClosedForCause
<1> QED
  BY <1>2, Invariance, PTL

-------------------------------------------------------------------------------
(* ClientSession.  The client program is one of the clients Connection     *)
(* leaves free, so a session is a behaviour of Connection and has its      *)
(* invariants.  What the program adds is that it has never sent more than  *)
(* one line beyond the answers it has taken: read_until can therefore find *)
(* one answer at most.                                                     *)

(* How far the program is ahead of its answers, at each of its places. *)
PaceInv ==
  /\ program = "other" => shown = <<>>
  /\ program \in {"test", "getline"} => taken = Len(sent) /\ ~partial
  /\ program = "write" => taken = Len(sent) - 1 /\ partial
  /\ program = "await" => taken = Len(sent) - 1 /\ ~partial

SessionInv == SessionTypeOK /\ PaceInv /\ AnswersAreOwn

-------------------------------------------------------------------------------
(* Every step of a session is a step of a connection, or none. *)
LEMMA StepIsConnectionStep == [SessionNext]_sessionVars => [Next]_vars
<1> SUFFICES ASSUME [SessionNext]_sessionVars
             PROVE  [Next]_vars
  OBVIOUS
<1> USE DEF Next, ClientStep
<1>1. \A place : EndFrom(place) => Next
  BY DEF EndFrom
<1>2. CASE ProgramStep
  BY <1>1, <1>2 DEF ProgramStep, TestRunning, Interrupted, FinishLine, ReadAnswer, ConnectionLost
<1>3. CASE UserStep
  BY <1>1, <1>3 DEF UserStep, Signal, TypeExit, TypeEmpty, TypeLine
<1>4. CASE Elsewhere
  BY <1>4 DEF Elsewhere
<1>5. CASE UNCHANGED sessionVars
  BY <1>5 DEF sessionVars
<1> QED
  BY <1>2, <1>3, <1>4, <1>5 DEF SessionNext

(* The client program is a client: a session, of the program or of another *)
(* client, is a connection (client.cpp:32-55, server.cpp:69-107).          *)
THEOREM SessionIsConnection == SessionSpec => Spec
<1>1. SessionInit => Init
  BY DEF SessionInit
<1> QED
  BY <1>1, StepIsConnectionStep, PTL DEF SessionSpec, Spec

-------------------------------------------------------------------------------
(* The server sends nothing for the client and reads nothing for it. *)
LEMMA ServerSendsNothing == ServerStep => UNCHANGED <<sent, partial, taken>>
BY DEF ServerStep, Receive, GetLine, EndOfStream, ParseRequest, ParseFails, Dispatch, Respond,
       Serialize, SerializeThrows, Write, clientVars

LEMMA SessionInitially == SessionInit => SessionInv
<1> SUFFICES ASSUME SessionInit
             PROVE  SessionInv
  OBVIOUS
<1>1. TypeOK
  BY Initially DEF SessionInit, IInv
<1>2. \A S : <<>> \in Seq(S) /\ Len(<<>>) = 0
  BY EmptySeq
<1>3. /\ Len(sent) = 0 /\ taken = 0 /\ ~partial
      /\ shown \in Seq(Responses) /\ Len(shown) = 0
  BY <1>2 DEF SessionInit, Init
<1>4. DOMAIN shown = {}
  BY <1>3, LenProperties
<1> QED
  BY <1>1, <1>3, <1>4 DEF SessionInit, SessionInv, SessionTypeOK, PaceInv, AnswersAreOwn

(* The program takes one answer, the one to its last line. *)
LEMMA ReadAnswerStep ==
  ASSUME IInv, SessionInv, NEW k \in 1 .. Len(replies), ReadAnswer(k)
  PROVE  SessionInv'
<1>1. NaturalLengths /\ IntervalDomains
  BY SequenceFacts DEF IInv
<1>2. taken \in Nat /\ taken = Len(sent) - 1 /\ Len(replies) <= line /\ line <= Len(sent)
  BY <1>1
     DEF IInv, TypeOK, ResponseInv, SessionInv, SessionTypeOK, PaceInv, ReadAnswer, Goes,
         NaturalLengths
<1>3. k = 1 /\ taken + 1 = Len(replies) /\ taken' = Len(replies)
  BY <1>1, <1>2 DEF ReadAnswer, Read, NaturalLengths
<1>4. program' = "test" /\ running' = running
  BY DEF ReadAnswer, Goes
<1>5. UNCHANGED <<sent, partial, replies>> /\ TypeOK'
  BY ReadStep DEF ReadAnswer, Read, serverVars, IInv
<1>6. /\ replies[taken + 1] \in Responses
      /\ replies[taken + 1].line = taken + 1
  <2>1. taken + 1 \in 1 .. Len(replies)
    BY <1>2, <1>3
  <2>2. taken + 1 \in DOMAIN replies
    BY <1>1, <2>1 DEF IntervalDomains
  <2> QED
    BY <2>1, <2>2, ElementOfSeq DEF IInv, TypeOK, ResponseInv
<1>7. /\ shown' \in Seq(Responses) /\ Len(shown') = taken + 1
      /\ \A i \in 1 .. taken : shown'[i] = shown[i]
      /\ shown'[taken + 1] = replies[taken + 1]
  BY <1>6, AppendProperties DEF SessionInv, SessionTypeOK, AnswersAreOwn, ReadAnswer, Goes
<1>8. \A i \in DOMAIN shown' : shown'[i].line = i
  <2>1. DOMAIN shown' = 1 .. taken + 1 /\ DOMAIN shown = 1 .. taken
    BY <1>7, LenProperties DEF SessionInv, SessionTypeOK, AnswersAreOwn, ReadAnswer, Goes
  <2>2. \A i \in 1 .. taken + 1 : i \in 1 .. taken \/ i = taken + 1
    BY <1>2
  <2> QED
    BY <1>6, <1>7, <2>1, <2>2 DEF SessionInv, AnswersAreOwn
<1>9. taken' \in 0 .. Len(replies) /\ taken' = Len(sent) /\ taken' = taken + 1
  BY <1>1, <1>2, <1>3 DEF NaturalLengths
<1>10. SessionTypeOK'
  BY <1>4, <1>5, <1>7, <1>9 DEF SessionInv, SessionTypeOK
<1>11. PaceInv'
  BY <1>4, <1>5, <1>9 DEF SessionInv, PaceInv, ReadAnswer, Goes
<1> QED
  BY <1>7, <1>8, <1>9, <1>10, <1>11 DEF SessionInv, AnswersAreOwn

LEMMA SessionStep ==
  ASSUME IInv, IInv', SessionInv, [SessionNext]_sessionVars
  PROVE  SessionInv'
<1>1. NaturalLengths
  BY SequenceFacts DEF IInv
<1>2. TypeOK'
  BY DEF IInv
(* Where the program shows nothing, only the pace is to be proved. *)
<1>3. ASSUME UNCHANGED shown, program' # "other" => program # "other" /\ taken' = taken,
             program' \in {"other", "test", "getline", "write", "await", "ended"},
             running' \in BOOLEAN, PaceInv'
      PROVE  SessionInv'
  BY <1>2, <1>3 DEF SessionInv, SessionTypeOK, AnswersAreOwn
<1>4. \A place : place # "other" /\ EndFrom(place) => SessionInv'
  BY <1>3 DEF EndFrom, Goes, Leave, PaceInv, SessionInv, SessionTypeOK
<1>5. CASE TestRunning \/ TypeEmpty
  BY <1>3, <1>5
     DEF TestRunning, TypeEmpty, Goes, PaceInv, SessionInv, SessionTypeOK, vars, clientVars
<1>6. CASE FinishLine
  BY <1>3, <1>6 DEF FinishLine, Goes, SendEndOfLine, PaceInv, SessionInv, SessionTypeOK
<1>7. CASE \E k \in 1 .. Len(replies) : ReadAnswer(k)
  BY <1>7, ReadAnswerStep
<1>8. CASE Signal
  BY <1>3, <1>8 DEF Signal, PaceInv, SessionInv, SessionTypeOK, vars, clientVars
<1>9. ASSUME NEW kind \in Kinds, TypeLine(kind)
      PROVE  SessionInv'
  <2>1. Len(sent') = Len(sent) + 1
    BY <1>9, AppendProperties DEF IInv, TypeOK, TypeLine, SendText
  <2> QED
    BY <1>1, <1>3, <1>9, <2>1
       DEF TypeLine, Goes, SendText, PaceInv, SessionInv, SessionTypeOK, NaturalLengths
<1>10. CASE Elsewhere /\ UNCHANGED <<program, running, shown>>
  BY <1>3, <1>10, ServerSendsNothing
     DEF Elsewhere, PaceInv, SessionInv, SessionTypeOK
<1>11. CASE UNCHANGED sessionVars
  BY <1>3, <1>11
     DEF sessionVars, PaceInv, SessionInv, SessionTypeOK, vars, clientVars
<1> QED
  BY <1>4, <1>5, <1>6, <1>7, <1>8, <1>9, <1>10, <1>11
     DEF SessionNext, ProgramStep, UserStep, Interrupted, ConnectionLost, TypeExit

LEMMA SessionInvariance == SessionSpec => []SessionInv
<1>1. IInv /\ IInv' /\ SessionInv /\ [SessionNext]_sessionVars => SessionInv'
  BY SessionStep
<1>2. SessionSpec => []IInv
  BY SessionIsConnection, Invariance, PTL
<1> QED
  BY <1>1, <1>2, SessionInitially, PTL DEF SessionSpec

(* The places of the program, its flag, and what it has taken and shown    *)
(* keep their types (client.cpp:32-55).                                    *)
THEOREM SessionTypeCorrect == SessionSpec => []SessionTypeOK
<1> QED
  BY SessionInvariance, PTL DEF SessionInv

(* The user sees the answer to the line typed, always, and none goes with  *)
(* a streambuf (client.cpp:43-50).                                         *)
THEOREM UserSeesOwnAnswers == SessionSpec => []AnswersAreOwn
<1> QED
  BY SessionInvariance, PTL DEF SessionInv

(* What the server promises any client it promises the client program      *)
(* (server.cpp:73-107, client.cpp:32-55).                                  *)
THEOREM SessionKeepsPromises ==
  SessionSpec => [](RepliesInOrder /\ IdsMatch /\ ExecutedOnceAndWhole /\ ClosedForCause)
<1> QED
  BY SessionIsConnection, InOrder, IdsAreRight, ExecutedOnce, ClosesForCause, PTL
===============================================================================
