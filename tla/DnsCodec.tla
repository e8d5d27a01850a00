------------------------------- MODULE DnsCodec -------------------------------
(***************************************************************************)
(* The DNS messages of c_dns.c: packing a query, reading a name through    *)
(* its compression pointers, and generating an answer.  A message is its   *)
(* header, a record, and its data, the bytes that follow the header;       *)
(* offsets count from the start of the header, as pointers do.  A domain   *)
(* is its text, a sequence of characters.  The second half says what names *)
(* and answers are to anybody else: a reader that takes names label by     *)
(* label, and the messages a name server writes.                           *)
(*                                                                         *)
(* Questions and records have the fields of their types, but the data of a *)
(* record need not be a name where get_name takes it for one.  Names in    *)
(* messages begin below 256: a pointer beyond that loses bits in get_name  *)
(* (`<< 4`).  Messages whose names lead in circles, which get_name follows *)
(* for ever, have no states here.                                          *)
(***************************************************************************)
EXTENDS Integers, Sequences, FiniteSets, SequencesExt, FiniteSetsExt

DOT == 46
HEADER_LENGTH == 12
PTR_LEN == 2
QUESTION_BASE == 4      \* sizeof(QuestionBase)
RDATA_HEADER == 10      \* sizeof(RDATA_Header)
QTYPE_A == 1
QTYPE_CNAME == 5
QTYPE_AAAA == 28
CLASS_IN == 1
MAX_SHORT == 65535      \* UINT16_MAX
Short == 0..MAX_SHORT

Drop(s, k) == SubSeq(s, k + 1, Len(s))
Htons(n) == <<n \div 256, n % 256>>
End(m) == HEADER_LENGTH + Len(m.data)
\* What lies beyond the end of a message is 0 here; nothing points at the header.
Byte(m, o) == IF o \in HEADER_LENGTH..(End(m) - 1) THEN m.data[o - HEADER_LENGTH + 1] ELSE 0
Ntohs(m, o) == 256 * Byte(m, o) + Byte(m, o + 1)
Bytes(m, o, n) == [i \in 1..n |-> Byte(m, o + i - 1)]

-----------------------------------------------------------------------------
(* domain_to_dns_name_format, c_dns_pack.                                  *)

\* The length of the label of a domain that begins at position p (a slip: the
\* count goes on from label to label).
CountedOn(domain, p) == Cardinality({q \in 1..Len(domain) : domain[q] # DOT})
LabelLength(domain, p) ==
  Min({q \in p..Len(domain) : domain[q] = DOT} \cup {Len(domain) + 1}) - p

DnsNameFormat(domain) ==
  [i \in 1..(Len(domain) + 2) |->
     IF i = Len(domain) + 2 THEN 0
     ELSE IF i = 1 \/ domain[i - 1] = DOT THEN LabelLength(domain, i)
     ELSE domain[i - 1]]

\* strlen and one more: an empty label ends the name.
CString(s) == SubSeq(s, 1, Min({i \in 1..Len(s) : s[i] = 0}))

\* The buffer of its one caller is large enough.
Pack(domain, type) ==
  [qr |-> "query", rcode |-> 0, questions |-> 1, answers |-> 0,
   data |-> CString(DnsNameFormat(domain)) \o Htons(type) \o Htons(CLASS_IN)]

-----------------------------------------------------------------------------
(* get_name: the text of a name, the offset of its first label, and the   *)
(* bytes it takes where it begins, the pointer it ends in included.        *)

\* No name takes more: it has at most 127 labels, each behind a pointer at most.
MAX_STEPS == 255

\* In the code a pointer that follows a label and leads to a root, or nowhere, adds
\* ".(null)".  Nobody here writes such a pointer: it takes the place of a name.
Joined(name, left) == IF left = << >> THEN name ELSE name \o <<DOT>> \o left

IsPointer(m, o) == Byte(m, o) \div 64 = 3
PointerAt(m, o) == (Byte(m, o) % 4) * 16 + Byte(m, o + 1)

\* The size is -1 when the first pointer leads nowhere; of another one it is not
\* known.
GetName(m, start) ==
  LET name[steps \in Nat] ==
        [o \in Nat |->
           IF steps = 0 \/ Byte(m, o) = 0 THEN [text |-> << >>, offset |-> o, size |-> 1]
           ELSE IF ~IsPointer(m, o)
           THEN [name[steps - 1][o + 1 + Byte(m, o)] EXCEPT
                   !.text = Joined(Bytes(m, o + 1, Byte(m, o)), @), !.offset = o,
                   !.size = IF @ = -1 THEN -1 ELSE 1 + Byte(m, o) + @]
           ELSE IF PointerAt(m, o) > End(m)
           THEN [text |-> << >>, offset |-> o, size |-> -1]
           ELSE [name[steps - 1][PointerAt(m, o)] EXCEPT !.size = PTR_LEN]]
  IN  name[MAX_STEPS][start]

\* The labels at `start` lead out of the message, or to a byte that is no length
\* (a char above 127): where get_name goes from there is not known.
Strays(m, start) ==
  LET stop[steps \in Nat] ==
        [o \in Nat |->
           IF Byte(m, o) = 0 \/ IsPointer(m, o) THEN o
           ELSE IF steps = 0 \/ Byte(m, o) > 127 THEN End(m)
           ELSE stop[steps - 1][o + 1 + Byte(m, o)]]
      last == stop[MAX_STEPS][start]
  IN  last + (IF IsPointer(m, last) THEN PTR_LEN ELSE 1) > End(m)

\* Whether get_name fails at o: both are possible when it strays.
NameFails(m, o) == IF Strays(m, o) THEN BOOLEAN ELSE {GetName(m, o).size = -1}

-----------------------------------------------------------------------------
(* c_dns_gen_inet_response: questions and answers.  hosts is what ipv4_cb  *)
(* and ipv6_cb know.                                                       *)

\* DomainOffset, of the question at o.
QuestionAt(m, o) ==
  LET name == GetName(m, o)
      base == o + name.size
  IN  [domain |-> name.text, offset |-> name.offset,
       type |-> Ntohs(m, base), class |-> Ntohs(m, base + 2)]

\* Questions it answers.
Answers(q) == q.class = CLASS_IN /\ q.type \in {QTYPE_A, QTYPE_AAAA}

\* The pointer is a host's short of which the low byte, the first, is or'ed (a slip:
\* it is not).  Every answer is of type A, that to AAAA included.
OffsetOnly(q, address) ==
  <<q.offset \div 256, q.offset % 256>> \o Htons(QTYPE_A) \o Htons(CLASS_IN)
    \o <<0, 0, 0, 0>> \o Htons(Len(address)) \o address
InetAnswer(q, address) ==
  <<192 + q.offset \div 256, q.offset % 256>> \o Htons(QTYPE_A) \o Htons(CLASS_IN)
    \o <<0, 0, 0, 0>> \o Htons(Len(address)) \o address

AddressOf(hosts, q) == IF q.type = QTYPE_A THEN hosts[q.domain].ipv4 ELSE hosts[q.domain].ipv6

-----------------------------------------------------------------------------
(* What names are: sequences of labels (RFC 1035).                        *)

Label == {l \in Seq((1..255) \ {DOT}) : Len(l) \in 1..63}
HostName == {n \in Seq(Label) : Len(n) \in 1..127}

\* Its text: the labels with a dot before each, less the first dot.
TextOf(labels) == Drop(FlattenSeq([i \in 1..Len(labels) |-> <<DOT>> \o labels[i]]), 1)
\* It may end in a dot, or not.
TextsOf(labels) == {TextOf(labels), TextOf(labels) \o <<DOT>>}

\* A pointer has 14 bits.
LabelsAt(m, start) ==
  LET labels[steps \in Nat] ==
        [o \in Nat |->
           IF steps = 0 \/ Byte(m, o) = 0 THEN << >>
           ELSE IF Byte(m, o) >= 192
           THEN labels[steps - 1][(Byte(m, o) - 192) * 256 + Byte(m, o + 1)]
           ELSE <<Bytes(m, o + 1, Byte(m, o))>> \o labels[steps - 1][o + 1 + Byte(m, o)]]
  IN  labels[MAX_STEPS][start]

-----------------------------------------------------------------------------
(* What a name server writes.  A draft is a message being written: `known` *)
(* are the names in it so far, from `at` to `after`; `records` its         *)
(* answers, and `starts` where its questions and answers begin.  Of a name *)
(* the labels are written before a name that is known, if it compresses.   *)

Suffix(labels, i) == SubSeq(labels, i, Len(labels))
Wire(labels) == FlattenSeq([i \in 1..Len(labels) |-> <<Len(labels[i])>> \o labels[i]])

\* The place from which a name is known.
KnownFrom(labels, known, compress) ==
  Min({i \in 1..Len(labels) : compress /\ \E k \in known : k.name = Suffix(labels, i)}
      \cup {Len(labels) + 1})

NameBytes(labels, known, compress) ==
  LET stop == KnownFrom(labels, known, compress)
      k == CHOOSE k \in known : k.name = Suffix(labels, stop)
  IN  Wire(SubSeq(labels, 1, stop - 1))
        \o IF stop > Len(labels) THEN <<0>> ELSE <<192 + k.at \div 256, k.at % 256>>

WithName(draft, labels, compress) ==
  LET bytes == NameBytes(labels, draft.known, compress)
      new(i) == [name |-> Suffix(labels, i),
                 at |-> End(draft) + Len(Wire(SubSeq(labels, 1, i - 1))),
                 after |-> End(draft) + Len(bytes)]
  IN  [draft EXCEPT !.data = @ \o bytes,
                    !.known = @ \cup {new(i) : i \in 1..(KnownFrom(labels, @, compress) - 1)}]

WithQuestion(draft, q, compress) ==
  [WithName(draft, q.name, compress) EXCEPT !.data = @ \o Htons(q.type) \o Htons(q.class),
                                            !.starts = Append(@, End(draft))]

\* Types whose data is a name: NS, CNAME, PTR, DNAME.
NameTypes == {2, QTYPE_CNAME, 12, 39}

WithRecord(draft, r, compress) ==
  LET named == WithName(draft, r.owner, compress)
      rdata == IF r.type \in NameTypes THEN NameBytes(r.target, named.known, compress) ELSE r.data
      head  == [named EXCEPT !.data = @ \o Htons(r.type) \o Htons(CLASS_IN) \o <<0, 0, 0, 9>>
                                        \o Htons(Len(rdata))]
      whole == IF r.type \in NameTypes THEN WithName(head, r.target, compress)
               ELSE [head EXCEPT !.data = @ \o rdata]
  IN  [whole EXCEPT !.starts = Append(@, End(draft)), !.records = Append(@, r)]

Blank == [data |-> << >>, known |-> {}, starts |-> << >>, records |-> << >>]

WithQuestions(questions, compress) ==
  LET draft[n \in 0..Len(questions)] ==
        IF n = 0 THEN Blank ELSE WithQuestion(draft[n - 1], questions[n], compress)
  IN  draft[Len(questions)]
=============================================================================
