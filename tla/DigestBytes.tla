----------------------------- MODULE DigestBytes -----------------------------
(***************************************************************************)
(* The bytes p101_tool_run_receipt_digest hashes (src/receipt.c), for two  *)
(* valid receipts field by field.  A digest can tell them apart only if    *)
(* the bytes do.                                                           *)
(***************************************************************************)
EXTENDS Integers, Sequences

CONSTANTS
  Char,        \* the characters of a C string; NUL is not one
  ByteBase,    \* a byte holds 0 .. ByteBase - 1
  WordBytes,   \* sizeof(uint64_t)
  Weight,      \* Weight[k] is ByteBase^k: a shift by k bytes
  LabelOf(_),  \* the characters of a literal
  Receipts     \* receipts, each with the fingerprint passed beside it

NUL  == 0
Byte == 0..(ByteBase - 1)

ASSUME ByteAssumption ==
  /\ ByteBase \in Nat \ {0} /\ WordBytes \in Nat
  /\ Char \subseteq Byte \ {NUL}

ASSUME WeightAssumption ==
  /\ Weight \in [0..WordBytes -> Nat \ {0}]
  /\ Weight[0] = 1
  /\ \A k \in 1..WordBytes : Weight[k] = ByteBase * Weight[k - 1]

SchemaName == "p101-tool-run-receipt-v4"

Text(name)   == [name |-> name, kind |-> "text"]
Number(name) == [name |-> name, kind |-> "number"]
Part(name)   == [name |-> name, kind |-> "fingerprint"]

\* The fields behind "schema", in the order they are hashed.
Fields ==
  << Text("tool_name"), Text("tool_version"), Text("input_schema"),
     Text("input_identity"), Text("policy_schema"), Text("policy_identity"),
     Text("run_identity"), Text("outcome"), Text("failure_reason"),
     Text("failed_stage"), Text("first_diagnostic"),
     Number("checks_attempted"), Number("checks_completed"),
     Number("fingerprint_present"),
     Part("fingerprint_bytes"), Part("fingerprint_records"),
     Part("fingerprint_value"), Part("fingerprint_final_newline"),
     Text("does_not_prove") >>

Labels ==
  {Fields[i].name : i \in 1..Len(Fields)} \cup {"schema", SchemaName, "field"}

ASSUME LabelAssumption == \A s \in Labels : LabelOf(s) \in Seq(Char)

PresentField == 14   \* "fingerprint_present": 0 for a NULL fingerprint
NewLineField == 18   \* "fingerprint_final_newline": an int, read as a truth value

Words == 0..(Weight[WordBytes] - 1)

\* A receipt gives each field its value; the fields of a fingerprint that is not
\* there are 0.
IsReceipt(r) ==
  /\ r = [i \in 1..Len(Fields) |-> r[i]]
  /\ \A i \in 1..Len(Fields) :
       /\ Fields[i].kind = "text" => r[i] \in Seq(Char)
       /\ Fields[i].kind # "text" => r[i] \in Words
       /\ Fields[i].kind = "fingerprint" /\ r[PresentField] = 0 => r[i] = 0

ASSUME ReceiptsAssumption == \A r \in Receipts : IsReceipt(r)

VARIABLES
  left, right,              \* the receipts
  next,                     \* the field to be hashed next
  left_bytes, right_bytes   \* the bytes hashed so far

vars == <<left, right, next, left_bytes, right_bytes>>

-----------------------------------------------------------------------------
\* Mutant: the separators are hashed with a size of 0.
digest_text_joined(label, value) == LabelOf(label) \o value

digest_text(label, value) == LabelOf(label) \o <<NUL>> \o value \o <<NUL>>

\* The bytes of a number, the most significant one first.
BigEndian(value) ==
  [i \in 1..WordBytes |-> (value \div Weight[WordBytes - i]) % ByteBase]

digest_u64(label, value) == digest_text("field", LabelOf(label)) \o BigEndian(value)

\* The value of field i that is hashed.
Hashed(r, i) == IF i = NewLineField /\ r[i] # 0 THEN 1 ELSE r[i]

\* The bytes field i of a receipt adds.
FieldBytes(r, i) ==
  LET field == Fields[i]
  IN  CASE field.kind = "text"   -> digest_text(field.name, Hashed(r, i))
        [] field.kind = "number" -> digest_u64(field.name, Hashed(r, i))
        [] field.kind = "fingerprint" ->
             IF r[PresentField] = 0 THEN <<>> ELSE digest_u64(field.name, Hashed(r, i))

Init ==
  /\ left \in Receipts /\ right \in Receipts
  /\ next = 1
  /\ left_bytes = digest_text("schema", LabelOf(SchemaName))
  /\ right_bytes = left_bytes

HashField ==
  /\ next <= Len(Fields)
  /\ next' = next + 1
  /\ left_bytes' = left_bytes \o FieldBytes(left, next)
  /\ right_bytes' = right_bytes \o FieldBytes(right, next)
  /\ UNCHANGED <<left, right>>

Spec == Init /\ [][HashField]_vars

-----------------------------------------------------------------------------
(* Properties.                                                             *)

\* What is hashed is a sequence of bytes.
TypeOK ==
  /\ left \in Receipts /\ right \in Receipts
  /\ next \in 1..(Len(Fields) + 1)
  /\ left_bytes \in Seq(Byte) /\ right_bytes \in Seq(Byte)

\* The same bytes come of the same receipt only, but for two ints that both say that
\* there is a final newline: no text can run into the next field, no number into
\* another, and no receipt without a fingerprint can pass for one with a fingerprint,
\* although neither lengths nor ends of fields are hashed.
DigestBinds ==
  next > Len(Fields) /\ left_bytes = right_bytes =>
    \A i \in 1..Len(Fields) : Hashed(left, i) = Hashed(right, i)
=============================================================================
