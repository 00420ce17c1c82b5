------------------------------- MODULE Metering -------------------------------
(***************************************************************************)
(* What a provider reported, as the usage layer understands it:            *)
(* RawUsageFields, the drivers' contracts and normalize_usage              *)
(* (crates/provider-core/src/usage), and the split of a metric into a      *)
(* column and a kind under which it is stored                              *)
(* (crates/provider-storage/src/usage/codec.rs).                           *)
(***************************************************************************)
EXTENDS Integers, FiniteSets

CONSTANTS Absent,     \* no value: None, NULL, a key that was not sent
          StoreMax    \* the largest number an INTEGER column holds

\* TokenMetric.
Metric(k, n) == [k |-> k, n |-> n]
Reported(n) == Metric("reported", n)
Derived(n) == Metric("derived", n)
NotReported == Metric("not_reported", 0)
NotApplicable == Metric("not_applicable", 0)
Unknown(why) == Metric(why, 0)
IsKnown(m) == m.k \in {"reported", "derived"}

\* UsageContractSnapshot. Every driver counts cached tokens inside its input
\* and reasoning inside its output, and prices by the effective input.
Contract(missingReadIsZero, audio) ==
  [includes |-> TRUE, exclusive |-> FALSE, write |-> FALSE, readable |-> TRUE,
   zero |-> missingReadIsZero, audio |-> audio, reasoningInside |-> TRUE]
CodexContract == Contract(FALSE, FALSE)
GrokContract == Contract(FALSE, FALSE)
AntigravityContract == Contract(TRUE, FALSE)
OpenAiCompatibleContract == Contract(TRUE, TRUE)
\* classify: the metric a field becomes, and the warning it raises.
Classify(raw, applicable) ==
  IF ~applicable THEN NotApplicable
  ELSE IF raw = Absent THEN NotReported
  ELSE IF raw < 0 THEN Unknown("invalid") ELSE Reported(raw)

ClassifyWarns(raw, applicable) ==
  IF raw = Absent THEN {}
  ELSE IF ~applicable THEN IF raw # 0 THEN {"field_conflict"} ELSE {}
  ELSE IF raw < 0 THEN {"negative_value"} ELSE {}

\* Audio is counted outside input and output, so a total with audio is not checked.
TotalReconciles(total, input, output, audios) ==
  \/ \E a \in audios : IsKnown(a) /\ a.n > 0
  \/ ~(IsKnown(total) /\ IsKnown(input) /\ IsKnown(output))
  \/ input.n + output.n = total.n

\* A reported zero was not used; an image token is billed at a rate of its own.
BillableTokens(raw) == raw # Absent /\ raw > 0

\* The cached part of the input.
CacheRead(raw, c) ==
  IF c.readable /\ raw.read = Absent /\ IsKnown(Classify(raw.input, TRUE)) /\ c.zero
  THEN Derived(0)
  ELSE Classify(raw.read, c.readable)

UncachedInput(input, read, c) ==
  IF ~c.includes \/ ~IsKnown(input) THEN input
  ELSE CASE read.k = "not_applicable" -> input
         [] ~IsKnown(read) -> Unknown("indeterminate")
         [] OTHER -> IF read.n <= input.n THEN Derived(input.n - read.n) ELSE Unknown("invalid")

EffectiveInput(input, read, write, c) ==
  LET parts == {input, read, write}
      amount(m) == IF IsKnown(m) THEN m.n ELSE 0
  IN IF c.includes THEN input
     ELSE IF c.exclusive /\ \A m \in parts : IsKnown(m) \/ m.k = "not_applicable"
          THEN Derived(amount(input) + amount(read) + amount(write))
          ELSE Unknown("indeterminate")

\* Mutant of Warnings: a total that does not add up is stored without a word.
WarnsOfFieldsOnly(raw, c, input, read, effective, output) ==
  UNION {ClassifyWarns(raw.input, TRUE), ClassifyWarns(raw.read, c.readable),
         ClassifyWarns(raw.write, c.readable /\ c.write), ClassifyWarns(raw.output, TRUE)}

Warnings(raw, c, input, read, effective, output) ==
  UNION {ClassifyWarns(raw.input, TRUE), ClassifyWarns(raw.read, c.readable),
         ClassifyWarns(raw.write, c.readable /\ c.write), ClassifyWarns(raw.output, TRUE),
         ClassifyWarns(raw.reasoning, TRUE), ClassifyWarns(raw.audio, c.audio),
         ClassifyWarns(raw.total, TRUE),
         IF IsKnown(input) /\ IsKnown(read) /\ c.includes /\ read.n > input.n
         THEN {"field_conflict"} ELSE {},
         IF TotalReconciles(Classify(raw.total, TRUE), effective, output,
                            {Classify(raw.audio, c.audio)})
         THEN {} ELSE {"field_conflict"},
         IF raw.image # Absent /\ raw.image < 0 THEN {"negative_value"} ELSE {}}

\* normalize_usage. A response that ended without usage is unknown, not zero.
NormalizeUsage(raw, c) ==
  LET none == Unknown("no_usage")
      input == Classify(raw.input, TRUE)
      read == CacheRead(raw, c)
      write == Classify(raw.write, c.readable /\ c.write)
      output == Classify(raw.output, TRUE)
      effective == EffectiveInput(input, read, write, c)
  IN IF raw = Absent
     THEN [uncached |-> none, read |-> none, write |-> none, effective |-> none,
           output |-> none, reasoning |-> none, audio |-> none, total |-> none,
           context |-> none, billable |-> FALSE, warnings |-> {}]
     ELSE [uncached |-> UncachedInput(input, read, c), read |-> read, write |-> write,
           effective |-> effective, output |-> output,
           reasoning |-> Classify(raw.reasoning, TRUE),
           audio |-> Classify(raw.audio, c.audio), total |-> Classify(raw.total, TRUE),
           context |-> effective, billable |-> BillableTokens(raw.image),
           warnings |-> Warnings(raw, c, input, read, effective, output)]

Metrics == {"uncached", "read", "write", "effective", "output", "reasoning", "audio",
            "total", "context"}

\* split_metric: a plain count is the column alone; one too large to store is unknown.
SplitMetric(m) ==
  IF ~IsKnown(m) THEN [value |-> Absent, kind |-> m.k]
  ELSE IF m.n > StoreMax THEN [value |-> Absent, kind |-> "invalid"]
  ELSE [value |-> m.n, kind |-> IF m.k = "reported" THEN "plain" ELSE "derived"]

JoinMetric(s) ==
  CASE s.kind = "plain" ->
         IF s.value = Absent THEN Unknown("indeterminate")
         ELSE IF s.value < 0 THEN Unknown("invalid") ELSE Reported(s.value)
    [] s.kind = "derived" ->
         IF s.value = Absent THEN Unknown("indeterminate")
         ELSE IF s.value < 0 THEN Unknown("invalid") ELSE Derived(s.value)
    [] OTHER -> Metric(s.kind, 0)

SplitObservation(o) == [f \in Metrics |-> SplitMetric(o[f])]
JoinObservation(row, billable, warnings) ==
  [f \in Metrics \union {"billable", "warnings"} |->
     CASE f = "billable" -> billable [] f = "warnings" -> warnings [] OTHER -> JoinMetric(row[f])]
===============================================================================
