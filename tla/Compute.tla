------------------------------ MODULE Compute -------------------------------
(***************************************************************************)
(* The adaptive compute runtime (crates/ntd-runtime/src/mobile.rs).  An    *)
(* AdaptiveExecutionProvider holds the backends that were registered, the  *)
(* latest snapshot of the device's resources and a table of measurements,  *)
(* and runs each tensor operation on the backends these allow, in order of *)
(* preference, until one succeeds.  plan_tensor_placement decides where a  *)
(* tensor is kept and into which pages it is cut.                          *)
(*                                                                         *)
(* Tensors are not modelled: the inputs of a call are a name, and of a     *)
(* backend's outputs only whether they are the CPU reference's.  Bytes,    *)
(* per cent, milli- and nanoseconds are small numbers; u64::MAX is the     *)
(* constant U64_MAX.                                                       *)
(***************************************************************************)
EXTENDS Integers, Sequences

CONSTANTS
    TensorOps,       \* the operations of the tensor IR
    TensorInputs,    \* the inputs a call may have
    PhoneModels,     \* DeviceCapabilities a phone may have
    Policies,        \* ComputePolicy values
    Snapshots,       \* ResourceSnapshot values the platform may report
    Accelerators,    \* the backends a platform may wrap
    Latencies,       \* latencies a measurement may find, in nanoseconds
    TensorSizes,     \* numbers of elements of a tensor
    U64_MAX,         \* where a multiplication of u64 overflows
    NANOS_PER_MS,    \* nanoseconds in a unit of the latency budget
    MaxProviders     \* bound on the registered backends

(* ThermalState and PowerClass are ordered.                                *)
Nominal == 0
Hot == 2
Low == 0
Medium == 1
High == 2

ProviderKind == {"CpuReference", "CpuTiled", "Vulkan", "Npu"}
AcceleratorKind == {"Vulkan", "Npu"}

DeviceCapabilities ==
    [total_ram : Nat, supports_vulkan : BOOLEAN, supports_npu : BOOLEAN]

ResourceSnapshot ==
    [available_ram : Nat, battery : Nat, charging : BOOLEAN, thermal : 0..3,
     latency_budget : Nat]

ComputePolicy ==
    [reserve_ram : Nat, page_bytes : Nat, min_battery : Nat, allow_vulkan : BOOLEAN,
     allow_npu : BOOLEAN, prefer_low_power : BOOLEAN, bytes_per_element : {1, 2, 4}]

(* A backend with its profile; exact are the operations with the inputs on *)
(* which its outputs are those of the CPU reference.                       *)
Calls == TensorOps \X TensorInputs

Provider ==
    [kind : ProviderKind, minimum_working_set : Nat, power : Low..High, priority : Nat,
     supported_ops : SUBSET TensorOps, exact : SUBSET Calls]

ASSUME ComputeAssumption ==
    /\ PhoneModels \subseteq DeviceCapabilities
    /\ Policies \subseteq ComputePolicy
    /\ Snapshots \subseteq ResourceSnapshot
    /\ Accelerators \subseteq Provider
    /\ \A p \in Accelerators : p.kind \in AcceleratorKind
    /\ Latencies \subseteq Nat /\ TensorSizes \subseteq Nat
    /\ U64_MAX \in Nat /\ NANOS_PER_MS \in Nat /\ MaxProviders \in Nat

VARIABLES
    device, policy,   \* fixed when the provider is built
    snapshot,         \* the resources, normalized
    autotune,         \* AutotuneTable: <<kind, op>> -> [latency, verified]
    providers,        \* the registered backends, in order
    outcome           \* what the last call returned

computeVars == <<device, policy, snapshot, autotune, providers, outcome>>

-----------------------------------------------------------------------------
(* Backends.                                                               *)

all_tensor_ops(kind, power, priority) ==
    [kind |-> kind, minimum_working_set |-> 0, power |-> power, priority |-> priority,
     supported_ops |-> TensorOps, exact |-> Calls]

CpuReferenceMobileProvider == all_tensor_ops("CpuReference", Low, 400)

(* tiled_matmul adds the products of a cell in the reference's order.      *)
CpuTiledProvider == all_tensor_ops("CpuTiled", Medium, 300)

vulkan_provider(minimum, ops, exact) ==
    [kind |-> "Vulkan", minimum_working_set |-> minimum, power |-> High, priority |-> 100,
     supported_ops |-> ops, exact |-> exact]

npu_provider(minimum, ops, exact) ==
    [kind |-> "Npu", minimum_working_set |-> minimum, power |-> Low, priority |-> 50,
     supported_ops |-> ops, exact |-> exact]

Backends == Accelerators \cup {CpuReferenceMobileProvider, CpuTiledProvider}

(* The outputs for one set of inputs are compared; a candidate that fails  *)
(* is not equivalent.                                                      *)
verify_provider_equivalence(p, op, input, fails) == ~fails /\ <<op, input>> \in p.exact

-----------------------------------------------------------------------------
(* The measurements.                                                       *)

record_measurement(table, kind, op, m) ==
    [key \in DOMAIN table \cup {<<kind, op>>} |->
        IF key = <<kind, op>> THEN m ELSE table[key]]

is_verified(table, kind, op) ==
    <<kind, op>> \in DOMAIN table /\ table[<<kind, op>>].verified

-----------------------------------------------------------------------------
(* Which backends may run, and in which order.                             *)

Lesser(a, b) == IF a <= b THEN a ELSE b
saturating_sub(a, b) == IF a >= b THEN a - b ELSE 0

normalized(s, d) ==
    [s EXCEPT !.available_ram = Lesser(@, d.total_ram), !.battery = Lesser(@, 100)]

working_budget == saturating_sub(snapshot.available_ram, policy.reserve_ram)

accelerator_permitted(kind) ==
    /\ kind = "Vulkan" => policy.allow_vulkan /\ device.supports_vulkan
    /\ kind = "Npu" => policy.allow_npu /\ device.supports_npu
    /\ kind \in AcceleratorKind =>
          /\ snapshot.charging \/ snapshot.battery >= policy.min_battery
          /\ snapshot.thermal < Hot

(* Mutant: an accelerator runs as soon as it has been measured.            *)
profile_allowed_measured(p, op) ==
    /\ op \in p.supported_ops
    /\ p.minimum_working_set <= working_budget
    /\ p.kind \in AcceleratorKind =>
          <<p.kind, op>> \in DOMAIN autotune /\ accelerator_permitted(p.kind)

profile_allowed(p, op) ==
    /\ op \in p.supported_ops
    /\ p.minimum_working_set <= working_budget
    /\ p.kind \in AcceleratorKind =>
          is_verified(autotune, p.kind, op) /\ accelerator_permitted(p.kind)

(* compare_provider orders by these ranks: measured backends first, those  *)
(* that keep the latency budget before those that miss it, then the faster *)
(* one; without measurements the more frugal one, if the policy says so;   *)
(* at last by priority.                                                    *)
Rank(p, op) ==
    IF is_verified(autotune, p.kind, op)
    THEN LET ns == autotune[<<p.kind, op>>].latency
             budget == snapshot.latency_budget
         IN  <<0, IF budget > 0 /\ ns > budget * NANOS_PER_MS THEN 1 ELSE 0, ns, p.priority>>
    ELSE <<1, 0, IF policy.prefer_low_power THEN p.power ELSE 0, p.priority>>

compare_provider(l, r) ==
    \E i \in 1..4 : l[i] < r[i] /\ \A j \in 1 .. i - 1 : l[j] = r[j]

Allowed(op) == {i \in DOMAIN providers : profile_allowed(providers[i], op)}

(* The sort is stable: backends of equal rank keep their order.            *)
Preferred(i, j, op) ==
    LET l == Rank(providers[i], op)
        r == Rank(providers[j], op)
    IN  compare_provider(l, r) \/ (~compare_provider(r, l) /\ i <= j)

selected_provider(indices, op) ==
    CHOOSE i \in indices : \A j \in indices : Preferred(i, j, op)

-----------------------------------------------------------------------------
(* Placement.                                                              *)

page_windows(total, page) ==
    LET From[offset \in 0..total] ==
          LET len == Lesser(total - offset, page) IN
          IF offset < total
          THEN <<[offset |-> offset, len |-> len]>> \o From[offset + len]
          ELSE <<>>
    IN  From[0]

Placed(kind, bytes, windows) == [call |-> "placed", kind |-> kind, bytes |-> bytes, pages |-> windows]

Accelerator ==
    CASE accelerator_permitted("Npu") -> "Npu"
      [] ~accelerator_permitted("Npu") /\ accelerator_permitted("Vulkan") -> "Vulkan"
      [] OTHER -> "ResidentCpu"

plan_tensor_placement(elements) ==
    LET bytes == elements * policy.bytes_per_element IN
    CASE bytes > U64_MAX -> [call |-> "Overflow"]
      [] bytes <= U64_MAX /\ bytes <= working_budget \div 2 ->
            Placed(Accelerator, bytes, <<[offset |-> 0, len |-> bytes]>>)
      [] bytes <= U64_MAX /\ bytes > working_budget \div 2 ->
            IF policy.page_bytes = 0 THEN [call |-> "InvalidPageSize"]
            ELSE Placed("PagedCpu", bytes, page_windows(bytes, policy.page_bytes))

-----------------------------------------------------------------------------
(* The operations of AdaptiveExecutionProvider.                            *)

NotCalled == [call |-> "none"]

ComputeInit ==
    /\ device \in PhoneModels /\ policy \in Policies
    /\ \E s \in Snapshots : snapshot = normalized(s, device)
    /\ autotune = <<>>
    /\ providers = <<>>
    /\ outcome = NotCalled

register(p) ==
    /\ Len(providers) < MaxProviders
    /\ providers' = Append(providers, p)
    /\ outcome' = NotCalled
    /\ UNCHANGED <<device, policy, snapshot, autotune>>

set_snapshot(s) ==
    /\ snapshot' = normalized(s, device)
    /\ outcome' = NotCalled
    /\ UNCHANGED <<device, policy, autotune, providers>>

(* The table is the caller's, and installed as it is.                      *)
set_autotune(table) ==
    /\ autotune' = table
    /\ outcome' = NotCalled
    /\ UNCHANGED <<device, policy, snapshot, providers>>

(* A caller builds its table record by record, so any table is installed   *)
(* after its parts: with the answer of a comparison, or with a bit of the  *)
(* caller's own.                                                           *)
InstallTable ==
    \/ set_autotune(<<>>)
    \/ \E kind \in ProviderKind, op \in TensorOps, latency \in Latencies, verified \in BOOLEAN :
          set_autotune(record_measurement(autotune, kind, op,
              [latency |-> latency, verified |-> verified]))
    \/ \E p \in Backends, op \in TensorOps, input \in TensorInputs,
          latency \in Latencies, fails \in BOOLEAN :
          set_autotune(record_measurement(autotune, p.kind, op,
              [latency |-> latency,
               verified |-> verify_provider_equivalence(p, op, input, fails)]))

(* The backends of `failing` fail on these inputs.                         *)
execute_adaptive(op, input, failing) ==
    /\ LET indices == Allowed(op) \ failing IN
       outcome' = [call |-> "executed", op |-> op, input |-> input, failing |-> failing,
                   by |-> IF indices = {} THEN 0 ELSE selected_provider(indices, op)]
    /\ UNCHANGED <<device, policy, snapshot, autotune, providers>>

plan_placement(elements) ==
    /\ outcome' = plan_tensor_placement(elements)
    /\ UNCHANGED <<device, policy, snapshot, autotune, providers>>

ComputeNext ==
    \/ \E p \in Backends : register(p)
    \/ \E s \in Snapshots : set_snapshot(s)
    \/ InstallTable
    \/ \E op \in TensorOps, input \in TensorInputs : \E failing \in SUBSET DOMAIN providers :
          execute_adaptive(op, input, failing)
    \/ \E elements \in TensorSizes : plan_placement(elements)

ComputeSpec == ComputeInit /\ [][ComputeNext]_computeVars

-----------------------------------------------------------------------------
(* When the outputs may drift from the CPU reference's: never of a CPU     *)
(* backend, and of an accelerator only while the table in force calls its  *)
(* kind verified for the operation and neither heat (Hot rejects           *)
(* accelerators, docs/ADAPTIVE_MOBILE_COMPUTE_RUNTIME.md, 8) nor battery   *)
(* nor policy nor device forbids it.  It may then: the table speaks of a   *)
(* kind, after a comparison on one input or on the caller's word alone.    *)
OutputIsReference ==
    outcome.call = "executed" /\ outcome.by # 0 =>
        LET p == providers[outcome.by] IN
        \/ <<outcome.op, outcome.input>> \in p.exact
        \/ /\ p.kind \in AcceleratorKind
           /\ is_verified(autotune, p.kind, outcome.op)
           /\ snapshot.thermal < Hot
           /\ snapshot.charging \/ snapshot.battery >= policy.min_battery
           /\ IF p.kind = "Npu" THEN policy.allow_npu /\ device.supports_npu
                                ELSE policy.allow_vulkan /\ device.supports_vulkan

(* No pressure and no failing accelerator costs an answer: with a CPU      *)
(* backend that does not fail itself the operation succeeds.               *)
FallsBackToCpu ==
    outcome.call = "executed" =>
        \A i \in DOMAIN providers \ outcome.failing :
            providers[i].kind \notin AcceleratorKind => outcome.by # 0

(* The pages of a tensor follow each other without gap or overlap, none is *)
(* empty or larger than a page, and together they are the tensor.          *)
PagesTile ==
    outcome.call = "placed" /\ outcome.kind = "PagedCpu" =>
        LET w == outcome.pages
            End(i) == w[i].offset + w[i].len
        IN  /\ w # <<>> /\ w[1].offset = 0 /\ End(Len(w)) = outcome.bytes
            /\ \A i \in DOMAIN w : w[i].len \in 1..policy.page_bytes
            /\ \A i \in 1 .. Len(w) - 1 : w[i + 1].offset = End(i)

(* Adaptive compute changes where an operation runs and where a tensor     *)
(* lies; the result only where an accelerator was called verified.         *)
ComputeIsSound == OutputIsReference /\ FallsBackToCpu /\ PagesTile
=============================================================================
