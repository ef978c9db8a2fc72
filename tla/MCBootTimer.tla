----------------------------- MODULE MCBootTimer -----------------------------
(* Model-checking instance of BootTimer: MADTs. *)
EXTENDS BootTimer

Other(type, size) == [entry_type |-> type, record_length |-> size]

IOApicRecord(gsi_base) == [entry_type |-> 1, record_length |-> 12, gsi_base |-> gsi_base]

Ovr(source, gsi, polarity, trigger) ==
  [entry_type |-> 2, record_length |-> 10, irq_source |-> source, gsi |-> gsi,
   polarity |-> polarity, trigger |-> trigger]

(* No override; the PC's usual ones, before the IOAPIC and after it, with     *)
(* records of other lengths between them; the PIT left on its own input and a *)
(* second IOAPIC.                                                             *)
UsualTables == {<<Other(0, 8), IOApicRecord(0)>>,
                <<Ovr(0, 2, "none", "none"), Other(4, 6), IOApicRecord(0), Other(9, 16),
                  Ovr(9, 9, "high", "level")>>,
                <<IOApicRecord(0), IOApicRecord(24), Ovr(9, 9, "low", "edge")>>}

(* No IOAPIC; a type the walk does not know; a source beyond the legacy ones; *)
(* reserved flags; a record without length, at the end or before an override. *)
OddTables == {<<Other(0, 8)>>,
              <<IOApicRecord(0), Other(10, 16)>>,
              <<IOApicRecord(0), Ovr(40, 2, "none", "none")>>,
              <<IOApicRecord(0), Ovr(0, 2, "reserved", "edge")>>,
              <<IOApicRecord(0), Other(0, 0)>>,
              <<IOApicRecord(0), Other(0, 0), Ovr(0, 2, "none", "none")>>}

(* The HPET may route its timer to two lines, or to none. *)
Lines == {{2, 9}, {}}

AllTables == UsualTables \cup OddTables

=============================================================================
