-------------------------------- MODULE MemSpec --------------------------------
(***************************************************************************)
(* The memory specifications: what the constructor of MemSpec<Standard>    *)
(* makes of a data sheet.  A sheet is a record of what the parsed file     *)
(* holds: the architecture, the timing, the currents per voltage domain,   *)
(* and the bankwise parameters, each optional entry as a sequence of none  *)
(* or one.                                                                 *)
(***************************************************************************)
EXTENDS Integers, Sequences

ValueOr(option, default) == IF option = <<>> THEN default ELSE option[1]

\* MemSpec<T>: what all standards take over.
Common(sheet) ==
    [standard |-> sheet.standard,
     numberOfBanks |-> sheet.nbrOfBanks, numberOfBankGroups |-> sheet.nbrOfBankGroups,
     numberOfRanks |-> sheet.nbrOfRanks,
     numberOfDevices |-> IF sheet.nbrOfDevices < 1 THEN 1 ELSE sheet.nbrOfDevices,
     burstLength |-> sheet.burstLength, dataRate |-> sheet.dataRate,
     bitWidth |-> sheet.width]

\* A constructor divides by zero.
Traps(sheet) ==
    \/ sheet.standard # "DDR4" /\ sheet.nbrOfBankGroups = 0
    \/ sheet.standard # "LPDDR4" /\ sheet.dataRate = 0
    \/ sheet.standard \in {"LPDDR5", "LPDDR6"} /\ sheet.WCK2CK = 0

\* The currents of the domains, with i5 that of the refresh mode and iBeta that
\* of a row cycle if the sheet has none.
MemPowerSpec(sheet, i5) ==
    [d \in DOMAIN sheet.power |->
        LET p == sheet.power[d]
        IN  [v |-> p.v, i0 |-> p.i0, i2N |-> p.i2N, i3N |-> p.i3N, i5 |-> p[i5],
             iBeta |-> ValueOr(p.iBeta, p.i0)]]

bwPowerFactRho(sheet) ==
    IF sheet.bankwise = <<>> THEN 1 ELSE ValueOr(sheet.bankwise[1].factRho, 1)

\* DDR4: the refresh mode decides on the time and the current of a refresh.
RefreshDDR4(sheet) ==
    CASE sheet.RefMode = "REF_MODE_2" -> [i5 |-> "i5F2", tRFC |-> sheet.timing.RFC2]
      [] sheet.RefMode = "REF_MODE_4" -> [i5 |-> "i5F4", tRFC |-> sheet.timing.RFC4]
      [] OTHER -> [i5 |-> "i5B", tRFC |-> sheet.timing.RFC1]

MemSpecDDR4(sheet) ==
    LET t == sheet.timing
        tBurst == sheet.burstLength \div sheet.dataRate
    IN  [common |-> Common(sheet), power |-> MemPowerSpec(sheet, RefreshDDR4(sheet).i5),
         rho |-> bwPowerFactRho(sheet),
         tCK |-> t.tCK, tRFC |-> RefreshDDR4(sheet).tRFC, tWL |-> t.WL, tBurst |-> tBurst,
         prechargeOffsetRD |-> t.AL + t.RTP,
         prechargeOffsetWR |-> tBurst + t.WL + t.WR]

RefreshDDR5(sheet) ==
    IF sheet.RefMode = "REF_MODE_2" THEN [i5 |-> "i5F", tRFC |-> sheet.timing.RFC2]
    ELSE [i5 |-> "i5B", tRFC |-> sheet.timing.RFC1]

\* The rates of the command bus, the data bus and the strobes.
DataRateSpec(sheet) == ValueOr(sheet.dataRates, <<2, 2, 2>>)

banksPerGroup(sheet) == sheet.nbrOfBanks \div sheet.nbrOfBankGroups

MemSpecDDR5(sheet) ==
    LET t == sheet.timing
        tBurst == sheet.burstLength \div sheet.dataRate
    IN  [common |-> Common(sheet), power |-> MemPowerSpec(sheet, RefreshDDR5(sheet).i5),
         rho |-> bwPowerFactRho(sheet), banksPerGroup |-> banksPerGroup(sheet),
         dataRates |-> DataRateSpec(sheet),
         tCK |-> t.tCK, tRFC |-> RefreshDDR5(sheet).tRFC, tRFCsb |-> t.RFCsb, tWL |-> t.WL,
         tBurst |-> tBurst,
         prechargeOffsetRD |-> t.RTP,
         prechargeOffsetWR |-> tBurst + t.WL + t.WR]

\* Partial array self-refresh of LPDDR4: how many banks the modes 0 to 7 leave
\* out, and the first bank that is active.
LeftOut == <<0, 4, 6, 7, 2, 4, 6, 7>>
FirstActive == <<0, 0, 0, 0, 2, 4, 6, 7>>

PASR(sheet) == sheet.bankwise # <<>> /\ ValueOr(sheet.bankwise[1].hasPASR, FALSE)

pasrMode(sheet) ==
    LET mode == ValueOr(sheet.bankwise[1].pasrMode, 0)
    IN  IF mode \in 0..7 THEN mode ELSE 0

activeBanks(sheet) ==
    IF ~PASR(sheet) THEN {}
    ELSE LET first == FirstActive[pasrMode(sheet) + 1]
         IN  first..(first + sheet.nbrOfBanks - LeftOut[pasrMode(sheet) + 1] - 1)

\* The list of the active banks is resized to a length below zero.
LengthError(sheet) ==
    sheet.standard = "LPDDR4" /\ PASR(sheet)
        /\ sheet.nbrOfBanks < LeftOut[pasrMode(sheet) + 1]

MemSpecLPDDR4(sheet) ==
    LET t == sheet.timing
    IN  [common |-> Common(sheet), power |-> MemPowerSpec(sheet, "i5"),
         rho |-> bwPowerFactRho(sheet), banksPerGroup |-> banksPerGroup(sheet),
         activeBanks |-> activeBanks(sheet),
         tCK |-> t.tCK, tRFC |-> t.RFCab, tRFCPB |-> t.RFCpb, tWL |-> t.WL,
         prechargeOffsetRD |-> IF sheet.burstLength = 16 THEN t.RTP ELSE 8 + t.RTP,
         prechargeOffsetWR |-> t.WL + sheet.burstLength \div 2 + t.WR + 1]

\* The timing that LPDDR5 and LPDDR6 share.
WithWCK(sheet) ==
    LET t == sheet.timing
        tBurst == sheet.burstLength \div (sheet.dataRate * sheet.WCK2CK)
    IN  [tCK |-> t.tCK, tWCK |-> t.tCK \div sheet.WCK2CK, WCKtoCK |-> sheet.WCK2CK,
         tWL |-> t.WL, tBurst |-> tBurst,
         prechargeOffsetRD |-> tBurst + t.RBTP,
         prechargeOffsetWR |-> t.WL + tBurst + 1 + t.WR]

\* The bank architecture of LPDDR5: that of the banks and groups of the sheet, or
\* 16 banks without groups if there is none of that kind.
Architecture(mode, banks, groups) ==
    [bank_arch |-> mode, numberOfBanks |-> banks, numberOfBankGroups |-> groups]

\* A faulty variant of BankArchitecture: takes the banks of the sheet in any case.
BankArchitectureUnchecked(sheet) ==
    LET banks == sheet.nbrOfBanks
        groups == sheet.nbrOfBankGroups
    IN  Architecture(IF groups = 4 THEN "MBG" ELSE "M16B", banks, groups)

BankArchitecture(sheet) ==
    LET banks == sheet.nbrOfBanks
        groups == sheet.nbrOfBankGroups
    IN  CASE banks = 16 /\ groups \in {0, 1} -> Architecture("M16B", banks, groups)
          [] banks = 16 /\ groups = 4 -> Architecture("MBG", banks, groups)
          [] banks = 8 /\ groups \in {0, 1} -> Architecture("M8B", banks, groups)
          [] OTHER -> Architecture("M16B", 16, 1)

MemSpecLPDDR5(sheet) ==
    LET t == sheet.timing
        arch == BankArchitecture(sheet)
    IN  [common |-> [Common(sheet) EXCEPT !.numberOfBanks = arch.numberOfBanks,
                                          !.numberOfBankGroups = arch.numberOfBankGroups],
         power |-> MemPowerSpec(sheet, "i5"), rho |-> bwPowerFactRho(sheet),
         banksPerGroup |-> banksPerGroup(sheet),     \* not of the architecture
         bank_arch |-> arch.bank_arch, perTwoBankOffset |-> 8,
         wckAlwaysOnMode |-> sheet.WCKalwaysOn, tRFC |-> t.RFCab, tRFCPB |-> t.RFCpb,
         timing |-> WithWCK(sheet)]

MemSpecLPDDR6(sheet) ==
    LET t == sheet.timing
    IN  [common |-> Common(sheet), power |-> MemPowerSpec(sheet, "i5"),
         rho |-> bwPowerFactRho(sheet), banksPerGroup |-> banksPerGroup(sheet),
         wckAlwaysOnMode |-> sheet.WCKalwaysOn, tRFCAB |-> t.RFCab, tRFCDB |-> t.RFCdb,
         timing |-> WithWCK(sheet)]

SpecOf(sheet) ==
    CASE sheet.standard = "DDR4" -> MemSpecDDR4(sheet)
      [] sheet.standard = "DDR5" -> MemSpecDDR5(sheet)
      [] sheet.standard = "LPDDR4" -> MemSpecLPDDR4(sheet)
      [] sheet.standard = "LPDDR5" -> MemSpecLPDDR5(sheet)
      [] sheet.standard = "LPDDR6" -> MemSpecLPDDR6(sheet)
=============================================================================
