------------------------------- MODULE SpiPort -------------------------------
(***************************************************************************)
(* The keyboard's SPI path: the polled byte exchange of                     *)
(* libraries/hal_drivers/drv_spi.c, with the SPI peripheral and the two     *)
(* shift-register chains it clocks (hardware, modelled from how the driver  *)
(* and keyboard.c use them).                                                *)
(*                                                                         *)
(* A byte is the set of its bits that are 1, a subset of Bits, so that      *)
(* &, |, ^ and ~ are \cap, \cup, symmetric difference and complement.       *)
(***************************************************************************)
EXTENDS Integers, Sequences

CONSTANTS
    Width,      \* bits of a shift register, 8 on the board
    PowerUp,    \* bytes that registers and memory without a reset value may hold
    MaxFaults   \* bound: receive polls that may expire in a behaviour

ASSUME WidthAssumption == Width \in Nat \ {0}
ASSUME PowerUpAssumption == PowerUp \subseteq SUBSET (0 .. Width - 1)
ASSUME FaultsAssumption == MaxFaults \in Nat

VARIABLES
    spi_pc,     \* where the driver is: "idle", "txe", "rxne", "done"
    send_buf,   \* the bytes of the transfer under way
    recv_buf,   \* the bytes read so far in it
    wire,       \* bytes in the peripheral's transmit buffer and shift register
    dr,         \* the received byte nobody has read yet, if any
    btnChain,   \* button registers, the next byte to be shifted out first
    ledChain,   \* LED registers, the byte furthest down the chain first
    faults,     \* expired receive polls so far
    sent,       \* history: bytes the transfer under way really sent
    expired     \* history: a poll of the transfer under way expired

spiVars == <<spi_pc, send_buf, recv_buf, wire, dr, btnChain, ledChain, faults, sent,
             expired>>

KB_CHAIN_LENGTH == 3

Bits == 0 .. Width - 1
Byte == SUBSET Bits
Chain == [1 .. KB_CHAIN_LENGTH -> Byte]

(* One shift of the two chains by a whole byte. *)
Shifted(chain, byte) == [i \in 1 .. KB_CHAIN_LENGTH |->
                            IF i = KB_CHAIN_LENGTH THEN byte ELSE chain[i + 1]]

(* The peripheral's flags: the transmit buffer is empty unless one byte is   *)
(* being shifted and another waits; the receive buffer holds an unread byte. *)
TXE  == Len(wire) < 2
RXNE == dr # <<>>

SpiTypeOK ==
    /\ spi_pc \in {"idle", "txe", "rxne", "done"}
    /\ send_buf \in Chain
    /\ recv_buf \in Seq(Byte)
    /\ Len(recv_buf) <= KB_CHAIN_LENGTH
    /\ wire \in Seq(Byte)
    /\ Len(wire) <= 2
    /\ dr \in Seq(Byte)
    /\ Len(dr) <= 1
    /\ btnChain \in Chain
    /\ ledChain \in Chain
    /\ faults \in 0 .. MaxFaults
    /\ sent \in 0 .. KB_CHAIN_LENGTH
    /\ expired \in BOOLEAN

(* Power-up: the contents of the LED registers are whatever they are. *)
SpiInit ==
    /\ spi_pc = "idle"
    /\ send_buf = [i \in 1 .. KB_CHAIN_LENGTH |-> {}]
    /\ recv_buf = <<>>
    /\ wire = <<>>
    /\ dr = <<>>
    /\ btnChain = [i \in 1 .. KB_CHAIN_LENGTH |-> {}]
    /\ ledChain \in [1 .. KB_CHAIN_LENGTH -> PowerUp]
    /\ faults = 0
    /\ sent = 0
    /\ expired = FALSE

(* rt_spi_transfer up to the driver's loop. The bus has one device and one   *)
(* user, so the bus mutex is free; the first transfer makes the device the   *)
(* owner of the bus, for which spi_configure always succeeds.                *)
rt_spi_transfer(bytes) ==
    /\ spi_pc = "idle"
    /\ spi_pc' = "txe"
    /\ send_buf' = bytes
    /\ recv_buf' = <<>>
    /\ sent' = 0
    /\ expired' = FALSE

(* SPI_TransmitReceive stores a byte and goes on to the next, or is done. *)
Store(byte) ==
    /\ recv_buf' = Append(recv_buf, byte)
    /\ spi_pc' = IF Len(recv_buf) + 1 = KB_CHAIN_LENGTH THEN "done" ELSE "txe"

(* Mutant: the buffer pointer does not advance. *)
SendByteFirst ==
    /\ spi_pc = "txe"
    /\ TXE
    /\ wire' = Append(wire, send_buf[1])
    /\ sent' = sent + 1
    /\ spi_pc' = "rxne"
    /\ UNCHANGED <<send_buf, recv_buf, dr, btnChain, ledChain, faults, expired>>

(* SPIx_ReadWriteByte: the wait for TXE ends and the byte is written ... *)
SendByte ==
    /\ spi_pc = "txe"
    /\ TXE
    /\ wire' = Append(wire, send_buf[Len(recv_buf) + 1])
    /\ sent' = sent + 1
    /\ spi_pc' = "rxne"
    /\ UNCHANGED <<send_buf, recv_buf, dr, btnChain, ledChain, faults, expired>>

(* ... or 200 polls go by and the function returns 0 without sending. *)
TxTimeout ==
    /\ spi_pc = "txe"
    /\ ~TXE
    /\ Store({})
    /\ expired' = TRUE
    /\ UNCHANGED <<send_buf, wire, dr, btnChain, ledChain, faults, sent>>

(* The wait for RXNE ends and the data register is read ... *)
ReceiveByte ==
    /\ spi_pc = "rxne"
    /\ RXNE
    /\ Store(dr[1])
    /\ dr' = <<>>
    /\ UNCHANGED <<send_buf, wire, btnChain, ledChain, faults, sent, expired>>

(* ... or 200 polls go by first and the function returns 0, with the byte's  *)
(* exchange still going on in the peripheral.                                *)
RxTimeout ==
    /\ spi_pc = "rxne"
    /\ ~RXNE
    /\ faults < MaxFaults
    /\ faults' = faults + 1
    /\ expired' = TRUE
    /\ Store({})
    /\ UNCHANGED <<send_buf, wire, dr, btnChain, ledChain, sent>>

(* Hardware: a byte has been clocked through both chains. It reaches the     *)
(* data register unless an unread byte is still there (an overrun).          *)
ClockByte ==
    /\ wire # <<>>
    /\ wire' = Tail(wire)
    /\ dr' = IF RXNE THEN dr ELSE <<btnChain[1]>>
    /\ ledChain' = Shifted(ledChain, wire[1])
    /\ btnChain' = Shifted(btnChain, {})
    /\ UNCHANGED <<spi_pc, send_buf, recv_buf, faults, sent, expired>>

(* SPI_TransmitReceive always returns RT_EOK, so spixfer, and with it        *)
(* rt_spi_transfer, returns the length it was asked for.                     *)
TransferredLength == KB_CHAIN_LENGTH
==============================================================================
