-------------------------------- MODULE Usb ---------------------------------
(***************************************************************************)
(* The three parts of the USB device that have been modelled: control      *)
(* transfers, the serial port and the HID reports.  They are served by the *)
(* same loop but have no variable in common, so that an interleaving of    *)
(* two of them shows nothing that each does not show alone: a behaviour    *)
(* is one of one part, and the others stay as they are initially.          *)
(***************************************************************************)
EXTENDS UsbControl, UsbUart, UsbHid

VARIABLE part   \* which part is looked at

Parts == {"control", "serial", "hid"}
usbVars == <<part, vars, cdcVars, hidVars>>

UsbInit == part \in Parts /\ Init /\ CdcInit /\ HidInit

ControlStep(A) == part = "control" /\ A /\ UNCHANGED <<part, cdcVars, hidVars>>
SerialStep(A) == part = "serial" /\ A /\ UNCHANGED <<part, vars, hidVars>>
HidStep(A) == part = "hid" /\ A /\ UNCHANGED <<part, vars, cdcVars>>

UsbNext == ControlStep(Next) \/ SerialStep(CdcNext) \/ HidStep(HidNext)

(* Each part with its own fairness. *)
UsbSpec ==
  /\ UsbInit /\ [][UsbNext]_usbVars
  /\ WF_usbVars(ControlStep(HandleIrq)) /\ WF_usbVars(ControlStep(HostStep))
  /\ WF_usbVars(SerialStep(EndpointIrq)) /\ WF_usbVars(SerialStep(FinishCb))
  /\ WF_usbVars(HidStep(Irq))
  /\ \A e \in Endpoints : WF_usbVars(HidStep(HostPolls(e)))

-----------------------------------------------------------------------------
(* A descriptor that fills its packets and one that does not. *)
TwoSizes == [d \in Descs |-> IF d = "device" THEN 4 ELSE 5]
=============================================================================
