\* Three requests by up to two clients; two requests to the STM32F1 keyboard.
CONSTANTS
  Kinds = {"esp32", "nrf52", "tinyusb"}
  Requests = 3
  Clients = 2
  UsbRequests = 2
SPECIFICATION TransportsSpec
INVARIANTS TransportsTypeOK BuffersWhole BusyWillEnd JumpLeavesNothing
PROPERTIES TakenInOrder NoReplay AnswersTheAsker ClientsAnswered
